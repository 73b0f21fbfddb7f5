------------------------- MODULE DialogueLanes_proofs -------------------------
(***************************************************************************)
(* The two lanes of a conversation agree with their tasks, and an answer   *)
(* follows its question, for every number of browser sessions, turns in    *)
(* flight and exchanges; and one draft, for every text, any proposals and  *)
(* any number of clicks and follow-ups, stays what its text and HR say.    *)
(***************************************************************************)
EXTENDS DialogueLanes, DraftReview,
        SequenceTheorems, FiniteSetTheorems, WellFoundedInduction, TLAPS

Questions == {"SEARCH_OR_VACANCY", "VACANCY_SOURCE"}
Outcomes == {"RESOLVED", "UNCLEAR", "NEW_TASK", "EXPIRED"}

RowRecs ==
    [ctx : Ctxs, task : Nat, kind : Questions,
     status : {"OPEN", "RESOLVED", "SUPERSEDED", "EXPIRED", "DELETED"},
     why : Outcomes \cup {""}, late : BOOLEAN, asked : Nat, attempt : {1, 2}, pred : Nat,
     source : Nat]

TaskRecs ==
    [ctx : Ctxs,
     status : {"WAITING_CLARIFICATION", "WAITING_CONFIRMATION", "DELETED"} \cup TerminalStatuses,
     draft : Nat]

SayRecs ==
    [row : Nat, to : Outcomes \cup {""},
     task : TerminalStatuses \cup {"WAITING_CONFIRMATION", ""}, live : BOOLEAN,
     ask : Questions \cup {""}, retry : BOOLEAN, lane : {"NONE", "NEW_DRAFT", "AMENDED"}]

TurnRecs == [ctx : Ctxs \cup {None}, stale : BOOLEAN, say : SayRecs, draft : Nat]

Typed ==
    /\ log \in Seq({"plain", "draft", "confirmed"})
    /\ rows \in Seq(RowRecs)
    /\ tasks \in Seq(TaskRecs)
    /\ asking \in [Ctxs -> Nat]
    /\ draft \in [Ctxs -> Nat]
    /\ turn \in [Handlers -> TurnRecs]

\* What _resolve_dialogue_state and the body of a turn can stage together.
Coherent(s) ==
    /\ s.row = 0 => s.to = "" /\ s.task = "" /\ ~s.live
    /\ s.row # 0 => s.to # ""
    /\ s.retry <=> s.to = "UNCLEAR"
    /\ s.retry => s.ask # "" /\ s.task = "" /\ s.live
    /\ s.row # 0 /\ ~s.retry => s.task # ""
    /\ s.to = "RESOLVED" => s.live /\ s.ask = ""
    /\ s.task = "WAITING_CONFIRMATION" => s.to = "RESOLVED" /\ s.lane = "NEW_DRAFT"
    /\ s.ask # "" => s.lane = "NONE"

\* Every question belongs to a task, a first attempt asks about its own
\* exchange, and a second one has a first.
RowsSound ==
    \A r \in DOMAIN rows :
        /\ rows[r].task \in DOMAIN tasks
        /\ rows[r].attempt = 1 => rows[r].source = rows[r].asked
        /\ rows[r].attempt = 2 => rows[r].pred \in DOMAIN rows

\* A question is asked a second time, and never a third.
SecondOfFirst(s) == s.retry => rows[s.row].attempt = 1

\* A turn in flight has staged something coherent, asks a second time only what
\* was asked once, and knows the draft pointer as long as nobody wrote the
\* transcript.
TurnsSound ==
    \A h \in Handlers : turn[h].ctx # None =>
        LET s == turn[h].say
        IN /\ Coherent(s)
           /\ s.row # 0 => s.row \in DOMAIN rows
           /\ SecondOfFirst(s)
           /\ ~turn[h].stale => /\ turn[h].draft = draft[turn[h].ctx]
                                /\ s.lane = "AMENDED" => draft[turn[h].ctx] # 0

IInv == Typed /\ RowsSound /\ TurnsSound /\ LaneAConsistent /\ LaneBConsistent

-----------------------------------------------------------------------------
(* Sequences and records.                                                  *)

LEMMA FunctionIsSeq ==
    ASSUME NEW S, NEW n \in Nat, NEW f \in [1..n -> S]
    PROVE  f \in Seq(S) /\ Len(f) = n /\ DOMAIN f = 1..n
<1>1. f \in Seq(S)
  BY SeqDef
<1>2. Len(f) \in Nat /\ DOMAIN f = 1..Len(f) /\ DOMAIN f = 1..n
  BY <1>1, LenProperties
<1> QED BY <1>1, <1>2

LEMMA SeqIsFunction ==
    ASSUME Typed
    PROVE  /\ Len(log) \in Nat /\ DOMAIN log = 1..Len(log)
           /\ Len(rows) \in Nat /\ DOMAIN rows = 1..Len(rows) /\ rows \in [1..Len(rows) -> RowRecs]
           /\ Len(tasks) \in Nat /\ DOMAIN tasks = 1..Len(tasks)
           /\ tasks \in [1..Len(tasks) -> TaskRecs]
  BY LenProperties DEF Typed

LEMMA RowFields ==
    ASSUME NEW w \in RowRecs
    PROVE  /\ w.ctx \in Ctxs /\ w.task \in Nat /\ w.kind \in Questions
           /\ w.status \in {"OPEN", "RESOLVED", "SUPERSEDED", "EXPIRED", "DELETED"}
           /\ w.late \in BOOLEAN /\ w.asked \in Nat /\ w.attempt \in {1, 2} /\ w.pred \in Nat
           /\ w.source \in Nat
  BY DEF RowRecs

Update(u, st, d) == [u EXCEPT !.status = st, !.draft = d]

LEMMA TaskUpdated ==
    ASSUME NEW u \in TaskRecs, NEW d \in Nat,
           NEW st \in TerminalStatuses \cup {"WAITING_CONFIRMATION"}
    PROVE  /\ Update(u, st, d) \in TaskRecs
           /\ Update(u, st, d).ctx = u.ctx
           /\ Update(u, st, d).status = st
           /\ Update(u, st, d).draft = d
  BY DEF TaskRecs, Update

LEMMA SayFields ==
    ASSUME NEW s \in SayRecs
    PROVE  /\ s.row \in Nat /\ s.to \in Outcomes \cup {""}
           /\ s.task \in TerminalStatuses \cup {"WAITING_CONFIRMATION", ""} /\ s.live \in BOOLEAN
           /\ s.ask \in Questions \cup {""} /\ s.retry \in BOOLEAN
           /\ s.lane \in {"NONE", "NEW_DRAFT", "AMENDED"}
  BY DEF SayRecs

LEMMA IdleTyped == NoChange \in SayRecs /\ Idle \in TurnRecs /\ Idle.ctx = None
  BY DEF NoChange, SayRecs, Idle, TurnRecs

LEMMA InitIInv == ASSUME DialogueAssumption, Init PROVE IInv
<1>1. log \in Seq({"plain", "draft", "confirmed"}) /\ rows \in Seq(RowRecs) /\ tasks \in Seq(TaskRecs)
      /\ DOMAIN rows = {} /\ DOMAIN tasks = {}
  BY EmptySeq, LenProperties DEF Init
<1>2. Typed
  BY <1>1, IdleTyped DEF Init, Typed
<1>3. RowsSound
  BY <1>1 DEF RowsSound
<1>4. TurnsSound
  BY IdleTyped DEF Init, TurnsSound
<1>5. LaneAConsistent
  <2>1. \A c \in Ctxs : asking[c] = 0 /\ Open(c) = {} /\ WaitingAnswer(c) = {}
    BY <1>1 DEF Init, Open, WaitingAnswer
  <2> QED BY <2>1 DEF LaneAConsistent
<1>6. LaneBConsistent
  BY <1>1 DEF Init, LaneBConsistent, Waiting
<1> QED BY <1>2, <1>3, <1>4, <1>5, <1>6 DEF IInv

-----------------------------------------------------------------------------
(* The start of a turn: what it may stage.                                 *)

LEMMA BodiesCoherent ==
    ASSUME NEW c \in Ctxs, NEW b \in Bodies(c)
    PROVE  /\ b \in SayRecs /\ Coherent(b) /\ b.row = 0 /\ ~b.retry
           /\ b.lane = "AMENDED" => draft[c] # 0
<1>1. CASE b = NoChange
  BY <1>1 DEF NoChange, SayRecs, Coherent
<1>2. CASE b = [NoChange EXCEPT !.ask = "SEARCH_OR_VACANCY"]
  BY <1>2 DEF NoChange, SayRecs, Questions, Coherent
<1>3. CASE b = [NoChange EXCEPT !.ask = "VACANCY_SOURCE"]
  BY <1>3 DEF NoChange, SayRecs, Questions, Coherent
<1>4. CASE b = [NoChange EXCEPT !.lane = "NEW_DRAFT"]
  BY <1>4 DEF NoChange, SayRecs, Coherent
<1>5. CASE b = [NoChange EXCEPT !.lane = "AMENDED"] /\ PayloadKept(draft[c])
  BY <1>5 DEF NoChange, SayRecs, Coherent, PayloadKept
<1> QED BY <1>1, <1>2, <1>3, <1>4, <1>5 DEF Bodies

LEMMA StagedCoherent ==
    ASSUME Typed, RowsSound, LaneAConsistent, NEW c \in Ctxs, NEW s \in Staged(c)
    PROVE  /\ s \in SayRecs /\ Coherent(s)
           /\ s.row # 0 => s.row \in DOMAIN rows
           /\ SecondOfFirst(s)
           /\ s.lane = "AMENDED" => draft[c] # 0
<1> DEFINE r == asking[c]
<1>1. CASE r = 0
  BY <1>1, BodiesCoherent DEF Staged, SecondOfFirst
<1>2. CASE r # 0
  <2>1. r \in DOMAIN rows /\ r \in Nat
    BY <1>2 DEF LaneAConsistent, Open, Typed
  <2>2. rows[r] \in RowRecs
    BY <2>1, SeqIsFunction
  <2>3. CASE s = ExpireStale(r)
    BY <1>2, <2>1, <2>3 DEF ExpireStale, SecondOfFirst, NoChange, SayRecs, Coherent, Outcomes, TerminalStatuses
  <2>4. CASE s \in Resolutions(r)
    <3>1. CASE s = [NoChange EXCEPT !.row = r, !.to = "RESOLVED", !.live = TRUE,
                                    !.task = "WAITING_CONFIRMATION", !.lane = "NEW_DRAFT"]
      BY <1>2, <2>1, <3>1 DEF SecondOfFirst, NoChange, SayRecs, Coherent, Outcomes
    <3>2. CASE s = [NoChange EXCEPT !.row = r, !.to = "RESOLVED", !.live = TRUE,
                                    !.task = "FAILED_SAFE"]
      BY <1>2, <2>1, <3>2 DEF SecondOfFirst, NoChange, SayRecs, Coherent, Outcomes, TerminalStatuses
    <3>3. CASE s = [NoChange EXCEPT !.row = r, !.to = "RESOLVED", !.live = TRUE,
                                    !.task = "COMPLETED"]
      BY <1>2, <2>1, <3>3 DEF SecondOfFirst, NoChange, SayRecs, Coherent, Outcomes, TerminalStatuses
    <3> QED BY <2>4, <3>1, <3>2, <3>3 DEF Resolutions
  <2>5. CASE s \in NewTask(c, r)
    <3>1. PICK b \in Bodies(c) :
            s = [b EXCEPT !.row = r, !.to = "NEW_TASK", !.live = TRUE, !.task = "CANCELLED"]
      BY <2>5 DEF NewTask
    <3>2. b \in SayRecs /\ Coherent(b) /\ ~b.retry /\ (b.lane = "AMENDED" => draft[c] # 0)
      BY BodiesCoherent
    <3>3. s \in SayRecs
      BY <2>1, <3>1, <3>2 DEF SayRecs, Outcomes, TerminalStatuses
    <3>4. /\ s.row = r /\ s.to = "NEW_TASK" /\ s.live = TRUE /\ s.task = "CANCELLED"
          /\ s.ask = b.ask /\ s.retry = b.retry /\ s.lane = b.lane
      BY <3>1, <3>2 DEF SayRecs
    <3> QED BY <1>2, <2>1, <3>2, <3>3, <3>4 DEF Coherent, SecondOfFirst
  <2>6. CASE s = Unclear(r)
    <3>1. CASE rows[r].attempt >= MaxAttempts
      BY <1>2, <2>1, <2>6, <3>1
         DEF Unclear, SecondOfFirst, NoChange, SayRecs, Coherent, Outcomes, TerminalStatuses
    <3>2. CASE ~(rows[r].attempt >= MaxAttempts)
      <4>1. rows[r].attempt = 1 /\ rows[r].kind \in Questions
        BY <3>2, <2>2, RowFields DEF MaxAttempts
      <4>2. s = [NoChange EXCEPT !.row = r, !.to = "UNCLEAR", !.live = TRUE,
                                 !.ask = rows[r].kind, !.retry = TRUE]
        BY <2>6, <3>2 DEF Unclear
      <4> QED BY <1>2, <2>1, <4>1, <4>2 DEF SecondOfFirst, NoChange, SayRecs, Coherent, Outcomes, Questions
    <3> QED BY <3>1, <3>2
  <2> QED BY <1>2, <2>3, <2>4, <2>5, <2>6 DEF Staged
<1> QED BY <1>1, <1>2

\* Steps that leave the rows, the tasks and both pointers alone.
LEMMA LanesUntouched ==
    ASSUME IInv, UNCHANGED <<log, rows, tasks, asking, draft>>,
           turn' \in [Handlers -> TurnRecs], TurnsSound'
    PROVE  IInv'
<1>1. Typed' /\ RowsSound'
  BY DEF IInv, Typed, RowsSound
<1>2. LaneAConsistent'
  BY DEF IInv, LaneAConsistent, Open, WaitingAnswer
<1>3. LaneBConsistent'
  BY DEF IInv, LaneBConsistent, Waiting
<1> QED BY <1>1, <1>2, <1>3 DEF IInv

LEMMA StartIInv ==
    ASSUME DialogueAssumption, IInv, NEW h \in Handlers, NEW c \in Ctxs, Start(h, c)
    PROVE  IInv'
<1>1. PICK s \in Staged(c) :
        turn' = [turn EXCEPT ![h] = [ctx |-> c, stale |-> FALSE, say |-> s, draft |-> draft[c]]]
  BY DEF Start
<1>2. /\ s \in SayRecs /\ Coherent(s) /\ (s.row # 0 => s.row \in DOMAIN rows)
      /\ SecondOfFirst(s) /\ (s.lane = "AMENDED" => draft[c] # 0)
  BY StagedCoherent DEF IInv
<1>3. turn' \in [Handlers -> TurnRecs]
  BY <1>1, <1>2 DEF IInv, Typed, TurnRecs
<1>4. TurnsSound'
  BY <1>1, <1>2 DEF IInv, Typed, TurnsSound, SecondOfFirst, Start
<1> QED BY <1>3, <1>4, LanesUntouched DEF Start

LEMMA AbandonIInv ==
    ASSUME IInv, NEW h \in Handlers, Abandon(h)
    PROVE  IInv'
<1>1. turn' \in [Handlers -> TurnRecs]
  BY IdleTyped DEF IInv, Typed, Abandon
<1>2. TurnsSound'
  BY IdleTyped DEF IInv, Typed, TurnsSound, SecondOfFirst, Abandon
<1> QED BY <1>1, <1>2, LanesUntouched DEF Abandon

LEMMA ReservationExpiresIInv == ASSUME IInv, ReservationExpires PROVE IInv'
<1>1. turn' \in [Handlers -> TurnRecs] /\ TurnsSound'
  BY DEF IInv, Typed, TurnsSound, SecondOfFirst, ReservationExpires
<1> QED BY <1>1, LanesUntouched DEF ReservationExpires

\* Writing the transcript outdates whatever was staged.
LEMMA OutdatedTurns ==
    ASSUME Typed, NEW h \in Handlers
    PROVE  /\ Outdated(h) \in TurnRecs
           /\ Outdated(h).ctx # None =>
                /\ Outdated(h).ctx = turn[h].ctx /\ Outdated(h).stale
                /\ Outdated(h).say = turn[h].say
  BY IdleTyped DEF Typed, Outdated, TurnRecs

LEMMA ReviewDraftIInv == ASSUME IInv, NEW c \in Ctxs, ReviewDraft(c) PROVE IInv'
<1>1. turn' \in [Handlers -> TurnRecs]
  BY OutdatedTurns DEF IInv, ReviewDraft, TranscriptWritten
<1>2. TurnsSound'
  <2> SUFFICES ASSUME NEW h \in Handlers, turn'[h].ctx # None
               PROVE  /\ Coherent(turn'[h].say)
                      /\ turn'[h].say.row # 0 => turn'[h].say.row \in DOMAIN rows
                      /\ SecondOfFirst(turn'[h].say)
                      /\ turn'[h].stale
    BY DEF TurnsSound, SecondOfFirst, ReviewDraft
  <2>1. turn'[h] = Outdated(h)
    BY DEF ReviewDraft, TranscriptWritten
  <2> QED BY <2>1, OutdatedTurns DEF IInv, TurnsSound
<1> QED BY <1>1, <1>2, LanesUntouched DEF ReviewDraft

-----------------------------------------------------------------------------
(* Phase B.                                                                *)

\* The tasks a commit leaves, before it retires terminal ones.
Rewritten(c, s, d) ==
    Created(Amended(TaskMoved(DraftReplaced(tasks, c, s), s, d), c, s, d), c, s, d)

Moved(s, t) == s.row # 0 /\ s.task # "" /\ t = rows[s.row].task

\* The row a turn answers is the open question of its context, and its task is
\* the one that waits.
Answers(c, s) ==
    s.row # 0 =>
        /\ s.row \in DOMAIN rows /\ rows[s.row].ctx = c
        /\ rows[s.row].task \in DOMAIN tasks
        /\ tasks[rows[s.row].task].ctx = c
        /\ tasks[rows[s.row].task].status = "WAITING_CLARIFICATION"

LEMMA UnchangedAnswers ==
    ASSUME IInv, NEW c \in Ctxs, NEW s \in SayRecs, Unchanged(c, s)
    PROVE  Answers(c, s) /\ (s.row # 0 => asking[c] = s.row) /\ (s.row = 0 /\ s.ask # "" => asking[c] = 0)
<1>1. CASE s.row = 0
  BY <1>1 DEF Answers, Unchanged
<1>2. CASE s.row # 0
  <2>1. asking[c] = s.row /\ asking[c] # 0
    BY <1>2 DEF Unchanged
  <2>2. Open(c) = {s.row} /\ WaitingAnswer(c) = {rows[s.row].task}
    BY <2>1 DEF IInv, LaneAConsistent
  <2>3. s.row \in DOMAIN rows /\ rows[s.row].ctx = c
    BY <2>2 DEF Open
  <2>4. /\ rows[s.row].task \in DOMAIN tasks /\ tasks[rows[s.row].task].ctx = c
        /\ tasks[rows[s.row].task].status = "WAITING_CLARIFICATION"
    BY <2>2 DEF WaitingAnswer
  <2> QED BY <1>2, <2>1, <2>3, <2>4 DEF Answers
<1> QED BY <1>1, <1>2

LEMMA TasksRewritten ==
    ASSUME Typed, NEW c \in Ctxs, NEW s \in SayRecs, NEW d \in Nat, Coherent(s), Answers(c, s),
           NEW T, T = Rewritten(c, s, d)
    PROVE  /\ T \in Seq(TaskRecs)
           /\ Len(T) = IF NeedsDraftTask(s) \/ NeedsQuestionTask(s) THEN Len(tasks) + 1 ELSE Len(tasks)
           /\ \A t \in 1..Len(tasks) :
                /\ T[t].ctx = tasks[t].ctx
                /\ t \in Waiting(c) /\ s.lane = "NEW_DRAFT" => T[t].status = "CANCELLED"
                /\ t \in Waiting(c) /\ s.lane # "NEW_DRAFT" =>
                     /\ T[t].status = "WAITING_CONFIRMATION"
                     /\ T[t].draft = IF s.lane = "AMENDED" THEN d ELSE tasks[t].draft
                /\ Moved(s, t) =>
                     /\ t \notin Waiting(c) /\ T[t].status = s.task
                     /\ s.task = "WAITING_CONFIRMATION" => T[t].draft = d
                /\ t \notin Waiting(c) /\ ~Moved(s, t) => T[t] = tasks[t]
           /\ NeedsDraftTask(s) =>
                /\ T[Len(tasks) + 1].ctx = c /\ T[Len(tasks) + 1].status = "WAITING_CONFIRMATION"
                /\ T[Len(tasks) + 1].draft = d
           /\ NeedsQuestionTask(s) =>
                T[Len(tasks) + 1].ctx = c /\ T[Len(tasks) + 1].status = "WAITING_CLARIFICATION"
<1> DEFINE n == Len(tasks)
           T1 == DraftReplaced(tasks, c, s)
           T2 == TaskMoved(T1, s, d)
           T3 == Amended(T2, c, s, d)
<1>1. n \in Nat /\ DOMAIN tasks = 1..n /\ tasks \in [1..n -> TaskRecs]
  BY SeqIsFunction
<1>2. \A t \in Waiting(c) : tasks[t].status = "WAITING_CONFIRMATION"
  BY DEF Waiting
<1>3. ASSUME NEW t \in 1..n PROVE Moved(s, t) => t \notin Waiting(c)
  BY <1>2 DEF Moved, Answers
<1>4. /\ T1 \in [1..n -> TaskRecs]
      /\ \A t \in 1..n : T1[t] = IF s.lane = "NEW_DRAFT" /\ t \in Waiting(c)
                                 THEN [tasks[t] EXCEPT !.status = "CANCELLED", !.draft = 0]
                                 ELSE tasks[t]
  BY <1>1 DEF DraftReplaced, TaskRecs, TerminalStatuses
<1> HIDE DEF T1
<1>5. /\ T2 \in [1..n -> TaskRecs]
      /\ \A t \in 1..n : T2[t] = IF Moved(s, t)
                                 THEN [T1[t] EXCEPT !.status = s.task,
                                         !.draft = IF s.task = "WAITING_CONFIRMATION" THEN d ELSE 0]
                                 ELSE T1[t]
  <2>1. DOMAIN T1 = 1..n
    BY <1>4
  <2>2. \A t \in 1..n : T2[t] = IF Moved(s, t)
                                 THEN [T1[t] EXCEPT !.status = s.task,
                                         !.draft = IF s.task = "WAITING_CONFIRMATION" THEN d ELSE 0]
                                 ELSE T1[t]
    BY <2>1 DEF TaskMoved, Moved
  <2>3. ASSUME NEW t \in 1..n PROVE T2[t] \in TaskRecs
    <3>1. CASE Moved(s, t)
      <4> DEFINE e == IF s.task = "WAITING_CONFIRMATION" THEN d ELSE 0
      <4>1. s.task \in TerminalStatuses \cup {"WAITING_CONFIRMATION", ""} /\ s.task # ""
        BY <3>1, SayFields DEF Moved
      <4>2. T1[t] \in TaskRecs /\ e \in Nat
        BY <1>4
      <4>3. T2[t] = Update(T1[t], s.task, e)
        BY <2>2, <3>1 DEF Update
      <4> HIDE DEF e, T2
      <4>4. s.task \in TerminalStatuses \cup {"WAITING_CONFIRMATION"}
        BY <4>1
      <4> QED BY <4>2, <4>3, <4>4, TaskUpdated
    <3>2. CASE ~Moved(s, t)
      BY <1>4, <2>2, <3>2
    <3> QED BY <3>1, <3>2
  <2>4. T2 = [t \in 1..n |-> T2[t]]
    BY <2>1 DEF TaskMoved
  <2> HIDE DEF T2
  <2> QED BY <2>2, <2>3, <2>4
<1> HIDE DEF T2
<1>6. /\ T3 \in [1..n -> TaskRecs]
      /\ \A t \in 1..n : T3[t] = IF s.lane = "AMENDED" /\ t \in Waiting(c)
                                 THEN [T2[t] EXCEPT !.draft = d] ELSE T2[t]
  BY <1>5 DEF Amended, TaskRecs
<1> HIDE DEF T3
<1>7. T = Created(T3, c, s, d)
  BY DEF Rewritten, T1, T2, T3
<1>8. T3 \in Seq(TaskRecs) /\ Len(T3) = n
  BY <1>1, <1>6, FunctionIsSeq
<1>9. /\ [ctx |-> c, status |-> "WAITING_CONFIRMATION", draft |-> d] \in TaskRecs
      /\ [ctx |-> c, status |-> "WAITING_CLARIFICATION", draft |-> 0] \in TaskRecs
  BY DEF TaskRecs
<1>10. ~(NeedsDraftTask(s) /\ NeedsQuestionTask(s))
  BY DEF NeedsDraftTask, NeedsQuestionTask, Coherent
<1>11. /\ T \in Seq(TaskRecs)
       /\ Len(T) = IF NeedsDraftTask(s) \/ NeedsQuestionTask(s) THEN n + 1 ELSE n
       /\ \A t \in 1..n : T[t] = T3[t]
       /\ NeedsDraftTask(s) =>
            T[n + 1] = [ctx |-> c, status |-> "WAITING_CONFIRMATION", draft |-> d]
       /\ NeedsQuestionTask(s) =>
            T[n + 1] = [ctx |-> c, status |-> "WAITING_CLARIFICATION", draft |-> 0]
  <2>1. CASE NeedsDraftTask(s)
    BY <1>1, <1>7, <1>8, <1>9, <1>10, <2>1, AppendProperties DEF Created
  <2>2. CASE ~NeedsDraftTask(s) /\ NeedsQuestionTask(s)
    BY <1>1, <1>7, <1>8, <1>9, <2>2, AppendProperties DEF Created
  <2>3. CASE ~NeedsDraftTask(s) /\ ~NeedsQuestionTask(s)
    BY <1>7, <1>8, <2>3 DEF Created
  <2> QED BY <2>1, <2>2, <2>3
<1>12. ASSUME NEW t \in 1..n
       PROVE  /\ T[t].ctx = tasks[t].ctx
              /\ t \in Waiting(c) /\ s.lane = "NEW_DRAFT" => T[t].status = "CANCELLED"
              /\ t \in Waiting(c) /\ s.lane # "NEW_DRAFT" =>
                   /\ T[t].status = "WAITING_CONFIRMATION"
                   /\ T[t].draft = IF s.lane = "AMENDED" THEN d ELSE tasks[t].draft
              /\ Moved(s, t) =>
                   /\ t \notin Waiting(c) /\ T[t].status = s.task
                   /\ s.task = "WAITING_CONFIRMATION" => T[t].draft = d
              /\ t \notin Waiting(c) /\ ~Moved(s, t) => T[t] = tasks[t]
  <2>1. tasks[t] \in TaskRecs /\ T1[t] \in TaskRecs /\ T2[t] \in TaskRecs /\ T[t] = T3[t]
    BY <1>1, <1>4, <1>5, <1>11
  <2>2. CASE t \in Waiting(c) /\ s.lane = "NEW_DRAFT"
    <3>1. ~Moved(s, t) /\ T3[t] = [tasks[t] EXCEPT !.status = "CANCELLED", !.draft = 0]
      BY <1>3, <1>4, <1>5, <1>6, <2>2
    <3> QED BY <2>1, <2>2, <3>1 DEF TaskRecs
  <2>3. CASE t \in Waiting(c) /\ s.lane # "NEW_DRAFT"
    <3>1. ~Moved(s, t) /\ T2[t] = tasks[t]
      BY <1>3, <1>4, <1>5, <2>3
    <3> QED BY <1>2, <1>6, <2>1, <2>3, <3>1 DEF TaskRecs
  <2>4. CASE t \notin Waiting(c) /\ Moved(s, t)
    <3>1. T3[t] = [tasks[t] EXCEPT !.status = s.task,
                                   !.draft = IF s.task = "WAITING_CONFIRMATION" THEN d ELSE 0]
      BY <1>4, <1>5, <1>6, <2>4
    <3> QED BY <2>1, <2>4, <3>1 DEF TaskRecs
  <2>5. CASE t \notin Waiting(c) /\ ~Moved(s, t)
    BY <1>4, <1>5, <1>6, <2>1, <2>5
  <2> QED BY <2>2, <2>3, <2>4, <2>5, <1>3
<1> QED BY <1>11, <1>12

\* The clarifications a commit leaves, before it retires those of retired tasks.
Answered(s) == [r \in DOMAIN rows |-> IF r = s.row THEN RowAfter(rows[r], s) ELSE rows[r]]
QuestionTask(s, m) == IF s.retry THEN rows[s.row].task ELSE m
Asked(c, s, m) ==
    IF s.ask = "" THEN Answered(s)
    ELSE Append(Answered(s), NewRow(c, s, QuestionTask(s, m), Len(log) + 1))

\* What a commit makes of the clarifications: the answered one is closed, the
\* new one is open, and the others stay.
RowsAre(c, s, m, A) ==
    /\ A \in Seq(RowRecs)
    /\ Len(A) = IF s.ask = "" THEN Len(rows) ELSE Len(rows) + 1
    /\ \A r \in 1..Len(rows) :
         /\ r # s.row => A[r] = rows[r]
         /\ A[r].ctx = rows[r].ctx /\ A[r].task = rows[r].task
         /\ A[r].attempt = rows[r].attempt /\ A[r].pred = rows[r].pred
         /\ A[r].asked = rows[r].asked /\ A[r].source = rows[r].source
    /\ s.row # 0 => A[s.row].status # "OPEN" /\ (A[s.row].status = "RESOLVED" => s.to = "RESOLVED")
    /\ s.ask # "" =>
         /\ A[Len(rows) + 1].ctx = c /\ A[Len(rows) + 1].status = "OPEN"
         /\ A[Len(rows) + 1].task = QuestionTask(s, m)
         /\ A[Len(rows) + 1].attempt = 1 => A[Len(rows) + 1].source = A[Len(rows) + 1].asked
         /\ A[Len(rows) + 1].attempt = 2 => A[Len(rows) + 1].pred \in DOMAIN rows

LEMMA RowsRewritten ==
    ASSUME Typed, NEW c \in Ctxs, NEW s \in SayRecs, Coherent(s), Answers(c, s),
           SecondOfFirst(s),
           NEW m \in Nat, NEW A, A = Asked(c, s, m)
    PROVE  RowsAre(c, s, m, A)
<1> DEFINE n == Len(rows)
           O == Answered(s)
           w == NewRow(c, s, QuestionTask(s, m), Len(log) + 1)
<1>1. n \in Nat /\ DOMAIN rows = 1..n /\ rows \in [1..n -> RowRecs] /\ Len(log) \in Nat
  BY SeqIsFunction
<1>9. Len(log) + 1 \in Nat /\ 1 + 1 = 2 /\ 2 # 1
  BY <1>1
<1>0. s.row \in Nat /\ s.to \in Outcomes \cup {""} /\ s.retry \in BOOLEAN /\ s.ask \in Questions \cup {""}
  BY SayFields
<1>2. ASSUME NEW r \in 1..n, r = s.row
      PROVE  /\ O[r] \in RowRecs /\ O[r].status # "OPEN" /\ (O[r].status = "RESOLVED" => s.to = "RESOLVED")
             /\ O[r].ctx = rows[r].ctx /\ O[r].task = rows[r].task
             /\ O[r].attempt = rows[r].attempt /\ O[r].pred = rows[r].pred
             /\ O[r].asked = rows[r].asked /\ O[r].source = rows[r].source
  <2>1. s.to \in Outcomes
    <3>1. s.row # 0
      <4>1. r # 0
        BY <1>1
      <4> QED BY <1>2, <4>1
    <3> QED BY <1>0, <3>1 DEF Coherent
  <2>2. rows[r] \in RowRecs /\ O[r] = RowAfter(rows[r], s)
    BY <1>1, <1>2 DEF Answered
  <2> HIDE DEF O
  <2>3. O[r] = [rows[r] EXCEPT
                  !.status = IF s.to \in {"UNCLEAR", "NEW_TASK"} THEN "SUPERSEDED" ELSE s.to,
                  !.why = s.to]
    BY <2>2 DEF RowAfter
  <2>4. (IF s.to \in {"UNCLEAR", "NEW_TASK"} THEN "SUPERSEDED" ELSE s.to)
          \in {"RESOLVED", "SUPERSEDED", "EXPIRED"}
    BY <2>1 DEF Outcomes
  <2>5. O[r] \in RowRecs
    BY <2>1, <2>2, <2>3, <2>4 DEF RowRecs
  <2>6. /\ O[r].status = IF s.to \in {"UNCLEAR", "NEW_TASK"} THEN "SUPERSEDED" ELSE s.to
        /\ O[r].ctx = rows[r].ctx /\ O[r].task = rows[r].task
        /\ O[r].attempt = rows[r].attempt /\ O[r].pred = rows[r].pred
        /\ O[r].asked = rows[r].asked /\ O[r].source = rows[r].source
    BY <2>2, <2>3 DEF RowRecs
  <2> QED BY <2>4, <2>5, <2>6
<1>3. \A r \in 1..n : r # s.row => O[r] = rows[r]
  BY <1>1 DEF Answered
<1>4. O \in [1..n -> RowRecs]
  <2>1. O = [r \in 1..n |-> O[r]] /\ \A r \in 1..n : O[r] \in RowRecs
    <3>1. \A r \in 1..n : O[r] \in RowRecs
      BY <1>1, <1>2, <1>3
    <3>2. O = [r \in 1..n |-> O[r]]
      BY <1>1 DEF Answered
    <3> QED BY <3>1, <3>2
  <2> HIDE DEF O
  <2> QED BY <2>1
<1>5. O \in Seq(RowRecs) /\ Len(O) = n
  BY <1>1, <1>4, FunctionIsSeq
<1>6. s.ask # "" =>
        /\ w \in RowRecs /\ w.ctx = c /\ w.status = "OPEN" /\ w.task = QuestionTask(s, m)
        /\ w.attempt = 1 => w.source = w.asked
        /\ w.attempt = 2 => w.pred \in DOMAIN rows
  <2> SUFFICES ASSUME s.ask # ""
               PROVE  /\ w \in RowRecs /\ w.ctx = c /\ w.status = "OPEN"
                      /\ w.task = QuestionTask(s, m)
                      /\ w.attempt = 1 => w.source = w.asked
                      /\ w.attempt = 2 => w.pred \in DOMAIN rows
    OBVIOUS
  <2>1. s.ask \in Questions
    BY <1>0
  <2>2. CASE s.retry
    <3>1. s.row # 0 /\ s.row \in 1..n /\ rows[s.row] \in RowRecs
      BY <1>1, <2>2 DEF Coherent, Answers
    <3>2. rows[s.row].task \in Nat /\ rows[s.row].source \in Nat
      BY <3>1, RowFields
    <3>3. rows[s.row].attempt + 1 = 2
      <4>1. rows[s.row].attempt = 1
        BY <2>2 DEF SecondOfFirst
      <4> QED BY <1>9, <4>1, Zenon
    <3>4. w = [ctx |-> c, task |-> rows[s.row].task, kind |-> s.ask, status |-> "OPEN", why |-> "",
               late |-> FALSE, asked |-> Len(log) + 1, attempt |-> 2, pred |-> s.row,
               source |-> rows[s.row].source]
      BY <2>2, <3>3 DEF NewRow, QuestionTask
    <3> HIDE DEF w
    <3>5. w \in RowRecs
      BY <1>0, <1>9, <2>1, <3>2, <3>4 DEF RowRecs
    <3>6. w.ctx = c /\ w.status = "OPEN" /\ w.attempt = 2 /\ w.pred = s.row
          /\ w.task = rows[s.row].task
      BY <3>4
    <3>7. w.task = QuestionTask(s, m) /\ w.attempt # 1
      BY <1>9, <2>2, <3>6 DEF QuestionTask
    <3> QED BY <1>1, <3>1, <3>5, <3>6, <3>7, Zenon
  <2>3. CASE ~s.retry
    <3>1. w = [ctx |-> c, task |-> m, kind |-> s.ask, status |-> "OPEN", why |-> "",
               late |-> FALSE, asked |-> Len(log) + 1, attempt |-> 1, pred |-> 0,
               source |-> Len(log) + 1]
      BY <2>3 DEF NewRow, QuestionTask
    <3> HIDE DEF w
    <3>2. w \in RowRecs
      BY <1>9, <2>1, <3>1 DEF RowRecs
    <3>3. w.ctx = c /\ w.status = "OPEN" /\ w.attempt = 1 /\ w.source = w.asked /\ w.task = m
      BY <3>1
    <3>4. w.task = QuestionTask(s, m) /\ w.attempt # 2
      BY <1>9, <2>3, <3>3 DEF QuestionTask
    <3> QED BY <3>2, <3>3, <3>4, Zenon
  <2> QED BY <2>2, <2>3
<1> HIDE DEF w
<1>7. /\ A \in Seq(RowRecs)
      /\ Len(A) = IF s.ask = "" THEN n ELSE n + 1
      /\ \A r \in 1..n : A[r] = O[r]
      /\ s.ask # "" => A[n + 1] = w
  <2> HIDE DEF O
  <2>1. A = IF s.ask = "" THEN O ELSE Append(O, w)
    BY DEF Asked, O, w
  <2>2. CASE s.ask = ""
    BY <1>5, <2>1, <2>2
  <2>3. CASE s.ask # ""
    <3>1. /\ Append(O, w) \in Seq(RowRecs) /\ Len(Append(O, w)) = n + 1
          /\ \A r \in 1..n : Append(O, w)[r] = O[r]
          /\ Append(O, w)[n + 1] = w
      <4>1. w \in RowRecs
        BY <1>6, <2>3
      <4> QED BY <1>5, <4>1, AppendProperties
    <3> QED BY <2>1, <2>3, <3>1
  <2> QED BY <2>2, <2>3
<1>8. s.row # 0 => s.row \in 1..n
  BY <1>1 DEF Answers
<1> HIDE DEF O
<1>10. s.row # 0 => A[s.row].status # "OPEN" /\ (A[s.row].status = "RESOLVED" => s.to = "RESOLVED")
  BY <1>2, <1>7, <1>8, Zenon
<1>11. ASSUME NEW r \in 1..n
       PROVE  /\ r # s.row => A[r] = rows[r]
              /\ A[r].ctx = rows[r].ctx /\ A[r].task = rows[r].task
              /\ A[r].attempt = rows[r].attempt /\ A[r].pred = rows[r].pred
              /\ A[r].asked = rows[r].asked /\ A[r].source = rows[r].source
  <2>1. CASE r = s.row
    BY <1>2, <1>7, <2>1, Zenon
  <2>2. CASE r # s.row
    BY <1>3, <1>7, <2>2, Zenon
  <2> QED BY <2>1, <2>2
<1> QED BY <1>6, <1>7, <1>10, <1>11, Zenon DEF RowsAre

\* Retirement marks terminal tasks and the clarifications of theirs.
RetiredTasks(T, R) == [t \in DOMAIN T |-> IF t \in R THEN [T[t] EXCEPT !.status = "DELETED"] ELSE T[t]]
RetiredRows(A, R) ==
    [r \in DOMAIN A |-> IF A[r].task \in R THEN [A[r] EXCEPT !.status = "DELETED"] ELSE A[r]]

LEMMA TasksRetired ==
    ASSUME NEW c, NEW T \in Seq(TaskRecs), NEW R \in SUBSET Terminal(T, c),
           tasks' = RetiredTasks(T, R)
    PROVE  /\ tasks' \in Seq(TaskRecs) /\ Len(tasks') = Len(T) /\ DOMAIN tasks' = 1..Len(T)
           /\ \A t \in 1..Len(T) :
                /\ tasks'[t].ctx = T[t].ctx /\ tasks'[t].draft = T[t].draft
                /\ tasks'[t].status = IF t \in R THEN "DELETED" ELSE T[t].status
                /\ t \in R => T[t].ctx = c /\ T[t].status \in TerminalStatuses
<1>1. Len(T) \in Nat /\ DOMAIN T = 1..Len(T) /\ T \in [1..Len(T) -> TaskRecs]
  BY LenProperties
<1>2. tasks' \in [1..Len(T) -> TaskRecs]
  BY <1>1 DEF TaskRecs, RetiredTasks
<1>3. tasks' \in Seq(TaskRecs) /\ Len(tasks') = Len(T) /\ DOMAIN tasks' = 1..Len(T)
  BY <1>1, <1>2, FunctionIsSeq
<1>4. ASSUME NEW t \in 1..Len(T)
      PROVE  /\ tasks'[t].ctx = T[t].ctx /\ tasks'[t].draft = T[t].draft
             /\ tasks'[t].status = IF t \in R THEN "DELETED" ELSE T[t].status
             /\ t \in R => T[t].ctx = c /\ T[t].status \in TerminalStatuses
  <2>1. T[t] \in TaskRecs
    BY <1>1
  <2>2. t \in R => T[t].ctx = c /\ T[t].status \in TerminalStatuses
    BY DEF Terminal
  <2>3. CASE t \in R
    <3>1. tasks'[t] = [T[t] EXCEPT !.status = "DELETED"]
      BY <1>1, <2>3 DEF RetiredTasks
    <3> QED BY <2>1, <2>2, <2>3, <3>1 DEF TaskRecs
  <2>4. CASE t \notin R
    BY <1>1, <2>4 DEF RetiredTasks
  <2> QED BY <2>3, <2>4
<1> QED BY <1>3, <1>4

Dropped(w) == [w EXCEPT !.status = "DELETED"]

LEMMA RowDropped ==
    ASSUME NEW w \in RowRecs
    PROVE  /\ Dropped(w) \in RowRecs /\ Dropped(w).status = "DELETED"
           /\ Dropped(w).ctx = w.ctx /\ Dropped(w).task = w.task
           /\ Dropped(w).attempt = w.attempt /\ Dropped(w).pred = w.pred
           /\ Dropped(w).asked = w.asked /\ Dropped(w).source = w.source
  BY DEF RowRecs, Dropped

LEMMA RowsRetired ==
    ASSUME NEW A \in Seq(RowRecs), NEW R,
           rows' = RetiredRows(A, R)
    PROVE  /\ rows' \in Seq(RowRecs) /\ Len(rows') = Len(A) /\ DOMAIN rows' = 1..Len(A)
           /\ \A r \in 1..Len(A) :
                /\ rows'[r].ctx = A[r].ctx /\ rows'[r].task = A[r].task
                /\ rows'[r].attempt = A[r].attempt /\ rows'[r].pred = A[r].pred
                /\ rows'[r].asked = A[r].asked /\ rows'[r].source = A[r].source
                /\ rows'[r].status = IF A[r].task \in R THEN "DELETED" ELSE A[r].status
<1>1. Len(A) \in Nat /\ DOMAIN A = 1..Len(A) /\ A \in [1..Len(A) -> RowRecs]
  BY LenProperties
<1>2. rows' \in [1..Len(A) -> RowRecs]
  <2>1. rows' = [r \in 1..Len(A) |-> IF A[r].task \in R THEN Dropped(A[r]) ELSE A[r]]
    BY <1>1 DEF Dropped, RetiredRows
  <2>2. \A r \in 1..Len(A) : A[r] \in RowRecs /\ Dropped(A[r]) \in RowRecs
    BY <1>1, RowDropped
  <2> QED BY <2>1, <2>2
<1>3. rows' \in Seq(RowRecs) /\ Len(rows') = Len(A) /\ DOMAIN rows' = 1..Len(A)
  BY <1>1, <1>2, FunctionIsSeq
<1>4. ASSUME NEW r \in 1..Len(A)
      PROVE  /\ rows'[r].ctx = A[r].ctx /\ rows'[r].task = A[r].task
             /\ rows'[r].attempt = A[r].attempt /\ rows'[r].pred = A[r].pred
             /\ rows'[r].asked = A[r].asked /\ rows'[r].source = A[r].source
             /\ rows'[r].status = IF A[r].task \in R THEN "DELETED" ELSE A[r].status
  <2>1. A[r] \in RowRecs
    BY <1>1
  <2>2. CASE A[r].task \in R
    <3>1. rows'[r] = Dropped(A[r])
      BY <1>1, <2>2 DEF Dropped, RetiredRows
    <3> QED BY <2>1, <2>2, <3>1, RowDropped
  <2>3. CASE A[r].task \notin R
    BY <1>1, <2>3 DEF RetiredRows
  <2> QED BY <2>2, <2>3
<1> QED BY <1>3, <1>4

\* A commit taken apart: whose turn it is, what it staged, the tasks T and the
\* clarifications A it writes, and the tasks R it retires.
CommitsAs(h, c, s, d, T, A, R) ==
    /\ c = turn[h].ctx /\ s = turn[h].say /\ Coherent(s) /\ Answers(c, s) /\ SecondOfFirst(s)
    /\ s.row # 0 => asking[c] = s.row
    /\ s.row = 0 /\ s.ask # "" => asking[c] = 0
    /\ s.lane = "NONE" => d = draft[c]
    /\ s.lane # "NONE" => d = Len(log) + 1
    /\ s.lane = "AMENDED" => draft[c] # 0
    /\ T = Rewritten(c, s, d) /\ A = Asked(c, s, Len(T)) /\ R \in SUBSET Terminal(T, c)
    /\ tasks' = RetiredTasks(T, R)
    /\ rows' = RetiredRows(A, R)
    /\ asking' = [asking EXCEPT ![c] = IF s.ask # "" THEN Len(A) ELSE IF s.row # 0 THEN 0 ELSE @]
    /\ draft' = [draft EXCEPT ![c] = d]

LEMMA CommitParts ==
    ASSUME IInv, NEW h \in Handlers, Commit(h)
    PROVE  \E c \in Ctxs, s \in SayRecs, d \in Nat, T \in Seq(TaskRecs), A \in Seq(RowRecs) :
             \E R : CommitsAs(h, c, s, d, T, A, R)
<1> DEFINE c == turn[h].ctx
           s == turn[h].say
           d == IF s.lane = "NONE" THEN turn[h].draft ELSE Len(log) + 1
           T == Rewritten(c, s, d)
           A == Asked(c, s, Len(T))
<1>1. c \in Ctxs /\ s \in SayRecs /\ turn[h].draft \in Nat /\ Len(log) \in Nat
  BY SeqIsFunction DEF IInv, Typed, TurnRecs, Commit
<1>2. d \in Nat
  BY <1>1
<1>3. Unchanged(c, s) /\ Revalidated(h) /\ c # None
  BY DEF Commit
<1>4. /\ Coherent(s) /\ SecondOfFirst(s)
      /\ turn[h].draft = draft[c] /\ (s.lane = "AMENDED" => draft[c] # 0)
  BY <1>3 DEF IInv, TurnsSound, Revalidated
<1>5. (s.lane = "NONE" => d = draft[c]) /\ (s.lane # "NONE" => d = Len(log) + 1)
  BY <1>4
<1>6. \E R \in Retirable(T, c, s) :
        /\ tasks' = RetiredTasks(T, R)
        /\ rows' = RetiredRows(A, R)
  BY DEF Commit, Rewritten, Asked, Answered, QuestionTask, RetiredTasks, RetiredRows
<1>7. /\ asking' = [asking EXCEPT ![c] = IF s.ask # "" THEN Len(A)
                                         ELSE IF s.row # 0 THEN 0 ELSE @]
      /\ draft' = [draft EXCEPT ![c] = d]
  BY DEF Commit, Rewritten, Asked, Answered, QuestionTask
<1>8. /\ Answers(c, s)
      /\ s.row # 0 => asking[c] = s.row
      /\ s.row = 0 /\ s.ask # "" => asking[c] = 0
  BY <1>1, <1>3, UnchangedAnswers
<1> HIDE DEF c, s, d, T, A
<1>9. T \in Seq(TaskRecs)
  BY <1>1, <1>2, <1>4, <1>8, TasksRewritten DEF IInv, T
<1>14. Len(T) \in Nat
  BY <1>9, LenProperties
<1>10. A \in Seq(RowRecs)
  BY <1>1, <1>4, <1>8, <1>14, RowsRewritten DEF IInv, A, RowsAre
<1>11. PICK R \in Retirable(T, c, s) :
         /\ tasks' = RetiredTasks(T, R)
         /\ rows' = RetiredRows(A, R)
  BY <1>6
<1>12. R \in SUBSET Terminal(T, c)
  BY DEF Retirable
<1>13. c = turn[h].ctx /\ s = turn[h].say /\ T = Rewritten(c, s, d) /\ A = Asked(c, s, Len(T))
  BY DEF c, s, T, A
<1>15. CommitsAs(h, c, s, d, T, A, R)
  BY <1>4, <1>5, <1>7, <1>8, <1>11, <1>12, <1>13 DEF CommitsAs
<1> QED BY <1>1, <1>2, <1>9, <1>10, <1>15, Zenon

\* The waiting tasks of a context among the tasks T.
Awaiting(T, x) == {t \in 1..Len(T) : T[t].ctx = x /\ T[t].status = "WAITING_CLARIFICATION"}
Confirming(T, x) == {t \in 1..Len(T) : T[t].ctx = x /\ T[t].status = "WAITING_CONFIRMATION"}

\* The answered task no longer waits for an answer, that of a new question does;
\* and the same for the clarifications.
AwaitingAfter(c, s, T) ==
    {t \in WaitingAnswer(c) : ~Moved(s, t)} \cup (IF NeedsQuestionTask(s) THEN {Len(T)} ELSE {})
OpenAfter(c, s, A) == {r \in Open(c) : r # s.row} \cup (IF s.ask # "" THEN {Len(A)} ELSE {})

AwaitingIs(c, s, d, T, x) ==
    /\ x # c => Awaiting(T, x) = WaitingAnswer(x)
    /\ Awaiting(T, c) = AwaitingAfter(c, s, T)

LEMMA AwaitingRewritten ==
    ASSUME Typed, NEW c \in Ctxs, NEW s \in SayRecs, NEW d \in Nat, Coherent(s), Answers(c, s),
           NEW T, T = Rewritten(c, s, d), NEW x \in Ctxs
    PROVE  AwaitingIs(c, s, d, T, x)
<1> DEFINE n == Len(tasks)
<1>1. n \in Nat /\ DOMAIN tasks = 1..n
  BY SeqIsFunction
<1>2. /\ Len(T) = IF NeedsDraftTask(s) \/ NeedsQuestionTask(s) THEN n + 1 ELSE n
      /\ \A t \in 1..n :
           /\ T[t].ctx = tasks[t].ctx
           /\ t \in Waiting(c) /\ s.lane = "NEW_DRAFT" => T[t].status = "CANCELLED"
           /\ t \in Waiting(c) /\ s.lane # "NEW_DRAFT" =>
                /\ T[t].status = "WAITING_CONFIRMATION"
                /\ T[t].draft = IF s.lane = "AMENDED" THEN d ELSE tasks[t].draft
           /\ Moved(s, t) =>
                /\ t \notin Waiting(c) /\ T[t].status = s.task
                /\ s.task = "WAITING_CONFIRMATION" => T[t].draft = d
           /\ t \notin Waiting(c) /\ ~Moved(s, t) => T[t] = tasks[t]
      /\ NeedsDraftTask(s) =>
           T[n + 1].ctx = c /\ T[n + 1].status = "WAITING_CONFIRMATION" /\ T[n + 1].draft = d
      /\ NeedsQuestionTask(s) => T[n + 1].ctx = c /\ T[n + 1].status = "WAITING_CLARIFICATION"
  BY TasksRewritten
<1>3. \A t \in 1..n : Moved(s, t) => tasks[t].ctx = c /\ s.task # "WAITING_CLARIFICATION"
  BY SayFields DEF Moved, Answers, TerminalStatuses
<1>4. ~(NeedsDraftTask(s) /\ NeedsQuestionTask(s))
  BY DEF NeedsDraftTask, NeedsQuestionTask, Coherent
<1>5. \A t \in Waiting(c) : tasks[t].status = "WAITING_CONFIRMATION" /\ tasks[t].ctx = c
  BY DEF Waiting
<1>6. \A t \in 1..n :
        T[t].status = "WAITING_CLARIFICATION" <=>
          tasks[t].status = "WAITING_CLARIFICATION" /\ ~Moved(s, t)
  <2>1. \A t \in Waiting(c) \cap (1..n) : T[t].status \in {"CANCELLED", "WAITING_CONFIRMATION"}
    BY <1>2
  <2> QED BY <1>2, <1>3, <1>5, <2>1
<1>7. Len(T) \in {n, n + 1} /\ (Len(T) = n + 1 <=> NeedsDraftTask(s) \/ NeedsQuestionTask(s))
  BY <1>1, <1>2
<1>10. n + 1 \in 1..(n + 1)
  BY <1>1
<1>8. ASSUME x # c PROVE Awaiting(T, x) = WaitingAnswer(x)
  <2>1. ASSUME NEW t \in Awaiting(T, x) PROVE t \in WaitingAnswer(x)
    <3>1. t \in 1..Len(T) /\ T[t].ctx = x /\ T[t].status = "WAITING_CLARIFICATION"
      BY DEF Awaiting
    <3>2. t # n + 1
      BY <1>2, <1>7, <1>8, <3>1
    <3>3. t \in 1..n
      BY <1>1, <1>7, <3>1, <3>2
    <3> QED BY <1>1, <1>2, <1>6, <3>1, <3>3 DEF WaitingAnswer
  <2>2. ASSUME NEW t \in WaitingAnswer(x) PROVE t \in Awaiting(T, x)
    <3>1. t \in 1..n /\ tasks[t].ctx = x /\ tasks[t].status = "WAITING_CLARIFICATION"
      BY <1>1 DEF WaitingAnswer
    <3>2. ~Moved(s, t)
      BY <1>3, <1>8, <3>1
    <3>3. t \in 1..Len(T)
      BY <1>1, <1>7, <3>1
    <3> QED BY <1>2, <1>6, <3>1, <3>2, <3>3 DEF Awaiting
  <2> QED BY <2>1, <2>2
<1>9. Awaiting(T, c) = AwaitingAfter(c, s, T)
  <2>1. ASSUME NEW t \in Awaiting(T, c)
        PROVE  \/ t \in WaitingAnswer(c) /\ ~Moved(s, t)
               \/ NeedsQuestionTask(s) /\ t = Len(T)
    <3>1. t \in 1..Len(T) /\ T[t].ctx = c /\ T[t].status = "WAITING_CLARIFICATION"
      BY DEF Awaiting
    <3>2. CASE t \in 1..n
      BY <1>1, <1>2, <1>6, <3>1, <3>2 DEF WaitingAnswer
    <3>3. CASE t \notin 1..n
      <4>1. t = n + 1 /\ Len(T) = n + 1
        BY <1>1, <1>7, <3>1, <3>3
      <4> QED BY <1>2, <1>7, <3>1, <4>1
    <3> QED BY <3>2, <3>3
  <2>2. ASSUME NEW t \in WaitingAnswer(c), ~Moved(s, t) PROVE t \in Awaiting(T, c)
    <3>1. t \in 1..n /\ tasks[t].ctx = c /\ tasks[t].status = "WAITING_CLARIFICATION"
      BY <1>1 DEF WaitingAnswer
    <3>2. t \in 1..Len(T)
      BY <1>1, <1>7, <3>1
    <3> QED BY <1>2, <1>6, <2>2, <3>1, <3>2 DEF Awaiting
  <2>3. NeedsQuestionTask(s) => Len(T) \in Awaiting(T, c)
    <3> SUFFICES ASSUME NeedsQuestionTask(s) PROVE Len(T) \in Awaiting(T, c)
      OBVIOUS
    <3>1. Len(T) = n + 1
      BY <1>7, Zenon
    <3>2. Len(T) \in 1..Len(T)
      BY <1>10, <3>1, Zenon
    <3> QED BY <1>2, <3>1, <3>2, Zenon DEF Awaiting
  <2> QED BY <2>1, <2>2, <2>3 DEF AwaitingAfter
<1> QED BY <1>8, <1>9 DEF AwaitingIs

LEMMA ConfirmingRewritten ==
    ASSUME Typed, NEW c \in Ctxs, NEW s \in SayRecs, NEW d \in Nat, Coherent(s), Answers(c, s),
           NEW T, T = Rewritten(c, s, d), NEW x \in Ctxs
    PROVE  /\ x # c => /\ Confirming(T, x) = Waiting(x)
                       /\ \A t \in Waiting(x) : T[t].draft = tasks[t].draft
           /\ s.lane = "NONE" => /\ Confirming(T, c) = Waiting(c)
                                 /\ \A t \in Waiting(c) : T[t].draft = tasks[t].draft
           /\ s.lane = "AMENDED" => /\ Confirming(T, c) = Waiting(c)
                                    /\ \A t \in Waiting(c) : T[t].draft = d
           /\ s.lane = "NEW_DRAFT" => \E t \in 1..Len(T) : Confirming(T, c) = {t} /\ T[t].draft = d
<1> DEFINE n == Len(tasks)
<1>1. n \in Nat /\ DOMAIN tasks = 1..n
  BY SeqIsFunction
<1>2. /\ Len(T) = IF NeedsDraftTask(s) \/ NeedsQuestionTask(s) THEN n + 1 ELSE n
      /\ \A t \in 1..n :
           /\ T[t].ctx = tasks[t].ctx
           /\ t \in Waiting(c) /\ s.lane = "NEW_DRAFT" => T[t].status = "CANCELLED"
           /\ t \in Waiting(c) /\ s.lane # "NEW_DRAFT" =>
                /\ T[t].status = "WAITING_CONFIRMATION"
                /\ T[t].draft = IF s.lane = "AMENDED" THEN d ELSE tasks[t].draft
           /\ Moved(s, t) =>
                /\ t \notin Waiting(c) /\ T[t].status = s.task
                /\ s.task = "WAITING_CONFIRMATION" => T[t].draft = d
           /\ t \notin Waiting(c) /\ ~Moved(s, t) => T[t] = tasks[t]
      /\ NeedsDraftTask(s) =>
           T[n + 1].ctx = c /\ T[n + 1].status = "WAITING_CONFIRMATION" /\ T[n + 1].draft = d
      /\ NeedsQuestionTask(s) => T[n + 1].ctx = c /\ T[n + 1].status = "WAITING_CLARIFICATION"
  BY TasksRewritten
<1>3. \A t \in 1..n : Moved(s, t) => tasks[t].ctx = c
  BY DEF Moved, Answers
<1>4. ~(NeedsDraftTask(s) /\ NeedsQuestionTask(s))
  BY DEF NeedsDraftTask, NeedsQuestionTask, Coherent
<1>5. \A t : t \in Waiting(c) <=>
               t \in 1..n /\ tasks[t].status = "WAITING_CONFIRMATION" /\ tasks[t].ctx = c
  BY <1>1 DEF Waiting
<1>6. Len(T) \in {n, n + 1} /\ (Len(T) = n + 1 <=> NeedsDraftTask(s) \/ NeedsQuestionTask(s))
  BY <1>1, <1>2
<1>7. \A t : t \in Confirming(T, c) <=>
               t \in 1..Len(T) /\ T[t].status = "WAITING_CONFIRMATION" /\ T[t].ctx = c
  BY DEF Confirming
<1>8. \A t \in 1..Len(T) : t \in 1..n \/ (t = n + 1 /\ Len(T) = n + 1)
  BY <1>1, <1>6
<1>9. \A t \in 1..n : t \in 1..Len(T)
  BY <1>1, <1>6
<1>10. s.lane # "NEW_DRAFT" => s.task # "WAITING_CONFIRMATION" /\ ~NeedsDraftTask(s)
  BY DEF Coherent, NeedsDraftTask
<1>11. ASSUME x # c
       PROVE  /\ Confirming(T, x) = Waiting(x)
              /\ \A t \in Waiting(x) : T[t].draft = tasks[t].draft
  <2>1. \A t : t \in Waiting(x) <=>
               t \in 1..n /\ tasks[t].status = "WAITING_CONFIRMATION" /\ tasks[t].ctx = x
    BY <1>1 DEF Waiting
  <2>2. \A t \in 1..n : tasks[t].ctx = x => T[t] = tasks[t]
    BY <1>2, <1>3, <1>5, <1>11
  <2>3. \A t \in 1..Len(T) : T[t].ctx = x => t \in 1..n
    BY <1>2, <1>6, <1>8, <1>11
  <2>4. \A t : t \in Confirming(T, x) <=>
               t \in 1..Len(T) /\ T[t].status = "WAITING_CONFIRMATION" /\ T[t].ctx = x
    BY DEF Confirming
  <2>5. \A t : t \in Confirming(T, x) <=> t \in Waiting(x)
    BY <1>2, <1>9, <2>1, <2>2, <2>3, <2>4
  <2> QED BY <2>1, <2>2, <2>5
<1>12. ASSUME s.lane # "NEW_DRAFT" PROVE Confirming(T, c) = Waiting(c)
  <2>1. \A t \in 1..n : T[t].status = "WAITING_CONFIRMATION" /\ T[t].ctx = c <=> t \in Waiting(c)
    BY <1>2, <1>5, <1>10, <1>12
  <2>2. \A t \in 1..Len(T) : t \notin 1..n => T[t].status = "WAITING_CLARIFICATION"
    BY <1>2, <1>6, <1>8, <1>10, <1>12
  <2>3. \A t : t \in Confirming(T, c) <=> t \in Waiting(c)
    BY <1>5, <1>7, <1>9, <2>1, <2>2
  <2> QED BY <2>3
<1>13. ASSUME s.lane = "NEW_DRAFT"
       PROVE  \E t \in 1..Len(T) : Confirming(T, c) = {t} /\ T[t].draft = d
  <2>1. ~NeedsQuestionTask(s)
    BY <1>13 DEF NeedsQuestionTask, Coherent
  <2>2. \A t \in 1..n : T[t].status = "WAITING_CONFIRMATION" /\ T[t].ctx = c => Moved(s, t)
    BY <1>2, <1>5, <1>13
  <2>3. CASE s.task = "WAITING_CONFIRMATION"
    <3>1. s.row # 0 /\ s.task # ""
      BY <2>3 DEF Coherent
    <3>2. rows[s.row].task \in 1..n /\ Moved(s, rows[s.row].task)
      BY <1>1, <3>1 DEF Moved, Answers
    <3>3. \A t \in 1..n : Moved(s, t) => t = rows[s.row].task
      BY DEF Moved
    <3>4. Len(T) = n
      BY <1>6, <2>1, <2>3 DEF NeedsDraftTask
    <3>5. Confirming(T, c) = {rows[s.row].task} /\ T[rows[s.row].task].draft = d
      BY <1>2, <1>3, <1>7, <2>2, <2>3, <3>2, <3>3, <3>4
    <3> QED BY <3>2, <3>4, <3>5
  <2>4. CASE s.task # "WAITING_CONFIRMATION"
    <3>1. NeedsDraftTask(s) /\ Len(T) = n + 1 /\ n + 1 \in 1..Len(T)
      BY <1>1, <1>6, <1>13, <2>4 DEF NeedsDraftTask
    <3>2. \A t \in 1..n : ~(T[t].status = "WAITING_CONFIRMATION" /\ T[t].ctx = c)
      BY <1>2, <2>2, <2>4
    <3>3. \A t : t \in Confirming(T, c) <=> t = n + 1
      BY <1>2, <1>7, <1>8, <3>1, <3>2
    <3> QED BY <1>2, <3>1, <3>3
  <2> QED BY <2>3, <2>4
<1>14. s.lane # "NEW_DRAFT" =>
         \A t \in Waiting(c) : T[t].draft = IF s.lane = "AMENDED" THEN d ELSE tasks[t].draft
  BY <1>2, <1>5
<1> QED BY <1>11, <1>12, <1>13, <1>14

\* What a commit does to the open question of every context.
LEMMA OpenRewritten ==
    ASSUME IInv, NEW h \in Handlers, NEW c \in Ctxs, NEW s \in SayRecs, NEW d \in Nat,
           NEW T \in Seq(TaskRecs), NEW A \in Seq(RowRecs), NEW R, CommitsAs(h, c, s, d, T, A, R),
           NEW x \in Ctxs
    PROVE  /\ x # c => Open(x)' = Open(x)
           /\ Open(c)' = OpenAfter(c, s, A)
           /\ \A r \in DOMAIN rows : r \in DOMAIN rows' /\ rows'[r].task = rows[r].task
           /\ s.ask # "" => Len(A) # 0 /\ rows'[Len(A)].task = QuestionTask(s, Len(T))
<1> DEFINE n == Len(rows)
<1>1. /\ n \in Nat /\ DOMAIN rows = 1..n /\ Len(tasks) \in Nat /\ DOMAIN tasks = 1..Len(tasks)
      /\ Len(T) \in Nat /\ Len(A) \in Nat /\ n + 1 \in 1..(n + 1)
  BY SeqIsFunction, LenProperties DEF IInv
<1>2. /\ Typed /\ Coherent(s) /\ Answers(c, s) /\ SecondOfFirst(s) /\ R \in SUBSET Terminal(T, c)
      /\ T = Rewritten(c, s, d) /\ A = Asked(c, s, Len(T)) /\ (s.row # 0 => asking[c] = s.row)
      /\ rows' = RetiredRows(A, R)
  BY DEF CommitsAs, IInv
<1>3. /\ Len(A) = IF s.ask = "" THEN n ELSE n + 1
      /\ \A r \in 1..n :
           /\ r # s.row => A[r] = rows[r]
           /\ A[r].ctx = rows[r].ctx /\ A[r].task = rows[r].task
      /\ s.row # 0 => A[s.row].status # "OPEN"
      /\ s.ask # "" => A[n + 1].ctx = c /\ A[n + 1].status = "OPEN"
                       /\ A[n + 1].task = QuestionTask(s, Len(T))
  <2>1. RowsAre(c, s, Len(T), A)
    BY <1>1, <1>2, RowsRewritten, Zenon
  <2> QED BY <2>1, Zenon DEF RowsAre
<1>4. /\ DOMAIN rows' = 1..Len(A)
      /\ \A r \in 1..Len(A) :
           /\ rows'[r].ctx = A[r].ctx /\ rows'[r].task = A[r].task
           /\ rows'[r].status = IF A[r].task \in R THEN "DELETED" ELSE A[r].status
  BY <1>2, RowsRetired
<1>5. /\ Len(T) = IF NeedsDraftTask(s) \/ NeedsQuestionTask(s) THEN Len(tasks) + 1 ELSE Len(tasks)
      /\ \A t \in 1..Len(tasks) :
           /\ T[t].ctx = tasks[t].ctx
           /\ t \notin Waiting(c) /\ ~Moved(s, t) => T[t] = tasks[t]
      /\ NeedsQuestionTask(s) => T[Len(tasks) + 1].status = "WAITING_CLARIFICATION"
  BY <1>2, TasksRewritten DEF IInv
<1>6. \A t \in R : T[t].ctx = c /\ T[t].status # "WAITING_CLARIFICATION"
  BY <1>2 DEF Terminal, TerminalStatuses
<1>7. ASSUME NEW t \in 1..Len(tasks), tasks[t].status = "WAITING_CLARIFICATION", ~Moved(s, t)
      PROVE  t \notin R
  BY <1>5, <1>6, <1>7 DEF Waiting
<1>18. Len(A) = n \/ Len(A) = n + 1
  BY <1>3, Zenon
<1>8. \A r \in 1..n : r \in 1..Len(A)
  BY <1>1, <1>18
<1>9. \A r \in 1..Len(A) : r \in 1..n \/ (r = n + 1 /\ s.ask # "")
  <2>1. CASE s.ask = ""
    BY <1>3, <2>1, Zenon
  <2>2. CASE s.ask # ""
    <3>1. \A r \in 1..Len(A) : r \in 1..n \/ r = n + 1
      BY <1>1, <1>18
    <3> QED BY <2>2, <3>1, Zenon
  <2> QED BY <2>1, <2>2
<1>19. 0 \notin 1..n /\ n + 1 # 0
  BY <1>1
<1>10. s.ask # "" => Len(A) = n + 1 /\ Len(A) \in 1..Len(A)
  BY <1>1, <1>3, Zenon
<1>11. s.ask # "" => A[n + 1].ctx = c /\ A[n + 1].status = "OPEN"
                     /\ A[n + 1].task = QuestionTask(s, Len(T))
  BY <1>3, Zenon
<1>12. s.ask # "" => A[n + 1].task \notin R
  <2> SUFFICES ASSUME s.ask # "" PROVE A[n + 1].task \notin R
    OBVIOUS
  <2>1. CASE s.retry
    <3>1. s.row # 0 /\ s.task = ""
      BY <1>2, <2>1 DEF Coherent
    <3>2. /\ rows[s.row].task \in 1..Len(tasks)
          /\ tasks[rows[s.row].task].status = "WAITING_CLARIFICATION"
      BY <1>1, <1>2, <3>1 DEF Answers
    <3>3. ~Moved(s, rows[s.row].task)
      BY <3>1 DEF Moved
    <3> QED BY <1>7, <1>11, <2>1, <3>2, <3>3, Zenon DEF QuestionTask
  <2>2. CASE ~s.retry
    <3>1. NeedsQuestionTask(s)
      BY <2>2 DEF NeedsQuestionTask
    <3>2. T[Len(T)].status = "WAITING_CLARIFICATION"
      BY <1>5, <3>1, Zenon
    <3> QED BY <1>6, <1>11, <2>2, <3>2, Zenon DEF QuestionTask
  <2> QED BY <2>1, <2>2
<1>13. ASSUME NEW y \in Ctxs, NEW r \in Open(y)
       PROVE  /\ r = asking[y] /\ r \in 1..n /\ rows[r].ctx = y /\ rows[r].status = "OPEN"
              /\ rows[r].task \in 1..Len(tasks) /\ tasks[rows[r].task].ctx = y
              /\ tasks[rows[r].task].status = "WAITING_CLARIFICATION"
  <2>1. asking[y] # 0
    BY DEF IInv, LaneAConsistent
  <2>2. Open(y) = {asking[y]} /\ WaitingAnswer(y) = {rows[asking[y]].task}
    BY <2>1 DEF IInv, LaneAConsistent
  <2>3. rows[r].task \in WaitingAnswer(y)
    BY <2>2
  <2> QED BY <1>1, <2>2, <2>3 DEF Open, WaitingAnswer
<1>14. ASSUME x # c PROVE Open(x)' = Open(x)
  <2>1. ASSUME NEW r \in Open(x) PROVE r \in Open(x)'
    <3>1. rows[r].task \notin R
      BY <1>5, <1>6, <1>13, <1>14
    <3>2. r # s.row
      BY <1>2, <1>13, <1>14 DEF Answers
    <3>3. r \in 1..Len(A) /\ A[r] = rows[r]
      BY <1>3, <1>8, <1>13, <3>2
    <3> QED BY <1>4, <1>13, <3>1, <3>3 DEF Open
  <2>2. ASSUME NEW r \in Open(x)' PROVE r \in Open(x)
    <3>1. r \in 1..Len(A) /\ A[r].ctx = x /\ A[r].status = "OPEN"
      BY <1>4 DEF Open
    <3>2. r \in 1..n
      BY <1>9, <1>11, <1>14, <3>1
    <3>3. r # s.row
      BY <1>3, <1>19, <3>1, <3>2, Zenon
    <3> QED BY <1>1, <1>3, <3>1, <3>2, <3>3, Zenon DEF Open
  <2> QED BY <2>1, <2>2
<1>15. Open(c)' = OpenAfter(c, s, A)
  <2>1. ASSUME NEW r \in Open(c), r # s.row PROVE r \in Open(c)'
    <3>1. s.row = 0
      BY <1>2, <1>13, <2>1
    <3>2. ~Moved(s, rows[r].task)
      BY <3>1 DEF Moved
    <3>3. rows[r].task \notin R
      BY <1>7, <1>13, <3>2
    <3>4. r \in 1..Len(A) /\ A[r] = rows[r]
      BY <1>3, <1>8, <1>13, <2>1
    <3> QED BY <1>4, <1>13, <3>3, <3>4 DEF Open
  <2>2. s.ask # "" => Len(A) \in Open(c)'
    <3>1. s.ask # "" =>
            /\ Len(A) \in 1..Len(A) /\ A[Len(A)].ctx = c /\ A[Len(A)].status = "OPEN"
            /\ A[Len(A)].task \notin R
      BY <1>10, <1>11, <1>12, Zenon
    <3> QED BY <1>4, <3>1 DEF Open
  <2>3. ASSUME NEW r \in Open(c)'
        PROVE  (r \in Open(c) /\ r # s.row) \/ (s.ask # "" /\ r = Len(A))
    <3>1. r \in 1..Len(A) /\ A[r].ctx = c /\ A[r].status = "OPEN"
      BY <1>4 DEF Open
    <3>2. CASE r \in 1..n
      <4>1. r # s.row
        BY <1>3, <1>19, <3>1, <3>2, Zenon
      <4> QED BY <1>1, <1>3, <3>1, <3>2, <4>1, Zenon DEF Open
    <3>3. CASE r \notin 1..n
      BY <1>9, <1>10, <3>1, <3>3, Zenon
    <3> QED BY <3>2, <3>3
  <2> QED BY <2>1, <2>2, <2>3 DEF OpenAfter
<1>16. \A r \in DOMAIN rows : r \in DOMAIN rows' /\ rows'[r].task = rows[r].task
  BY <1>1, <1>3, <1>4, <1>8
<1>17. s.ask # "" => rows'[Len(A)].task = QuestionTask(s, Len(T))
  BY <1>4, <1>10, <1>11, Zenon
<1>20. s.ask # "" => Len(A) # 0
  BY <1>10, <1>19, Zenon
<1> QED BY <1>14, <1>15, <1>16, <1>17, <1>20

\* Retirement ends no task that waits.
LEMMA WaitingRetired ==
    ASSUME NEW c, NEW T \in Seq(TaskRecs), NEW R \in SUBSET Terminal(T, c), NEW x \in Ctxs,
           tasks' = RetiredTasks(T, R)
    PROVE  /\ DOMAIN tasks' = 1..Len(T)
           /\ WaitingAnswer(x)' = Awaiting(T, x) /\ Waiting(x)' = Confirming(T, x)
           /\ \A t \in 1..Len(T) : tasks'[t].draft = T[t].draft
<1>1. /\ DOMAIN tasks' = 1..Len(T)
      /\ \A t \in 1..Len(T) :
           /\ tasks'[t].ctx = T[t].ctx /\ tasks'[t].draft = T[t].draft
           /\ tasks'[t].status = IF t \in R THEN "DELETED" ELSE T[t].status
           /\ t \in R => T[t].ctx = c /\ T[t].status \in TerminalStatuses
  BY TasksRetired, Zenon
<1>2. \A t \in 1..Len(T) :
        /\ tasks'[t].status = "WAITING_CLARIFICATION" <=> T[t].status = "WAITING_CLARIFICATION"
        /\ tasks'[t].status = "WAITING_CONFIRMATION" <=> T[t].status = "WAITING_CONFIRMATION"
  BY <1>1 DEF TerminalStatuses
<1> QED BY <1>1, <1>2 DEF WaitingAnswer, Waiting, Awaiting, Confirming

LEMMA CommitLaneA ==
    ASSUME IInv, NEW h \in Handlers, NEW c \in Ctxs, NEW s \in SayRecs, NEW d \in Nat,
           NEW T \in Seq(TaskRecs), NEW A \in Seq(RowRecs), NEW R, CommitsAs(h, c, s, d, T, A, R)
    PROVE  LaneAConsistent'
<1>1. /\ Typed /\ Coherent(s) /\ Answers(c, s) /\ R \in SUBSET Terminal(T, c)
      /\ T = Rewritten(c, s, d)
      /\ s.row # 0 => asking[c] = s.row
      /\ s.row = 0 /\ s.ask # "" => asking[c] = 0
      /\ asking' = [asking EXCEPT ![c] = IF s.ask # "" THEN Len(A) ELSE IF s.row # 0 THEN 0 ELSE @]
      /\ tasks' = RetiredTasks(T, R)
  BY DEF CommitsAs, IInv
<1>2. asking \in [Ctxs -> Nat]
  BY <1>1 DEF Typed
<1>3. \A x \in Ctxs : WaitingAnswer(x)' = Awaiting(T, x)
  BY <1>1, WaitingRetired, Zenon
<1>4. ASSUME NEW x \in Ctxs
       PROVE  /\ x # c => Awaiting(T, x) = WaitingAnswer(x)
              /\ Awaiting(T, c) = AwaitingAfter(c, s, T)
  <2>1. AwaitingIs(c, s, d, T, x)
    BY <1>1, AwaitingRewritten, Zenon
  <2> QED BY <2>1 DEF AwaitingIs
<1>5. \A x \in Ctxs : x # c => asking'[x] = asking[x] /\ Open(x)' = Open(x)
                               /\ WaitingAnswer(x)' = WaitingAnswer(x)
  <2> SUFFICES ASSUME NEW x \in Ctxs, x # c
               PROVE  asking'[x] = asking[x] /\ Open(x)' = Open(x)
                      /\ WaitingAnswer(x)' = WaitingAnswer(x)
    OBVIOUS
  <2>1. asking'[x] = asking[x]
    BY <1>1, <1>2
  <2>2. Open(x)' = Open(x)
    BY OpenRewritten, Zenon
  <2>3. WaitingAnswer(x)' = WaitingAnswer(x)
    BY <1>3, <1>4, Zenon
  <2> QED BY <2>1, <2>2, <2>3
<1>6. /\ Open(c)' = OpenAfter(c, s, A)
      /\ \A r \in DOMAIN rows : r \in DOMAIN rows' /\ rows'[r].task = rows[r].task
      /\ s.ask # "" => Len(A) # 0 /\ rows'[Len(A)].task = QuestionTask(s, Len(T))
  <2>1. Open(c)' = OpenAfter(c, s, A)
    BY OpenRewritten
  <2>2. \A r \in DOMAIN rows : r \in DOMAIN rows' /\ rows'[r].task = rows[r].task
    BY OpenRewritten
  <2>3. s.ask # "" => Len(A) # 0 /\ rows'[Len(A)].task = QuestionTask(s, Len(T))
    BY OpenRewritten
  <2> QED BY <2>1, <2>2, <2>3, Zenon
<1>7. WaitingAnswer(c)' = AwaitingAfter(c, s, T)
  BY <1>3, <1>4, Zenon
<1>8. \A x \in Ctxs :
        IF asking[x] = 0
        THEN Open(x) = {} /\ WaitingAnswer(x) = {}
        ELSE Open(x) = {asking[x]} /\ WaitingAnswer(x) = {rows[asking[x]].task}
  BY DEF IInv, LaneAConsistent
<1>9. ASSUME NEW x \in Ctxs, asking[x] # 0 PROVE rows'[asking[x]].task = rows[asking[x]].task
  <2>1. asking[x] \in DOMAIN rows
    BY <1>8, <1>9 DEF Open
  <2> QED BY <1>6, <2>1
<1>10. asking'[c] = IF s.ask # "" THEN Len(A) ELSE IF s.row # 0 THEN 0 ELSE asking[c]
  BY <1>1, <1>2
<1>11. IF asking'[c] = 0
       THEN Open(c)' = {} /\ WaitingAnswer(c)' = {}
       ELSE Open(c)' = {asking'[c]} /\ WaitingAnswer(c)' = {rows'[asking'[c]].task}
  <2>1. CASE s.row = 0 /\ s.ask = ""
    <3>1. asking'[c] = asking[c] /\ ~NeedsQuestionTask(s) /\ \A t : ~Moved(s, t)
      BY <1>10, <2>1 DEF NeedsQuestionTask, Moved
    <3>2. \A r \in Open(c) : r # 0
      BY <1>8
    <3>3. Open(c)' = Open(c) /\ WaitingAnswer(c)' = WaitingAnswer(c)
      BY <1>6, <1>7, <2>1, <3>1, <3>2 DEF AwaitingAfter, OpenAfter
    <3> QED BY <1>8, <1>9, <3>1, <3>3
  <2>2. CASE s.row # 0 /\ s.ask = ""
    <3>1. asking'[c] = 0 /\ ~NeedsQuestionTask(s)
      BY <1>10, <2>2 DEF NeedsQuestionTask
    <3>2. Open(c) = {s.row} /\ WaitingAnswer(c) = {rows[s.row].task}
      BY <1>1, <1>8, <2>2
    <3>3. s.task # ""
      BY <1>1, <2>2 DEF Coherent
    <3>4. Moved(s, rows[s.row].task)
      BY <2>2, <3>3 DEF Moved
    <3> QED BY <1>6, <1>7, <2>2, <3>1, <3>2, <3>4 DEF AwaitingAfter, OpenAfter
  <2>3. CASE s.row = 0 /\ s.ask # ""
    <3>1. asking'[c] = Len(A) /\ Len(A) # 0 /\ ~s.retry /\ NeedsQuestionTask(s)
      BY <1>1, <1>6, <1>10, <2>3 DEF NeedsQuestionTask, Coherent
    <3>2. Open(c) = {} /\ WaitingAnswer(c) = {}
      BY <1>1, <1>8, <2>3
    <3>3. rows'[Len(A)].task = Len(T)
      BY <1>6, <2>3, <3>1 DEF QuestionTask
    <3> QED BY <1>6, <1>7, <2>3, <3>1, <3>2, <3>3 DEF AwaitingAfter, OpenAfter
  <2>4. CASE s.row # 0 /\ s.ask # ""
    <3>1. asking'[c] = Len(A) /\ Len(A) # 0
      BY <1>6, <1>10, <2>4
    <3>2. Open(c) = {s.row} /\ WaitingAnswer(c) = {rows[s.row].task}
      BY <1>1, <1>8, <2>4
    <3>3. Open(c)' = {Len(A)}
      BY <1>6, <2>4, <3>2 DEF OpenAfter
    <3>4. CASE s.retry
      <4>1. ~NeedsQuestionTask(s) /\ \A t : ~Moved(s, t)
        BY <1>1, <3>4 DEF NeedsQuestionTask, Moved, Coherent
      <4>2. rows'[Len(A)].task = rows[s.row].task
        BY <1>6, <2>4, <3>4 DEF QuestionTask
      <4> QED BY <1>7, <3>1, <3>2, <3>3, <4>1, <4>2 DEF AwaitingAfter
    <3>5. CASE ~s.retry
      <4>1. NeedsQuestionTask(s) /\ s.task # ""
        BY <1>1, <2>4, <3>5 DEF NeedsQuestionTask, Coherent
      <4>2. Moved(s, rows[s.row].task)
        BY <2>4, <4>1 DEF Moved
      <4>3. rows'[Len(A)].task = Len(T)
        BY <1>6, <2>4, <3>5 DEF QuestionTask
      <4> QED BY <1>7, <3>1, <3>2, <3>3, <4>1, <4>2, <4>3 DEF AwaitingAfter
    <3> QED BY <3>4, <3>5
  <2> QED BY <2>1, <2>2, <2>3, <2>4
<1>12. ASSUME NEW x \in Ctxs, x # c
       PROVE  IF asking'[x] = 0
              THEN Open(x)' = {} /\ WaitingAnswer(x)' = {}
              ELSE Open(x)' = {asking'[x]} /\ WaitingAnswer(x)' = {rows'[asking'[x]].task}
  BY <1>5, <1>8, <1>9, <1>12
<1> QED BY <1>11, <1>12 DEF LaneAConsistent

LEMMA CommitLaneB ==
    ASSUME IInv, NEW h \in Handlers, NEW c \in Ctxs, NEW s \in SayRecs, NEW d \in Nat,
           NEW T \in Seq(TaskRecs), NEW A \in Seq(RowRecs), NEW R, CommitsAs(h, c, s, d, T, A, R)
    PROVE  LaneBConsistent'
<1>1. /\ Typed /\ Coherent(s) /\ Answers(c, s) /\ R \in SUBSET Terminal(T, c)
      /\ T = Rewritten(c, s, d)
      /\ s.lane = "NONE" => d = draft[c]
      /\ s.lane # "NONE" => d = Len(log) + 1
      /\ s.lane = "AMENDED" => draft[c] # 0
      /\ tasks' = RetiredTasks(T, R)
      /\ draft' = [draft EXCEPT ![c] = d]
  BY DEF CommitsAs, IInv
<1>2. s.lane # "NONE" => d # 0
  BY <1>1, SeqIsFunction
<1>3. draft'[c] = d /\ \A x \in Ctxs : x # c => draft'[x] = draft[x]
  BY <1>1 DEF Typed
<1>4. /\ DOMAIN tasks' = 1..Len(T)
      /\ \A x \in Ctxs : Waiting(x)' = Confirming(T, x)
      /\ \A t \in 1..Len(T) : tasks'[t].draft = T[t].draft
  BY <1>1, WaitingRetired, Zenon
<1>5. \A x \in Ctxs : \A t \in Confirming(T, x) : t \in 1..Len(T)
  BY DEF Confirming
<1>6. \A x \in Ctxs :
        IF draft[x] = 0
        THEN Waiting(x) = {}
        ELSE \E t \in DOMAIN tasks : Waiting(x) = {t} /\ tasks[t].draft = draft[x]
  BY DEF IInv, LaneBConsistent
<1>7. ASSUME NEW x \in Ctxs, draft'[x] = draft[x], Confirming(T, x) = Waiting(x),
             \A t \in Waiting(x) : T[t].draft = tasks[t].draft
      PROVE  IF draft'[x] = 0
             THEN Waiting(x)' = {}
             ELSE \E t \in DOMAIN tasks' : Waiting(x)' = {t} /\ tasks'[t].draft = draft'[x]
  <2>1. CASE draft[x] = 0
    BY <1>4, <1>6, <1>7, <2>1
  <2>2. CASE draft[x] # 0
    <3>1. PICK t \in DOMAIN tasks : Waiting(x) = {t} /\ tasks[t].draft = draft[x]
      BY <1>6, <2>2
    <3>2. t \in 1..Len(T) /\ Waiting(x)' = {t}
      BY <1>4, <1>5, <1>7, <3>1
    <3>3. tasks'[t].draft = draft[x]
      BY <1>4, <1>7, <3>1, <3>2
    <3> QED BY <1>4, <1>7, <2>2, <3>2, <3>3
  <2> QED BY <2>1, <2>2
<1>8. ASSUME NEW x \in Ctxs, x # c
      PROVE  IF draft'[x] = 0
             THEN Waiting(x)' = {}
             ELSE \E t \in DOMAIN tasks' : Waiting(x)' = {t} /\ tasks'[t].draft = draft'[x]
  <2>1. /\ Confirming(T, x) = Waiting(x)
        /\ \A t \in Waiting(x) : T[t].draft = tasks[t].draft
    BY <1>1, <1>8, ConfirmingRewritten
  <2> QED BY <1>3, <1>7, <1>8, <2>1
<1>9. IF draft'[c] = 0
      THEN Waiting(c)' = {}
      ELSE \E t \in DOMAIN tasks' : Waiting(c)' = {t} /\ tasks'[t].draft = draft'[c]
  <2>1. CASE s.lane = "NONE"
    <3>1. /\ Confirming(T, c) = Waiting(c)
          /\ \A t \in Waiting(c) : T[t].draft = tasks[t].draft
      BY <1>1, <2>1, ConfirmingRewritten
    <3> QED BY <1>1, <1>3, <1>7, <2>1, <3>1
  <2>2. CASE s.lane = "AMENDED"
    <3>1. Confirming(T, c) = Waiting(c) /\ \A t \in Waiting(c) : T[t].draft = d
      BY <1>1, <2>2, ConfirmingRewritten
    <3>2. PICK t \in DOMAIN tasks : Waiting(c) = {t}
      BY <1>1, <1>6, <2>2
    <3>3. t \in 1..Len(T) /\ Waiting(c)' = {t} /\ tasks'[t].draft = d
      BY <1>4, <1>5, <3>1, <3>2
    <3> QED BY <1>2, <1>3, <1>4, <2>2, <3>3
  <2>3. CASE s.lane = "NEW_DRAFT"
    <3>1. \E t \in 1..Len(T) : Confirming(T, c) = {t} /\ T[t].draft = d
      BY <1>1, <2>3, ConfirmingRewritten
    <3> QED BY <1>2, <1>3, <1>4, <2>3, <3>1
  <2> QED BY <2>1, <2>2, <2>3, SayFields
<1> QED BY <1>8, <1>9 DEF LaneBConsistent

LEMMA CommitRows ==
    ASSUME IInv, NEW h \in Handlers, NEW c \in Ctxs, NEW s \in SayRecs, NEW d \in Nat,
           NEW T \in Seq(TaskRecs), NEW A \in Seq(RowRecs), NEW R, CommitsAs(h, c, s, d, T, A, R)
    PROVE  /\ RowsSound'
           /\ \A r \in DOMAIN rows : r \in DOMAIN rows' /\ rows'[r].attempt = rows[r].attempt
<1> DEFINE n == Len(rows)
           m == Len(tasks)
<1>1. /\ n \in Nat /\ DOMAIN rows = 1..n /\ m \in Nat /\ DOMAIN tasks = 1..m
      /\ Len(T) \in Nat /\ Len(A) \in Nat
  BY SeqIsFunction, LenProperties DEF IInv
<1>2. /\ Typed /\ Coherent(s) /\ Answers(c, s) /\ SecondOfFirst(s) /\ R \in SUBSET Terminal(T, c)
      /\ T = Rewritten(c, s, d) /\ A = Asked(c, s, Len(T))
      /\ tasks' = RetiredTasks(T, R) /\ rows' = RetiredRows(A, R)
  BY DEF CommitsAs, IInv
<1>3. RowsAre(c, s, Len(T), A)
  BY <1>1, <1>2, RowsRewritten, Zenon
<1>4. /\ DOMAIN rows' = 1..Len(A)
      /\ \A r \in 1..Len(A) :
           /\ rows'[r].task = A[r].task /\ rows'[r].attempt = A[r].attempt
           /\ rows'[r].pred = A[r].pred
           /\ rows'[r].asked = A[r].asked /\ rows'[r].source = A[r].source
  BY <1>2, RowsRetired
<1>5. Len(T) = IF NeedsDraftTask(s) \/ NeedsQuestionTask(s) THEN m + 1 ELSE m
  BY <1>2, TasksRewritten
<1>6. DOMAIN tasks' = 1..Len(T)
  BY <1>2, WaitingRetired
<1>7. Len(A) = IF s.ask = "" THEN n ELSE n + 1
  BY <1>3, Zenon DEF RowsAre
<1>8. \A r \in 1..n : r \in 1..Len(A)
  <2>1. Len(A) = n \/ Len(A) = n + 1
    BY <1>7, Zenon
  <2> QED BY <1>1, <2>1
<1>9. \A t \in 1..m : t \in 1..Len(T)
  <2>1. Len(T) = m \/ Len(T) = m + 1
    BY <1>5, Zenon
  <2> QED BY <1>1, <2>1
<1>10. \A r \in 1..n :
         /\ A[r].task = rows[r].task /\ A[r].attempt = rows[r].attempt
         /\ A[r].pred = rows[r].pred
         /\ A[r].asked = rows[r].asked /\ A[r].source = rows[r].source
  BY <1>3, Zenon DEF RowsAre
<1>11. \A r \in 1..n :
         /\ rows[r].task \in 1..m
         /\ rows[r].attempt = 1 => rows[r].source = rows[r].asked
         /\ rows[r].attempt = 2 => rows[r].pred \in 1..n
  BY <1>1 DEF IInv, RowsSound
<1>12. ASSUME NEW r \in 1..n
       PROVE  /\ rows'[r].task \in 1..Len(T)
              /\ rows'[r].attempt = 1 => rows'[r].source = rows'[r].asked
              /\ rows'[r].attempt = 2 => rows'[r].pred \in 1..Len(A)
  <2>1. /\ rows'[r].task = rows[r].task /\ rows'[r].attempt = rows[r].attempt
        /\ rows'[r].pred = rows[r].pred
        /\ rows'[r].asked = rows[r].asked /\ rows'[r].source = rows[r].source
    BY <1>4, <1>8, <1>10, Zenon
  <2>2. /\ rows'[r].task \in 1..Len(T)
        /\ rows'[r].attempt = 1 => rows'[r].source = rows'[r].asked
    BY <1>9, <1>11, <2>1, Zenon
  <2>3. rows'[r].attempt = 2 => rows'[r].pred \in 1..Len(A)
    BY <1>8, <1>11, <2>1, Zenon
  <2> QED BY <2>2, <2>3
<1>13. ASSUME s.ask # ""
       PROVE  /\ rows'[n + 1].task \in 1..Len(T)
              /\ rows'[n + 1].attempt = 1 => rows'[n + 1].source = rows'[n + 1].asked
              /\ rows'[n + 1].attempt = 2 => rows'[n + 1].pred \in 1..Len(A)
  <2>1. n + 1 \in 1..Len(A)
    <3>1. Len(A) = n + 1
      BY <1>7, <1>13, Zenon
    <3>2. n + 1 \in 1..(n + 1)
      BY <1>1
    <3> QED BY <3>1, <3>2, Zenon
  <2>2. /\ A[n + 1].task = QuestionTask(s, Len(T))
        /\ A[n + 1].attempt = 1 => A[n + 1].source = A[n + 1].asked
        /\ A[n + 1].attempt = 2 => A[n + 1].pred \in DOMAIN rows
    BY <1>3, <1>13, Zenon DEF RowsAre
  <2>3. QuestionTask(s, Len(T)) \in 1..Len(T)
    <3>1. CASE s.retry
      <4>1. s.row # 0
        BY <1>2, <3>1 DEF Coherent
      <4>2. rows[s.row].task \in 1..m
        BY <1>1, <1>2, <4>1 DEF Answers
      <4> QED BY <1>9, <3>1, <4>2, Zenon DEF QuestionTask
    <3>2. CASE ~s.retry
      <4>1. Len(T) = m + 1
        BY <1>5, <1>13, <3>2 DEF NeedsQuestionTask
      <4>2. Len(T) \in 1..Len(T)
        BY <1>1, <4>1
      <4> QED BY <3>2, <4>2, Zenon DEF QuestionTask
    <3> QED BY <3>1, <3>2
  <2> QED BY <1>1, <1>4, <1>8, <2>1, <2>2, <2>3, Zenon
<1>14. \A r \in 1..Len(A) : r \in 1..n \/ (r = n + 1 /\ s.ask # "")
  <2>1. CASE s.ask = ""
    BY <1>7, <2>1, Zenon
  <2>2. CASE s.ask # ""
    <3>1. Len(A) = n + 1
      BY <1>7, <2>2, Zenon
    <3>2. \A r \in 1..Len(A) : r \in 1..n \/ r = n + 1
      BY <1>1, <3>1
    <3> QED BY <2>2, <3>2, Zenon
  <2> QED BY <2>1, <2>2
<1>15. RowsSound'
  <2>1. ASSUME NEW r \in 1..Len(A)
        PROVE  /\ rows'[r].task \in 1..Len(T)
               /\ rows'[r].attempt = 1 => rows'[r].source = rows'[r].asked
               /\ rows'[r].attempt = 2 => rows'[r].pred \in 1..Len(A)
    BY <1>12, <1>13, <1>14, Zenon
  <2> QED BY <1>4, <1>6, <2>1, Zenon DEF RowsSound
<1>16. \A r \in DOMAIN rows : r \in DOMAIN rows' /\ rows'[r].attempt = rows[r].attempt
  BY <1>1, <1>4, <1>8, <1>10, Zenon
<1> QED BY <1>15, <1>16

LEMMA CommitIInv == ASSUME IInv, NEW h \in Handlers, Commit(h) PROVE IInv'
<1>1. PICK c \in Ctxs, s \in SayRecs, d \in Nat, T \in Seq(TaskRecs), A \in Seq(RowRecs) :
        \E R : CommitsAs(h, c, s, d, T, A, R)
  BY CommitParts, Zenon
<1>2. PICK R : CommitsAs(h, c, s, d, T, A, R)
  BY <1>1
<1>3. /\ tasks' = RetiredTasks(T, R) /\ rows' = RetiredRows(A, R) /\ R \in SUBSET Terminal(T, c)
      /\ asking' = [asking EXCEPT ![c] = IF s.ask # "" THEN Len(A) ELSE IF s.row # 0 THEN 0 ELSE @]
      /\ draft' = [draft EXCEPT ![c] = d]
  BY <1>2 DEF CommitsAs
<1>4. \E e \in {"plain", "draft"} : log' = Append(log, e)
  BY DEF Commit
<1>5. turn' = [x \in Handlers |-> IF x = h THEN Idle ELSE Outdated(x)]
  BY DEF Commit
<1>6. Typed'
  <2>1. log' \in Seq({"plain", "draft", "confirmed"})
    BY <1>4, AppendProperties DEF IInv, Typed
  <2>2. tasks' \in Seq(TaskRecs)
    BY <1>3, TasksRetired, Zenon
  <2>3. rows' \in Seq(RowRecs)
    BY <1>3, RowsRetired, Zenon
  <2>4. asking' \in [Ctxs -> Nat]
    BY <1>3, LenProperties DEF IInv, Typed
  <2>5. draft' \in [Ctxs -> Nat]
    BY <1>3 DEF IInv, Typed
  <2>6. turn' \in [Handlers -> TurnRecs]
    BY <1>5, IdleTyped, OutdatedTurns DEF IInv
  <2> QED BY <2>1, <2>2, <2>3, <2>4, <2>5, <2>6 DEF Typed
<1>7. /\ RowsSound'
      /\ \A r \in DOMAIN rows : r \in DOMAIN rows' /\ rows'[r].attempt = rows[r].attempt
  BY <1>2, CommitRows, Zenon
<1>8. TurnsSound'
  <2> SUFFICES ASSUME NEW x \in Handlers, turn'[x].ctx # None
               PROVE  /\ Coherent(turn'[x].say)
                      /\ turn'[x].say.row # 0 => turn'[x].say.row \in DOMAIN rows'
                      /\ turn'[x].say.retry => rows'[turn'[x].say.row].attempt = 1
                      /\ turn'[x].stale
    BY DEF TurnsSound, SecondOfFirst
  <2>1. turn'[x] = Outdated(x)
    BY <1>5, IdleTyped
  <2>2. /\ turn[x].ctx # None /\ turn'[x].stale /\ turn'[x].say = turn[x].say
    BY <2>1, OutdatedTurns DEF IInv
  <2>3. /\ Coherent(turn[x].say) /\ (turn[x].say.row # 0 => turn[x].say.row \in DOMAIN rows)
        /\ SecondOfFirst(turn[x].say)
    BY <2>2 DEF IInv, TurnsSound
  <2>4. turn[x].say.retry => turn[x].say.row # 0
    BY <2>3 DEF Coherent
  <2> QED BY <1>7, <2>2, <2>3, <2>4 DEF SecondOfFirst
<1>9. LaneAConsistent'
  BY <1>2, CommitLaneA, Zenon
<1>10. LaneBConsistent'
  BY <1>2, CommitLaneB, Zenon
<1> QED BY <1>6, <1>7, <1>8, <1>9, <1>10 DEF IInv

-----------------------------------------------------------------------------
(* The time limit of a question, and the confirmation of a draft.          *)

LEMMA QuestionExpiresIInv == ASSUME IInv, NEW r \in DOMAIN rows, QuestionExpires(r) PROVE IInv'
<1>1. /\ Len(rows) \in Nat /\ DOMAIN rows = 1..Len(rows) /\ rows \in [1..Len(rows) -> RowRecs]
      /\ rows' = [rows EXCEPT ![r].late = TRUE]
      /\ UNCHANGED <<log, tasks, asking, draft, holder, turn>>
  BY SeqIsFunction DEF IInv, QuestionExpires
<1>2. rows' \in [1..Len(rows) -> RowRecs] /\ DOMAIN rows' = DOMAIN rows
  <2>1. rows[r] \in RowRecs
    BY <1>1
  <2>2. [rows[r] EXCEPT !.late = TRUE] \in RowRecs
    BY <2>1 DEF RowRecs
  <2> QED BY <1>1, <2>2
<1>3. rows' \in Seq(RowRecs)
  BY <1>1, <1>2, FunctionIsSeq
<1>4. \A x \in DOMAIN rows :
        /\ rows'[x].ctx = rows[x].ctx /\ rows'[x].task = rows[x].task
        /\ rows'[x].status = rows[x].status /\ rows'[x].attempt = rows[x].attempt
        /\ rows'[x].pred = rows[x].pred /\ rows'[x].asked = rows[x].asked
        /\ rows'[x].source = rows[x].source
  BY <1>1 DEF RowRecs
<1>5. Typed'
  BY <1>1, <1>3 DEF IInv, Typed
<1>6. RowsSound'
  BY <1>1, <1>2, <1>4 DEF IInv, RowsSound
<1>7. TurnsSound'
  <2> SUFFICES ASSUME NEW x \in Handlers, turn[x].ctx # None
               PROVE  /\ Coherent(turn[x].say)
                      /\ turn[x].say.row # 0 => turn[x].say.row \in DOMAIN rows'
                      /\ turn[x].say.retry => rows'[turn[x].say.row].attempt = 1
                      /\ ~turn[x].stale => /\ turn[x].draft = draft[turn[x].ctx]
                                           /\ turn[x].say.lane = "AMENDED" => draft[turn[x].ctx] # 0
    BY <1>1 DEF TurnsSound, SecondOfFirst
  <2>1. /\ Coherent(turn[x].say)
        /\ turn[x].say.row # 0 => turn[x].say.row \in DOMAIN rows
        /\ turn[x].say.retry => rows[turn[x].say.row].attempt = 1
        /\ ~turn[x].stale => /\ turn[x].draft = draft[turn[x].ctx]
                             /\ turn[x].say.lane = "AMENDED" => draft[turn[x].ctx] # 0
    BY DEF IInv, TurnsSound, SecondOfFirst
  <2>2. turn[x].say.retry => turn[x].say.row # 0
    BY <2>1 DEF Coherent
  <2> QED BY <1>2, <1>4, <2>1, <2>2, Zenon
<1>8. LaneAConsistent'
  <2>1. \A c \in Ctxs : Open(c)' = Open(c) /\ WaitingAnswer(c)' = WaitingAnswer(c)
    BY <1>1, <1>2, <1>4 DEF Open, WaitingAnswer
  <2>2. \A c \in Ctxs : asking[c] # 0 => asking[c] \in DOMAIN rows
    BY DEF IInv, LaneAConsistent, Open
  <2> QED BY <1>1, <1>4, <2>1, <2>2 DEF IInv, LaneAConsistent
<1>9. LaneBConsistent'
  BY <1>1 DEF IInv, LaneBConsistent, Waiting
<1> QED BY <1>5, <1>6, <1>7, <1>8, <1>9 DEF IInv

LEMMA ConfirmDraftIInv == ASSUME IInv, NEW c \in Ctxs, ConfirmDraft(c) PROVE IInv'
<1> DEFINE Ended(t) == t \in Waiting(c) /\ tasks[t].draft = draft[c]
<1>1. /\ Len(log) \in Nat /\ DOMAIN log = 1..Len(log) /\ Len(tasks) \in Nat
      /\ DOMAIN tasks = 1..Len(tasks) /\ tasks \in [1..Len(tasks) -> TaskRecs]
  BY SeqIsFunction DEF IInv
<1>2. /\ log' = [log EXCEPT ![draft[c]] = "confirmed"]
      /\ tasks' = [t \in DOMAIN tasks |->
                     IF Ended(t) THEN [tasks[t] EXCEPT !.status = "COMPLETED", !.draft = 0]
                     ELSE tasks[t]]
      /\ draft' = [draft EXCEPT ![c] = 0]
      /\ turn' = [h \in Handlers |-> Outdated(h)]
      /\ draft[c] # 0 /\ UNCHANGED <<rows, asking, holder>>
  BY DEF ConfirmDraft, TranscriptWritten, PayloadKept
<1> HIDE DEF Ended
<1>3. log' \in Seq({"plain", "draft", "confirmed"})
  <2>1. log \in [1..Len(log) -> {"plain", "draft", "confirmed"}]
    BY LenProperties DEF IInv, Typed
  <2>2. log' \in [1..Len(log) -> {"plain", "draft", "confirmed"}]
    BY <1>2, <2>1
  <2> QED BY <1>1, <2>2, FunctionIsSeq
<1>4. ASSUME NEW t \in 1..Len(tasks)
      PROVE  /\ tasks'[t] \in TaskRecs /\ tasks'[t].ctx = tasks[t].ctx
             /\ Ended(t) => tasks'[t].status = "COMPLETED"
             /\ ~Ended(t) => tasks'[t] = tasks[t]
  <2>1. tasks[t] \in TaskRecs
    BY <1>1
  <2>2. CASE Ended(t)
    <3>1. tasks'[t] = Update(tasks[t], "COMPLETED", 0)
      BY <1>1, <1>2, <2>2 DEF Update
    <3>2. 0 \in Nat /\ "COMPLETED" \in TerminalStatuses
      BY DEF TerminalStatuses
    <3>3. "COMPLETED" \in TerminalStatuses \cup {"WAITING_CONFIRMATION"}
      BY <3>2
    <3>4. /\ Update(tasks[t], "COMPLETED", 0) \in TaskRecs
          /\ Update(tasks[t], "COMPLETED", 0).ctx = tasks[t].ctx
          /\ Update(tasks[t], "COMPLETED", 0).status = "COMPLETED"
      BY <2>1, <3>2, <3>3, TaskUpdated
    <3> QED BY <2>2, <3>1, <3>4, Zenon
  <2>3. CASE ~Ended(t)
    BY <1>1, <1>2, <2>1, <2>3
  <2> QED BY <2>2, <2>3
<1>5. tasks' \in Seq(TaskRecs) /\ DOMAIN tasks' = 1..Len(tasks)
  <2>1. tasks' = [t \in 1..Len(tasks) |-> tasks'[t]]
    BY <1>1, <1>2
  <2>2. tasks' \in [1..Len(tasks) -> TaskRecs]
    BY <1>4, <2>1
  <2> QED BY <1>1, <2>2, FunctionIsSeq
<1>6. Typed'
  <2>1. turn' \in [Handlers -> TurnRecs]
    BY <1>2, OutdatedTurns DEF IInv
  <2>2. draft' \in [Ctxs -> Nat]
    BY <1>2 DEF IInv, Typed
  <2> QED BY <1>2, <1>3, <1>5, <2>1, <2>2 DEF IInv, Typed
<1>7. RowsSound'
  BY <1>1, <1>2, <1>5 DEF IInv, RowsSound
<1>8. TurnsSound'
  <2> SUFFICES ASSUME NEW x \in Handlers, turn'[x].ctx # None
               PROVE  /\ Coherent(turn'[x].say)
                      /\ turn'[x].say.row # 0 => turn'[x].say.row \in DOMAIN rows
                      /\ turn'[x].say.retry => rows[turn'[x].say.row].attempt = 1
                      /\ turn'[x].stale
    BY <1>2 DEF TurnsSound, SecondOfFirst
  <2>1. /\ turn[x].ctx # None /\ turn'[x].stale /\ turn'[x].say = turn[x].say
    BY <1>2, OutdatedTurns DEF IInv
  <2> QED BY <2>1 DEF IInv, TurnsSound, SecondOfFirst
<1>9. \A t \in 1..Len(tasks) : Ended(t) => tasks[t].status = "WAITING_CONFIRMATION" /\ tasks[t].ctx = c
  BY DEF Ended, Waiting
<1>10. LaneAConsistent'
  <2>1. \A x \in Ctxs : Open(x)' = Open(x)
    BY <1>2 DEF Open
  <2>2. \A t \in 1..Len(tasks) :
          tasks'[t].status = "WAITING_CLARIFICATION" <=> tasks[t].status = "WAITING_CLARIFICATION"
    BY <1>4, <1>9
  <2>3. \A x \in Ctxs : WaitingAnswer(x)' = WaitingAnswer(x)
    BY <1>1, <1>4, <1>5, <2>2 DEF WaitingAnswer
  <2> QED BY <1>2, <2>1, <2>3 DEF IInv, LaneAConsistent
<1>11. LaneBConsistent'
  <2>1. draft'[c] = 0 /\ \A x \in Ctxs : x # c => draft'[x] = draft[x]
    BY <1>2 DEF IInv, Typed
  <2>2. Waiting(c)' = {}
    <3>1. PICK t \in DOMAIN tasks : Waiting(c) = {t} /\ tasks[t].draft = draft[c]
      BY <1>2 DEF IInv, LaneBConsistent
    <3>2. \A u \in Waiting(c) : Ended(u)
      BY <3>1 DEF Ended
    <3>3. ASSUME NEW u \in Waiting(c)' PROVE FALSE
      <4>1. u \in 1..Len(tasks) /\ tasks'[u].ctx = c /\ tasks'[u].status = "WAITING_CONFIRMATION"
        BY <1>5 DEF Waiting
      <4>2. ~Ended(u)
        BY <1>4, <4>1
      <4>3. u \in Waiting(c)
        BY <1>1, <1>4, <4>1, <4>2 DEF Waiting
      <4> QED BY <3>2, <4>2, <4>3
    <3> QED BY <3>3
  <2>3. ASSUME NEW x \in Ctxs, x # c
        PROVE  Waiting(x)' = Waiting(x) /\ \A t \in Waiting(x) : tasks'[t] = tasks[t]
    <3>1. \A t \in 1..Len(tasks) : tasks[t].ctx = x => tasks'[t] = tasks[t]
      BY <1>4, <1>9, <2>3
    <3> QED BY <1>1, <1>4, <1>5, <3>1 DEF Waiting
  <2>4. ASSUME NEW x \in Ctxs, x # c
        PROVE  IF draft'[x] = 0
               THEN Waiting(x)' = {}
               ELSE \E t \in DOMAIN tasks' : Waiting(x)' = {t} /\ tasks'[t].draft = draft'[x]
    <3>1. IF draft[x] = 0
          THEN Waiting(x) = {}
          ELSE \E t \in DOMAIN tasks : Waiting(x) = {t} /\ tasks[t].draft = draft[x]
      BY DEF IInv, LaneBConsistent
    <3> QED BY <1>1, <1>5, <2>1, <2>3, <2>4, <3>1
  <2> QED BY <2>1, <2>2, <2>4 DEF LaneBConsistent
<1> QED BY <1>6, <1>7, <1>8, <1>10, <1>11 DEF IInv

-----------------------------------------------------------------------------
(* The theorems.                                                           *)

LEMMA NextIInv == ASSUME DialogueAssumption, IInv, [Next]_vars PROVE IInv'
<1>1. ASSUME NEW h \in Handlers, NEW c \in Ctxs, Start(h, c) PROVE IInv'
  BY <1>1, StartIInv
<1>2. ASSUME NEW h \in Handlers, Commit(h) PROVE IInv'
  BY <1>2, CommitIInv
<1>3. ASSUME NEW h \in Handlers, Abandon(h) PROVE IInv'
  BY <1>3, AbandonIInv
<1>4. ASSUME NEW c \in Ctxs, ReviewDraft(c) PROVE IInv'
  BY <1>4, ReviewDraftIInv
<1>5. ASSUME NEW c \in Ctxs, ConfirmDraft(c) PROVE IInv'
  BY <1>5, ConfirmDraftIInv
<1>6. CASE ReservationExpires
  BY <1>6, ReservationExpiresIInv
<1>7. ASSUME NEW r \in DOMAIN rows, QuestionExpires(r) PROVE IInv'
  BY <1>7, QuestionExpiresIInv
<1>8. CASE UNCHANGED vars
  BY <1>8, LanesUntouched DEF vars, IInv, Typed, TurnsSound, SecondOfFirst
<1> QED BY <1>1, <1>2, <1>3, <1>4, <1>5, <1>6, <1>7, <1>8 DEF Next

LEMMA IInvHolds == Spec => []IInv
<1>1. Init => IInv
  BY InitIInv, DialogueAssumption
<1>2. IInv /\ [Next]_vars => IInv'
  BY NextIInv, DialogueAssumption
<1> QED BY <1>1, <1>2, PTL DEF Spec

\* In every committed state, for every number of browser sessions: the pointer
\* at a question, the one open clarification and the one task that waits for the
\* answer say the same, and the draft HR can confirm is that of the one task
\* that waits for a confirmation (apply_dialogue_commit, confirm_job_draft).
THEOREM LanesAlwaysConsistent == Spec => []LanesConsistent
<1>1. IInv => LanesConsistent
  BY DEF IInv, LanesConsistent
<1> QED BY <1>1, IInvHolds, PTL

\* What is live now is resolved by this exchange, the next one after the question.
LEMMA LiveAnswer ==
    ASSUME IInv, NEW r \in DOMAIN rows, Live(r)
    PROVE  /\ ~rows[r].late
           /\ Len(log) + 1 = rows[r].asked + 1
           /\ rows[r].source = rows[r].asked - (rows[r].attempt - 1)
<1>1. rows[r] \in RowRecs /\ Len(log) \in Nat
  BY SeqIsFunction DEF IInv
<1>2. ~rows[r].late /\ rows[r].asked = Len(log) /\ rows[r].attempt \in {1, 2}
  BY <1>1, RowFields DEF Live, QuestionIsLast
<1>3. CASE rows[r].attempt = 1
  <2>1. rows[r].source = rows[r].asked
    BY <1>3 DEF IInv, RowsSound
  <2> QED BY <1>1, <1>2, <1>3, <2>1
<1>4. CASE rows[r].attempt = 2
  <2>1. /\ rows[r].pred \in DOMAIN rows
        /\ rows[rows[r].pred].asked = Len(log) - 1
        /\ rows[rows[r].pred].attempt = 1
        /\ rows[rows[r].pred].source = rows[r].source
    BY <1>4 DEF IInv, RowsSound, Live, QuestionIsLast
  <2>2. rows[rows[r].pred].source = rows[rows[r].pred].asked
    BY <2>1 DEF IInv, RowsSound
  <2> QED BY <1>1, <1>2, <1>4, <2>1, <2>2
<1> QED BY <1>2, <1>3, <1>4

LEMMA CommitAnswers ==
    ASSUME IInv, NEW h \in Handlers, Commit(h), NEW r \in DOMAIN rows,
           rows[r].status = "OPEN", rows'[r].status = "RESOLVED"
    PROVE  Live(r) /\ Len(log') = Len(log) + 1
<1>1. PICK c \in Ctxs, s \in SayRecs, d \in Nat, T \in Seq(TaskRecs), A \in Seq(RowRecs) :
        \E R : CommitsAs(h, c, s, d, T, A, R)
  BY CommitParts, Zenon
<1>2. PICK R : CommitsAs(h, c, s, d, T, A, R)
  BY <1>1
<1>3. /\ Typed /\ Coherent(s) /\ Answers(c, s) /\ SecondOfFirst(s)
      /\ c = turn[h].ctx /\ s = turn[h].say
      /\ A = Asked(c, s, Len(T)) /\ rows' = RetiredRows(A, R)
  BY <1>2 DEF CommitsAs, IInv
<1>4. RowsAre(c, s, Len(T), A)
  <2>1. Len(T) \in Nat
    BY LenProperties
  <2> QED BY <1>3, <2>1, RowsRewritten, Zenon
<1>5. r \in 1..Len(rows) /\ r \in 1..Len(A) /\ r # 0
  <2>1. Len(rows) \in Nat /\ r \in 1..Len(rows)
    BY <1>3, SeqIsFunction
  <2>2. Len(A) = Len(rows) \/ Len(A) = Len(rows) + 1
    BY <1>4, Zenon DEF RowsAre
  <2> QED BY <2>1, <2>2
<1>6. A[r].status = "RESOLVED"
  <2>1. \A x \in 1..Len(A) :
          /\ rows'[x].ctx = A[x].ctx /\ rows'[x].task = A[x].task
          /\ rows'[x].status = IF A[x].task \in R THEN "DELETED" ELSE A[x].status
    BY <1>3, RowsRetired
  <2> QED BY <1>5, <2>1
<1>7. r = s.row /\ s.to = "RESOLVED"
  <2>1. r # s.row => A[r] = rows[r]
    BY <1>4, <1>5, Zenon DEF RowsAre
  <2>2. r = s.row
    BY <1>6, <2>1
  <2>3. s.row # 0 /\ (A[s.row].status = "RESOLVED" => s.to = "RESOLVED")
    BY <1>4, <1>5, <2>2, Zenon DEF RowsAre
  <2> QED BY <1>6, <2>2, <2>3
<1>8. s.live
  BY <1>3, <1>7 DEF Coherent
<1>9. Unchanged(c, s)
  BY <1>3 DEF Commit
<1>10. Live(r)
  BY <1>5, <1>7, <1>8, <1>9, Zenon DEF Unchanged
<1>11. Len(log') = Len(log) + 1
  <2>1. \E e \in {"plain", "draft"} : log' = Append(log, e)
    BY DEF Commit
  <2> QED BY <1>3, <2>1, AppendProperties DEF Typed
<1> QED BY <1>10, <1>11

\* A clarification is resolved only by the very next exchange of the
\* conversation, in time, and a second attempt still binds the message the first
\* one asked about (liveness_failure, judged again in lock_dialogue_rows), for
\* every interleaving of turns, reviews and confirmations.
THEOREM AnswersFollowQuestions == Spec => AnswerFollowsQuestion
<1> DEFINE Bound(r) ==
             rows[r].status = "OPEN" /\ rows'[r].status = "RESOLVED" =>
               /\ ~rows[r].late
               /\ Len(log') = rows[r].asked + 1
               /\ rows[r].source = rows[r].asked - (rows[r].attempt - 1)
<1>1. IInv /\ [Next]_vars => [\A r \in DOMAIN rows : Bound(r)]_vars
  <2> SUFFICES ASSUME IInv, Next, NEW r \in DOMAIN rows,
                      rows[r].status = "OPEN", rows'[r].status = "RESOLVED"
               PROVE  /\ ~rows[r].late
                      /\ Len(log') = rows[r].asked + 1
                      /\ rows[r].source = rows[r].asked - (rows[r].attempt - 1)
    OBVIOUS
  <2>1. CASE UNCHANGED rows
    BY <2>1
  <2>2. ASSUME NEW q \in DOMAIN rows, QuestionExpires(q) PROVE FALSE
    <3>1. rows' = [rows EXCEPT ![q].late = TRUE] /\ rows[q] \in RowRecs /\ rows[r] \in RowRecs
      BY <2>2, SeqIsFunction DEF IInv, QuestionExpires
    <3> QED BY <3>1 DEF RowRecs
  <2>3. ASSUME NEW h \in Handlers, Commit(h)
        PROVE  /\ ~rows[r].late
               /\ Len(log') = rows[r].asked + 1
               /\ rows[r].source = rows[r].asked - (rows[r].attempt - 1)
    <3>1. Live(r) /\ Len(log') = Len(log) + 1
      BY <2>3, CommitAnswers
    <3> QED BY <3>1, LiveAnswer
  <2>4. Next => \/ UNCHANGED rows
                \/ \E q \in DOMAIN rows : QuestionExpires(q)
                \/ \E h \in Handlers : Commit(h)
    BY DEF Next, Start, Abandon, ReviewDraft, ConfirmDraft, ReservationExpires
  <2> QED BY <2>1, <2>2, <2>3, <2>4
<1> QED BY <1>1, IInvHolds, PTL DEF Spec, AnswerFollowsQuestion

-----------------------------------------------------------------------------
(* One draft.                                                              *)

CriterionRecs == [id : Spans, subject : Subjects, type : Types, years : Years \cup {Unset}]

AmendmentRecs ==
    [criterion : Spans, field : {"type"}, previous : Types, new : Types]
    \cup [criterion : Spans, field : {"years"}, previous : Years, new : Years]

Parameters == [type : Types \cup {Unset}, years : Years \cup {Unset}]

ItemRecs ==
    [span : Spans, spans : SUBSET Spans, subject : Subjects, years : Years \cup {Unset},
     allowed : SUBSET Types, options : SUBSET Parameters, blocking : BOOLEAN,
     excluded : BOOLEAN]

DraftTyped ==
    /\ source \in Sources
    /\ requirements \in [Spans -> [state : {"UNREAD", "SCORABLE", "REVIEW", "OUTSIDE"},
                                   type : Types \cup {Unset}, criterion : Spans \cup {Unset}]]
    /\ criteria \subseteq CriterionRecs /\ needsReview \subseteq ItemRecs
    /\ decisions \in [Spans -> Types \cup {"EXCLUDED", Unset}]
    /\ amendments \in Seq(AmendmentRecs)

Scorable(s) == requirements[s].state = "SCORABLE"

\* Nothing has been done to a text that has not been read.
Unread ==
    stage = "text" =>
        /\ criteria = {} /\ needsReview = {} /\ resolutions = {} /\ lateJoins = {}
        /\ amendments = <<>>
        /\ \A s \in Spans : ~Scorable(s) /\ decisions[s] = Unset

\* An item for review stands for the readings of its own spans: several that do
\* not agree, or one.
ItemSound(item) ==
    /\ item.span \in item.spans /\ item.spans \subseteq Spans
    /\ item.excluded => item.blocking
    /\ \/ /\ item.allowed = {} /\ item.blocking = TRUE
          /\ item.options = {Params(source[s]) : s \in item.spans}
          /\ Cardinality(item.options) > 1
          /\ \A s \in item.spans : source[s].subject = item.subject /\ source[s].type \in Types
       \/ /\ item.spans = {item.span} /\ item.options = {}
          /\ item.allowed \in {{}, Types}
          /\ item.allowed # {} => source[item.span].type = Unset
          /\ item.subject = source[item.span].subject /\ item.years = source[item.span].years
          /\ item.blocking = (source[item.span].type = "MUST_HAVE")

\* What waits for HR is not scored yet, and only an exclusion was decided about it.
ItemsWait ==
    /\ \A item \in needsReview :
          /\ ItemSound(item)
          /\ \A s \in item.spans :
                /\ ~Scorable(s)
                /\ decisions[s] = IF s = item.span /\ item.excluded THEN "EXCLUDED" ELSE Unset
    /\ \A i, j \in needsReview : i.spans \cap j.spans # {} => i = j

\* Every span the draft may not ignore is scored or waits for HR.
Accounted ==
    stage # "text" =>
        \A s \in Spans : Interpretable(s) =>
            Scorable(s) \/ \E item \in needsReview : s \in item.spans

\* A settled conflict is scored with one of its own readings.
Settlements ==
    /\ \A r \in resolutions :
          /\ r.spans \subseteq Spans
          /\ r.options = {Params(source[s]) : s \in r.spans} /\ Cardinality(r.options) > 1
          /\ r.chosen \in r.options /\ r.chosen.type \in Types
          /\ \A s \in r.spans : Scorable(s)
    /\ \A q, r \in resolutions : q.spans \cap r.spans # {} => q = r

\* A modality is clicked only where the text gives none; an exclusion is that
\* of an item still shown.
DecisionsSound ==
    \A s \in Spans :
        /\ decisions[s] \in Types =>
              Scorable(s) /\ source[s].type = Unset /\ \A r \in resolutions : s \notin r.spans
        /\ decisions[s] = "EXCLUDED" =>
              \E item \in needsReview : item.excluded /\ item.span = s
        /\ Scorable(s) =>
              \/ \E r \in resolutions : s \in r.spans
              \/ decisions[s] \in Types
              \/ source[s].type \in Types

\* A criterion bears the number of one of its spans, and each of its spans its values.
CriteriaSound ==
    /\ \A c, d \in criteria : c.id = d.id \/ c.subject = d.subject => c = d
    /\ \A c \in criteria : Scorable(c.id) /\ requirements[c.id].criterion = c.id
    /\ \A s \in Spans : Scorable(s) =>
          \E c \in criteria : /\ c.id = requirements[s].criterion
                              /\ c.type = requirements[s].type
                              /\ c.subject = source[s].subject
    /\ \A i \in DOMAIN amendments : \E c \in criteria : c.id = amendments[i].criterion

\* Until a late join, the follow-ups on a criterion lead to it from each span.
OriginsLead ==
    lateJoins = {} =>
        \A c \in criteria : \A s \in Supporting(c) :
            /\ Replays(OriginOf(s), c)
            /\ \A t \in Supporting(c) : OriginOf(t) = OriginOf(s)

Sealed == stage = "confirmed" => ~RequiresResolution /\ Proven

DraftInv ==
    /\ DraftTyped /\ Unread /\ ItemsWait /\ Accounted /\ Settlements /\ DecisionsSound
    /\ CriteriaSound /\ OriginsLead /\ Sealed

-----------------------------------------------------------------------------
(* Least and greatest numbers.                                             *)

LEMMA LeastNatural ==
    ASSUME NEW S \in SUBSET Nat, S # {}
    PROVE  \E i \in S : \A j \in S : i <= j
<1>1. PICK i \in S : \A j \in S : ~(<<j, i>> \in OpToRel(<, Nat))
  BY WFMin, NatLessThanWellFounded
<1>2. \A j \in S : ~(j < i)
  BY <1>1 DEF OpToRel
<1> QED
  BY <1>2

LEMMA MinIn ==
    ASSUME NEW S \in SUBSET Nat, S # {}
    PROVE  Min(S) \in S /\ \A j \in S : Min(S) <= j
<1>1. \E i \in S : \A j \in S : i <= j
  BY LeastNatural
<1> QED
  BY <1>1 DEF Min

LEMMA MaxIs ==
    ASSUME NEW S \in SUBSET Nat, NEW n \in S, \A j \in S : j <= n
    PROVE  Max(S) = n
<1>1. \A m \in S : (\A j \in S : m >= j) => m = n
  OBVIOUS
<1>2. \E m \in S : \A j \in S : m >= j
  OBVIOUS
<1> QED
  BY <1>1, <1>2 DEF Max

LEMMA MaxIn ==
    ASSUME NEW n \in Nat, NEW S \in SUBSET (1..n), S # {}
    PROVE  Max(S) \in S
<1> DEFINE D == {n - j : j \in S}
<1>1. D \in SUBSET Nat /\ D # {}
  <2>1. \A j \in S : n - j \in Nat
    OBVIOUS
  <2> QED
    BY <2>1
<1>2. PICK d \in D : \A e \in D : d <= e
  BY <1>1, LeastNatural
<1>3. PICK m \in S : d = n - m
  BY <1>2
<1>4. \A j \in S : n - m <= n - j
  BY <1>2, <1>3
<1>5. \A j \in S : m >= j
  BY <1>4
<1> QED
  BY <1>5 DEF Max

LEMMA OneOfFew ==
    ASSUME NEW S, IsFiniteSet(S), ~(Cardinality(S) > 1), NEW a \in S, NEW b \in S
    PROVE  a = b
<1>1. Cardinality(S) \in Nat
  BY FS_CardinalityType
<1>2. Cardinality(S) # 0
  BY FS_EmptySet
<1>3. Cardinality(S) = 1
  BY <1>1, <1>2
<1> QED
  BY <1>3, FS_Singleton

-----------------------------------------------------------------------------
(* Follow-ups upon follow-ups.                                             *)

Past(A, id, field, i) == {j \in 1..(i - 1) : A[j].criterion = id /\ A[j].field = field}

ValueIn(A, origin, id, field, i) ==
    IF Past(A, id, field, i) = {} THEN origin[field] ELSE A[Max(Past(A, id, field, i))].new

Leads(A, origin, c) ==
    /\ \A i \in DOMAIN A : A[i].criterion = c.id =>
          /\ A[i].previous # Unset
          /\ A[i].previous = ValueIn(A, origin, c.id, A[i].field, i)
    /\ \A field \in {"type", "years"} :
          c[field] = ValueIn(A, origin, c.id, field, Len(A) + 1)

LEMMA ReplaysLeads ==
    ASSUME NEW o, NEW c
    PROVE  (Replays(o, c) <=> Leads(amendments, o, c)) /\ (Replays(o, c)' <=> Leads(amendments', o, c))
  BY DEF Replays, Leads, ValueAt, ValueIn, Past

\* Without a follow-up a criterion is what its origin gives.
LEMMA LeadsUntouched ==
    ASSUME NEW A \in Seq(AmendmentRecs), NEW o, NEW c,
           \A i \in DOMAIN A : A[i].criterion # c.id
    PROVE  Leads(A, o, c) <=> c["type"] = o["type"] /\ c["years"] = o["years"]
<1>1. Len(A) \in Nat /\ DOMAIN A = 1..Len(A)
  BY LenProperties
<1>2. (Len(A) + 1) - 1 = Len(A)
  BY <1>1
<1>3. \A field : Past(A, c.id, field, Len(A) + 1) = {}
  BY <1>1, <1>2 DEF Past
<1>4. \A field : ValueIn(A, o, c.id, field, Len(A) + 1) = o[field]
  BY <1>3 DEF ValueIn
<1> QED
  BY <1>4 DEF Leads

\* One more follow-up leaves the values before it as they were.
LEMMA EarlierValues ==
    ASSUME NEW A \in Seq(AmendmentRecs), NEW e \in AmendmentRecs, NEW o, NEW id, NEW field,
           NEW i \in 1..(Len(A) + 1)
    PROVE  ValueIn(Append(A, e), o, id, field, i) = ValueIn(A, o, id, field, i)
<1> DEFINE P == Past(A, id, field, i)
<1>1. Len(A) \in Nat /\ i \in Nat /\ i - 1 \in Nat /\ i - 1 <= Len(A)
  BY LenProperties
<1>2. \A j \in 1..Len(A) : Append(A, e)[j] = A[j]
  BY AppendProperties, LenProperties
<1>3. \A j \in 1..(i - 1) : Append(A, e)[j] = A[j]
  BY <1>1, <1>2
<1>4. Past(Append(A, e), id, field, i) = P
  BY <1>3 DEF Past
<1>5. CASE P = {}
  BY <1>4, <1>5 DEF ValueIn
<1>6. CASE P # {}
  <2>1. P \in SUBSET (1..(i - 1))
    BY DEF Past
  <2>2. Max(P) \in 1..(i - 1)
    BY <1>1, <1>6, <2>1, MaxIn
  <2> QED
    BY <1>3, <1>4, <1>6, <2>2 DEF ValueIn
<1> QED
  BY <1>5, <1>6

\* What a follow-up on this parameter of this criterion leaves behind it.
LEMMA LastValue ==
    ASSUME NEW A \in Seq(AmendmentRecs), NEW e \in AmendmentRecs, NEW o, NEW id, NEW field
    PROVE  ValueIn(Append(A, e), o, id, field, Len(A) + 2) =
               IF e.criterion = id /\ e.field = field THEN e.new
               ELSE ValueIn(A, o, id, field, Len(A) + 1)
<1> DEFINE B == Append(A, e)
           P == Past(A, id, field, Len(A) + 1)
           Q == Past(B, id, field, Len(A) + 2)
<1>1. Len(A) \in Nat /\ (Len(A) + 1) - 1 = Len(A) /\ (Len(A) + 2) - 1 = Len(A) + 1
  BY LenProperties
<1>2. \A j \in 1..Len(A) : B[j] = A[j]
  BY AppendProperties, LenProperties
<1>3. B[Len(A) + 1] = e
  BY AppendProperties
<1>4. \A j \in 1..(Len(A) + 1) : j = Len(A) + 1 \/ j \in 1..Len(A)
  BY <1>1
<1>5. CASE e.criterion = id /\ e.field = field
  <2>1. Len(A) + 1 \in Q
    BY <1>1, <1>3, <1>5 DEF Past
  <2>2. Q \in SUBSET Nat /\ \A j \in Q : j <= Len(A) + 1
    BY <1>1 DEF Past
  <2>3. Max(Q) = Len(A) + 1
    BY <2>1, <2>2, MaxIs
  <2> QED
    BY <1>3, <1>5, <2>1, <2>3 DEF ValueIn
<1>6. CASE ~(e.criterion = id /\ e.field = field)
  <2>1. Q = P
    BY <1>1, <1>2, <1>3, <1>4, <1>6 DEF Past
  <2>2. CASE P = {}
    BY <1>6, <2>1, <2>2 DEF ValueIn
  <2>3. CASE P # {}
    <3>1. P \in SUBSET (1..Len(A))
      BY <1>1 DEF Past
    <3>2. Max(P) \in 1..Len(A)
      BY <1>1, <2>3, <3>1, MaxIn
    <3> QED
      BY <1>2, <1>6, <2>1, <2>3, <3>2 DEF ValueIn
  <2> QED
    BY <2>2, <2>3
<1> QED
  BY <1>5, <1>6

LEMMA AppendShape ==
    ASSUME NEW A \in Seq(AmendmentRecs), NEW e \in AmendmentRecs
    PROVE  /\ Append(A, e) \in Seq(AmendmentRecs)
           /\ Len(Append(A, e)) = Len(A) + 1
           /\ DOMAIN A = 1..Len(A) /\ DOMAIN Append(A, e) = 1..(Len(A) + 1)
           /\ \A i \in DOMAIN A : Append(A, e)[i] = A[i]
           /\ Append(A, e)[Len(A) + 1] = e
           /\ \A i \in DOMAIN Append(A, e) : i \in DOMAIN A \/ i = Len(A) + 1
           /\ DOMAIN A \subseteq 1..(Len(A) + 1) /\ Len(A) + 1 \in 1..(Len(A) + 1)
           /\ (Len(A) + 1) + 1 = Len(A) + 2
<1>1. Len(A) \in Nat /\ DOMAIN A = 1..Len(A)
  BY LenProperties
<1>2. /\ Append(A, e) \in Seq(AmendmentRecs)
      /\ Len(Append(A, e)) = Len(A) + 1
      /\ \A i \in 1..Len(A) : Append(A, e)[i] = A[i]
      /\ Append(A, e)[Len(A) + 1] = e
  BY AppendProperties
<1>3. DOMAIN Append(A, e) = 1..(Len(A) + 1)
  BY <1>2, LenProperties
<1>4. \A i \in 1..(Len(A) + 1) : i \in 1..Len(A) \/ i = Len(A) + 1
  BY <1>1
<1>5. 1..Len(A) \subseteq 1..(Len(A) + 1) /\ Len(A) + 1 \in 1..(Len(A) + 1)
  BY <1>1
<1>6. (Len(A) + 1) + 1 = Len(A) + 2
  BY <1>1
<1> QED
  BY <1>1, <1>2, <1>3, <1>4, <1>5, <1>6

\* A follow-up on another criterion.
LEMMA LeadsBesides ==
    ASSUME NEW A \in Seq(AmendmentRecs), NEW e \in AmendmentRecs, NEW o, NEW c,
           Leads(A, o, c), e.criterion # c.id
    PROVE  Leads(Append(A, e), o, c)
<1>1. \A i \in DOMAIN A : \A field :
          ValueIn(Append(A, e), o, c.id, field, i) = ValueIn(A, o, c.id, field, i)
  BY AppendShape, EarlierValues
<1>2. \A field : ValueIn(Append(A, e), o, c.id, field, Len(A) + 2) = ValueIn(A, o, c.id, field, Len(A) + 1)
  BY LastValue
<1> QED
  BY <1>1, <1>2, AppendShape DEF Leads

\* A follow-up on the criterion itself, upon its present value.
LEMMA LeadsOn ==
    ASSUME NEW A \in Seq(AmendmentRecs), NEW e \in AmendmentRecs, NEW o, NEW c, NEW d,
           Leads(A, o, c), e.criterion = c.id, d.id = c.id,
           e.previous # Unset, e.previous = c[e.field],
           \A field \in {"type", "years"} : d[field] = IF field = e.field THEN e.new ELSE c[field]
    PROVE  Leads(Append(A, e), o, d)
<1>1. \A i \in DOMAIN Append(A, e) : \A field :
          ValueIn(Append(A, e), o, c.id, field, i) = ValueIn(A, o, c.id, field, i)
  BY AppendShape, EarlierValues
<1>2. \A field : ValueIn(Append(A, e), o, c.id, field, Len(A) + 2) =
          IF e.field = field THEN e.new ELSE ValueIn(A, o, c.id, field, Len(A) + 1)
  BY LastValue
<1>3. e.field \in {"type", "years"}
  BY DEF AmendmentRecs
<1>4. \A i \in DOMAIN Append(A, e) : Append(A, e)[i].criterion = d.id =>
         /\ Append(A, e)[i].previous # Unset
         /\ Append(A, e)[i].previous = ValueIn(Append(A, e), o, d.id, Append(A, e)[i].field, i)
  <2>1. SUFFICES ASSUME NEW i \in DOMAIN Append(A, e), Append(A, e)[i].criterion = d.id
                 PROVE  /\ Append(A, e)[i].previous # Unset
                        /\ Append(A, e)[i].previous = ValueIn(A, o, c.id, Append(A, e)[i].field, i)
    BY <1>1
  <2>2. CASE i \in DOMAIN A
    BY <2>1, <2>2, AppendShape DEF Leads
  <2>3. CASE i = Len(A) + 1
    BY <1>3, <2>3, AppendShape DEF Leads
  <2> QED
    BY <2>2, <2>3, AppendShape
<1>5. \A field \in {"type", "years"} :
         d[field] = ValueIn(Append(A, e), o, d.id, field, Len(Append(A, e)) + 1)
  BY <1>2, AppendShape DEF Leads
<1> QED
  BY <1>4, <1>5 DEF Leads

-----------------------------------------------------------------------------
(* Readings, and what a draft makes of them.                               *)

Readings(src) ==
    \A s \in Spans : /\ src[s].subject \in Subjects
                     /\ src[s].type \in Types \cup {Unset}
                     /\ src[s].years \in Years \cup {Unset}

\* What is read without doubt, or with one a proposal lifts, has a modality.
LEMMA ReadableHasType ==
    ASSUME DraftAssumption, NEW r, Reason(r) \in Liftable \cup {Unset}
    PROVE  r.type # Unset
<1>1. SUFFICES ASSUME r.type = Unset PROVE FALSE
  OBVIOUS
<1> DEFINE hits == {i \in DOMAIN Priority : Priority[i] \in Found(r)}
<1>2. DOMAIN Priority = 1..15 /\ Priority[9] = "MODALITY_UNKNOWN"
  BY DEF Priority
<1>3. "MODALITY_UNKNOWN" \in Found(r)
  BY <1>1 DEF Found
<1>4. 9 \in hits /\ hits \in SUBSET Nat
  BY <1>2, <1>3
<1>5. Min(hits) \in hits /\ Min(hits) <= 9
  BY <1>4, MinIn
<1>6. Reason(r) = Priority[Min(hits)]
  BY <1>4 DEF Reason
<1>7. Reason(r) # Unset
  BY <1>5, <1>6 DEF DraftAssumption
<1> HIDE DEF hits
<1>8. \A i \in 1..15 : i <= 9 => Priority[i] \notin {"RAW_SUBJECT", "PERSON"}
  BY DEF Priority
<1>9. Reason(r) \notin Liftable
  BY <1>2, <1>5, <1>6, <1>8 DEF Liftable, hits
<1> QED
  BY <1>7, <1>9

LEMMA SymmetricSound ==
    ASSUME DraftAssumption, Readings(source), NEW accepted \in SUBSET Spans
    PROVE  /\ Symmetric(accepted) \subseteq Spans
           /\ \A s \in Symmetric(accepted) : source[s].type \in Types
<1>1. Symmetric(accepted) \subseteq Readable(accepted)
  BY DEF Symmetric
<1>2. \A s \in Readable(accepted) : s \in Spans /\ Reason(source[s]) \in Liftable \cup {Unset}
  BY DEF Readable, Lifted
<1>3. \A s \in Readable(accepted) : source[s].type # Unset
  BY <1>2, ReadableHasType
<1> QED
  BY <1>1, <1>2, <1>3 DEF Readings

LEMMA ParamsFinite ==
    ASSUME DraftAssumption, NEW S \in SUBSET Spans
    PROVE  IsFiniteSet({Params(source[s]) : s \in S})
<1> DEFINE T == {Params(source[s]) : s \in S}
           f == [s \in S |-> Params(source[s])]
<1>1. IsFiniteSet(S)
  BY FS_Subset DEF DraftAssumption
<1>2. f \in Surjection(S, T)
  BY DEF Surjection
<1> QED
  BY <1>1, <1>2, FS_Surjection

LEMMA ClashesSound ==
    ASSUME DraftAssumption, Readings(source), NEW accepted \in SUBSET Spans
    PROVE  /\ \A S \in Clashes(accepted) :
                 /\ S \subseteq Spans /\ S # {} /\ S \cap Settled(accepted) = {}
                 /\ Cardinality({Params(source[s]) : s \in S}) > 1
                 /\ \A s \in S : source[s].type \in Types
                 /\ \A s, t \in S : source[s].subject = source[t].subject
           /\ \A S, T \in Clashes(accepted) : S \cap T # {} => S = T
<1>1. ASSUME NEW S \in Clashes(accepted)
      PROVE  /\ S \subseteq Symmetric(accepted)
             /\ Cardinality({Params(source[s]) : s \in S}) > 1
             /\ S \cap Settled(accepted) = {}
             /\ \E x \in Subjects : S = {s \in Symmetric(accepted) : source[s].subject = x}
  BY <1>1 DEF Clashes, SameSubject, Settled
<1>2. ASSUME NEW S \in Clashes(accepted) PROVE S # {}
  <2>1. SUFFICES ASSUME S = {} PROVE FALSE
    OBVIOUS
  <2>2. {Params(source[s]) : s \in S} = {}
    BY <2>1
  <2> QED
    BY <1>1, <2>2, FS_EmptySet
<1>3. ASSUME NEW S \in Clashes(accepted)
      PROVE  /\ S \subseteq Spans
             /\ \A s \in S : source[s].type \in Types
             /\ \A s, t \in S : source[s].subject = source[t].subject
  <2>1. PICK x \in Subjects : S = {s \in Symmetric(accepted) : source[s].subject = x}
    BY <1>1
  <2>2. \A s, t \in S : source[s].subject = source[t].subject
    BY <2>1
  <2> QED
    BY <1>1, <2>2, SymmetricSound
<1>4. ASSUME NEW S \in Clashes(accepted), NEW T \in Clashes(accepted), S \cap T # {}
      PROVE  S = T
  <2>1. PICK x \in Subjects : S = {s \in Symmetric(accepted) : source[s].subject = x}
    BY <1>1
  <2>2. PICK y \in Subjects : T = {s \in Symmetric(accepted) : source[s].subject = y}
    BY <1>1
  <2>3. x = y
    BY <1>4, <2>1, <2>2
  <2> QED
    BY <2>1, <2>2, <2>3
<1> QED
  BY <1>1, <1>2, <1>3, <1>4

LEMMA SettledSound ==
    ASSUME DraftAssumption, Readings(source), NEW accepted \in SUBSET Spans
    PROVE  /\ Settled(accepted) \subseteq Spans
           /\ \A s \in Settled(accepted) : source[s].type \in Types
           /\ \A s, t \in Settled(accepted) :
                 source[s].subject = source[t].subject => Params(source[s]) = Params(source[t])
<1>1. Settled(accepted) \subseteq Symmetric(accepted)
  BY DEF Settled
<1>2. ASSUME NEW s \in Settled(accepted), NEW t \in Settled(accepted),
             source[s].subject = source[t].subject
      PROVE  Params(source[s]) = Params(source[t])
  <2> DEFINE S == {u \in Symmetric(accepted) : source[u].subject = source[s].subject}
             P == {Params(source[u]) : u \in S}
  <2>1. s \in S /\ t \in S
    BY <1>1, <1>2
  <2>2. S \in SameSubject(accepted)
    BY <1>1, SymmetricSound DEF SameSubject, Readings
  <2>3. S \notin Clashes(accepted)
    BY <2>1 DEF Settled
  <2>4. ~(Cardinality(P) > 1)
    BY <2>2, <2>3 DEF Clashes
  <2>5. IsFiniteSet(P)
    BY SymmetricSound, ParamsFinite
  <2>6. Params(source[s]) \in P /\ Params(source[t]) \in P
    BY <2>1
  <2> HIDE DEF P
  <2> QED
    BY <2>4, <2>5, <2>6, OneOfFew
<1> QED
  BY <1>1, <1>2, SymmetricSound

LEMMA OriginsSound ==
    ASSUME DraftAssumption, NEW S \in SUBSET Spans
    PROVE  /\ \A s \in S : Origin(s, S) \in S /\ source[Origin(s, S)].subject = source[s].subject
           /\ \A s, t \in S :
                 source[s].subject = source[t].subject => Origin(s, S) = Origin(t, S)
<1>1. ASSUME NEW s \in S
      PROVE  Origin(s, S) \in {t \in S : source[t].subject = source[s].subject}
  BY MinIn DEF Origin, DraftAssumption
<1>2. ASSUME NEW s \in S, NEW t \in S, source[s].subject = source[t].subject
      PROVE  Origin(s, S) = Origin(t, S)
  BY <1>2 DEF Origin
<1> QED
  BY <1>1, <1>2

-----------------------------------------------------------------------------
(* Where the parameters of a span come from.                               *)

OriginIn(R, dec, src, s) ==
    IF \E r \in R : s \in r.spans
    THEN (CHOOSE r \in R : s \in r.spans).chosen
    ELSE [type |-> IF dec[s] \in Types THEN dec[s] ELSE src[s].type, years |-> src[s].years]

LEMMA OriginOfIn ==
    ASSUME NEW s
    PROVE  /\ OriginOf(s) = OriginIn(resolutions, decisions, source, s)
           /\ OriginOf(s)' = OriginIn(resolutions', decisions', source', s)
  BY DEF OriginOf, OriginIn

LEMMA OriginSettled ==
    ASSUME NEW R, \A q, r \in R : q.spans \cap r.spans # {} => q = r,
           NEW r \in R, NEW s \in r.spans, NEW dec, NEW src
    PROVE  OriginIn(R, dec, src, s) = r.chosen
<1>1. \A q \in R : s \in q.spans => q = r
  OBVIOUS
<1>2. (CHOOSE q \in R : s \in q.spans) = r
  BY <1>1
<1> QED
  BY <1>2 DEF OriginIn

LEMMA OriginPlain ==
    ASSUME NEW R, NEW s, \A r \in R : s \notin r.spans, NEW dec, NEW src
    PROVE  OriginIn(R, dec, src, s) =
              [type |-> IF dec[s] \in Types THEN dec[s] ELSE src[s].type, years |-> src[s].years]
  BY DEF OriginIn

-----------------------------------------------------------------------------
(* The draft is built.                                                     *)

\* What the draft is, in terms of the scored spans G, the conflicts C and the
\* spans O that stay open, those in H with only their modality in doubt.
BuiltFrom(G, C, O, H) ==
    /\ requirements' = [s \in Spans |->
            IF s \in G
            THEN Requirement("SCORABLE", source[s].type, Origin(s, G))
            ELSE Requirement(IF Interpretable(s) THEN "REVIEW" ELSE "OUTSIDE",
                             source[s].type, Unset)]
    /\ criteria' = {Criterion(Origin(s, G), source[s].subject, Params(source[s])) : s \in G}
    /\ needsReview' = {ConflictItem(S) : S \in C} \cup {ReviewItem(s, s \in H) : s \in O}
    /\ O = {s \in Spans : Interpretable(s)} \ (G \cup UNION C)

\* The sets a draft is built from, and what SettledSound, ClashesSound and
\* OriginsSound say of them.
PartsSound(G, C) ==
    /\ G \subseteq Spans
    /\ \A s \in G : /\ source[s].type \in Types
                    /\ Origin(s, G) \in G /\ source[Origin(s, G)].subject = source[s].subject
    /\ \A s, t \in G : source[s].subject = source[t].subject =>
          Params(source[s]) = Params(source[t]) /\ Origin(s, G) = Origin(t, G)
    /\ \A S \in C :
          /\ S \subseteq Spans /\ S # {} /\ S \cap G = {}
          /\ Cardinality({Params(source[s]) : s \in S}) > 1
          /\ \A s \in S : source[s].type \in Types
          /\ \A s, t \in S : source[s].subject = source[t].subject
    /\ \A S, T \in C : S \cap T # {} => S = T

LEMMA PartsAre ==
    ASSUME DraftAssumption, Readings(source), NEW accepted \in SUBSET Spans, Build(accepted)
    PROVE  \E G, C, O, H : PartsSound(G, C) /\ BuiltFrom(G, C, O, H)
<1> DEFINE G == Settled(accepted)
           C == Clashes(accepted)
           O == {s \in Spans : Interpretable(s)} \ (G \cup UNION C)
           H == {s \in O : ShapedAlone(s) /\ Reason(source[s]) # Unset}
<1>1. PartsSound(G, C)
  <2>1. G \subseteq Spans
    BY SettledSound
  <2>2. \A s \in G : source[s].type \in Types
    BY SettledSound
  <2>3. \A s, t \in G : source[s].subject = source[t].subject => Params(source[s]) = Params(source[t])
    BY SettledSound
  <2>4. /\ \A s \in G : Origin(s, G) \in G /\ source[Origin(s, G)].subject = source[s].subject
        /\ \A s, t \in G : source[s].subject = source[t].subject => Origin(s, G) = Origin(t, G)
    BY <2>1, OriginsSound
  <2> QED
    BY <2>1, <2>2, <2>3, <2>4, ClashesSound DEF PartsSound
<1>2. BuiltFrom(G, C, O, H)
  BY DEF Build, BuiltFrom, ReviewItems
<1> HIDE DEF G, C, O, H
<1> QED
  BY <1>1, <1>2

LEMMA BuildStep ==
    ASSUME DraftAssumption, DraftInv, NEW accepted \in SUBSET Spans, Build(accepted)
    PROVE  DraftInv'
<1>1. source' = source /\ source \in Sources /\ Readings(source)
  BY DEF Build, DraftInv, DraftTyped, DraftAssumption, Readings
<1>2. PICK G, C, O, H : PartsSound(G, C) /\ BuiltFrom(G, C, O, H)
  BY <1>1, PartsAre
<1>3. /\ stage = "text" /\ stage' = "draft"
      /\ decisions' = decisions /\ resolutions' = {} /\ amendments' = <<>> /\ lateJoins' = {}
      /\ \A s \in Spans : decisions'[s] = Unset
      /\ DOMAIN decisions' = Spans
  BY DEF Build, DraftInv, Unread, DraftTyped
<1>4. \A s \in Spans : /\ Scorable(s)' <=> s \in G
                       /\ requirements'[s].type = source[s].type
                       /\ s \in G => requirements'[s].criterion = Origin(s, G)
  BY <1>2 DEF BuiltFrom, Requirement, Scorable
<1>5. \A s \in Spans : Interpretable(s)' <=> Interpretable(s)
  BY <1>1 DEF Interpretable
<1>6. \A i \in needsReview' :
          \/ \E S \in C : i = ConflictItem(S)
          \/ \E s \in O : i = ReviewItem(s, s \in H)
  BY <1>2 DEF BuiltFrom
<1>7. ASSUME NEW S \in C
      PROVE  /\ Min(S) \in S /\ S \subseteq Spans
             /\ \A s \in S : s \notin G /\ source[s].type \in Types
             /\ \A s, t \in S : source[s].subject = source[t].subject
  <2>1. /\ S \subseteq Spans /\ S # {}
        /\ \A s \in S : s \notin G /\ source[s].type \in Types
        /\ \A s, t \in S : source[s].subject = source[t].subject
    BY <1>2 DEF PartsSound
  <2> QED
    BY <2>1, MinIn DEF DraftAssumption
<1>8. \A s \in O : s \in Spans /\ s \notin G /\ \A S \in C : s \notin S
  BY <1>2 DEF BuiltFrom
<1>9. \A S \in C : ConflictItem(S).spans = S
  BY DEF ConflictItem
<1>10. \A s \in O : ReviewItem(s, s \in H).spans = {s}
  BY DEF ReviewItem
<1>11. DraftTyped'
  <2>1. requirements' \in [Spans -> [state : {"UNREAD", "SCORABLE", "REVIEW", "OUTSIDE"},
                                     type : Types \cup {Unset}, criterion : Spans \cup {Unset}]]
    BY <1>1, <1>2 DEF BuiltFrom, PartsSound, Requirement, Readings
  <2>2. criteria' \subseteq CriterionRecs
    BY <1>1, <1>2 DEF BuiltFrom, PartsSound, Criterion, CriterionRecs, Readings, Params
  <2>3. amendments' \in Seq(AmendmentRecs)
    BY <1>3
  <2>4. ASSUME NEW S \in C, NEW i, i = ConflictItem(S) PROVE i \in ItemRecs
    BY <1>1, <1>7, <2>4 DEF ItemRecs, ConflictItem, Parameters, Params, Readings
  <2>5. ASSUME NEW s \in O, NEW i, i = ReviewItem(s, s \in H) PROVE i \in ItemRecs
    BY <1>1, <1>8, <2>5 DEF ItemRecs, ReviewItem, Readings, Blocking
  <2> QED
    BY <1>1, <1>3, <1>6, <2>1, <2>2, <2>3, <2>4, <2>5 DEF DraftTyped, DraftInv
<1>12. Unread'
  BY <1>3 DEF Unread
<1>13. ItemsWait'
  <2>1. ASSUME NEW S \in C, NEW i, i = ConflictItem(S) PROVE ItemSound(i)'
    <3>1. /\ i.span = Min(S) /\ i.spans = S /\ i.subject = source[Min(S)].subject
          /\ i.allowed = {} /\ i.options = {Params(source[s]) : s \in S}
          /\ i.blocking = TRUE /\ i.excluded = FALSE
      BY <2>1 DEF ConflictItem
    <3>2. \A s \in S : source[s].subject = source[Min(S)].subject /\ source[s].type \in Types
      BY <1>7
    <3>3. S \subseteq Spans /\ Min(S) \in S /\ Cardinality({Params(source[s]) : s \in S}) > 1
      BY <1>2, <1>7 DEF PartsSound
    <3> QED
      BY <1>1, <3>1, <3>2, <3>3 DEF ItemSound
  <2>2. ASSUME NEW s \in O, NEW i, i = ReviewItem(s, s \in H) PROVE ItemSound(i)'
    BY <1>1, <1>8, <2>2 DEF ItemSound, ReviewItem, Blocking
  <2>3. \A i \in needsReview' : ItemSound(i)'
    BY <1>6, <2>1, <2>2
  <2>4. \A i \in needsReview' : \A s \in i.spans : s \in Spans /\ s \notin G
    <3>1. SUFFICES ASSUME NEW i \in needsReview', NEW s \in i.spans
                   PROVE  s \in Spans /\ s \notin G
      OBVIOUS
    <3>2. CASE \E S \in C : i = ConflictItem(S)
      BY <1>7, <1>9, <3>1, <3>2
    <3>3. CASE \E t \in O : i = ReviewItem(t, t \in H)
      BY <1>8, <1>10, <3>1, <3>3
    <3> QED
      BY <1>6, <3>2, <3>3
  <2>5. \A i \in needsReview' : ~i.excluded
    BY <1>6 DEF ConflictItem, ReviewItem
  <2>6. \A i, j \in needsReview' : i.spans \cap j.spans # {} => i = j
    <3>1. SUFFICES ASSUME NEW i \in needsReview', NEW j \in needsReview', i.spans \cap j.spans # {}
                   PROVE  i = j
      OBVIOUS
    <3>2. CASE \E S \in C : i = ConflictItem(S)
      BY <1>2, <1>6, <1>8, <1>9, <1>10, <3>1, <3>2 DEF PartsSound
    <3>3. CASE \E s \in O : i = ReviewItem(s, s \in H)
      BY <1>6, <1>8, <1>9, <1>10, <3>1, <3>3
    <3> QED
      BY <1>6, <3>2, <3>3
  <2> QED
    BY <1>3, <1>4, <2>3, <2>4, <2>5, <2>6 DEF ItemsWait
<1>14. Accounted'
  <2>1. SUFFICES ASSUME NEW s \in Spans, Interpretable(s)
                 PROVE  s \in G \/ \E i \in needsReview' : s \in i.spans
    BY <1>4, <1>5 DEF Accounted
  <2>2. CASE s \in G
    BY <2>2
  <2>3. CASE \E S \in C : s \in S
    <3>1. PICK S \in C : s \in S
      BY <2>3
    <3>2. ConflictItem(S) \in needsReview'
      BY <1>2 DEF BuiltFrom
    <3> QED
      BY <1>9, <3>1, <3>2
  <2>4. CASE s \in O
    <3>1. ReviewItem(s, s \in H) \in needsReview'
      BY <1>2, <2>4 DEF BuiltFrom
    <3> QED
      BY <1>10, <2>4, <3>1
  <2>5. s \in G \/ (\E S \in C : s \in S) \/ s \in O
    BY <1>2, <2>1 DEF BuiltFrom
  <2> QED
    BY <2>2, <2>3, <2>4, <2>5
<1>15. Settlements'
  BY <1>3 DEF Settlements
<1>16. DecisionsSound'
  BY <1>1, <1>2, <1>3, <1>4 DEF DecisionsSound, PartsSound, DraftAssumption
<1>17. \A c \in criteria' : \E s \in G :
          c = Criterion(Origin(s, G), source[s].subject, Params(source[s]))
  BY <1>2 DEF BuiltFrom
<1>18. \A s \in G : Criterion(Origin(s, G), source[s].subject, Params(source[s])) \in criteria'
  BY <1>2 DEF BuiltFrom
<1>19. CriteriaSound'
  <2>1. ASSUME NEW c \in criteria', NEW d \in criteria', c.id = d.id \/ c.subject = d.subject
        PROVE  c = d
    <3>1. PICK s \in G : c = Criterion(Origin(s, G), source[s].subject, Params(source[s]))
      BY <1>17
    <3>2. PICK t \in G : d = Criterion(Origin(t, G), source[t].subject, Params(source[t]))
      BY <1>17
    <3>3. Origin(s, G) = Origin(t, G) \/ source[s].subject = source[t].subject
      BY <2>1, <3>1, <3>2 DEF Criterion
    <3>4. source[s].subject = source[t].subject
      BY <1>2, <3>3 DEF PartsSound
    <3>5. Params(source[s]) = Params(source[t]) /\ Origin(s, G) = Origin(t, G)
      BY <1>2, <3>4 DEF PartsSound
    <3> QED
      BY <3>1, <3>2, <3>4, <3>5
  <2>2. ASSUME NEW c \in criteria'
        PROVE  Scorable(c.id)' /\ requirements'[c.id].criterion = c.id
    <3>1. PICK s \in G : c = Criterion(Origin(s, G), source[s].subject, Params(source[s]))
      BY <1>17
    <3>2. c.id = Origin(s, G) /\ c.id \in G /\ source[c.id].subject = source[s].subject
      BY <1>2, <3>1 DEF PartsSound, Criterion
    <3>3. Origin(c.id, G) = Origin(s, G)
      BY <1>2, <3>2 DEF PartsSound
    <3> QED
      BY <1>2, <1>4, <3>2, <3>3 DEF PartsSound
  <2>3. ASSUME NEW s \in Spans, Scorable(s)'
        PROVE  \E c \in criteria' : /\ c.id = requirements'[s].criterion
                                    /\ c.type = requirements'[s].type
                                    /\ c.subject = source'[s].subject
    <3>1. s \in G
      BY <1>4, <2>3
    <3> DEFINE c == Criterion(Origin(s, G), source[s].subject, Params(source[s]))
    <3>2. c.id = Origin(s, G) /\ c.type = source[s].type /\ c.subject = source[s].subject
      BY DEF Criterion, Params
    <3> QED
      BY <1>1, <1>4, <1>18, <3>1, <3>2
  <2>4. DOMAIN amendments' = {}
    BY <1>3
  <2> QED
    BY <2>1, <2>2, <2>3, <2>4 DEF CriteriaSound
<1>20. OriginsLead'
  <2>1. ASSUME NEW c \in criteria', NEW s \in Supporting(c)'
        PROVE  /\ s \in G
               /\ OriginOf(s)' = [type |-> c.type, years |-> c.years]
    <3>1. PICK t \in G : c = Criterion(Origin(t, G), source[t].subject, Params(source[t]))
      BY <1>17
    <3>2. s \in Spans /\ s \in G /\ requirements'[s].criterion = c.id
      BY <1>4, <2>1 DEF Supporting, Scorable
    <3>3. Origin(s, G) = Origin(t, G)
      BY <1>4, <3>1, <3>2 DEF Criterion
    <3>4. source[s].subject = source[t].subject
      BY <1>2, <3>2, <3>3 DEF PartsSound
    <3>5. Params(source[s]) = Params(source[t])
      BY <1>2, <3>2, <3>4 DEF PartsSound
    <3>6. c.type = source[s].type /\ c.years = source[s].years
      BY <3>1, <3>5 DEF Criterion, Params
    <3>7. OriginOf(s)' = OriginIn(resolutions', decisions', source', s)
      BY OriginOfIn
    <3>8. OriginIn(resolutions', decisions', source', s) =
             [type |-> IF decisions'[s] \in Types THEN decisions'[s] ELSE source'[s].type,
              years |-> source'[s].years]
      BY <1>3, OriginPlain
    <3>9. decisions'[s] \notin Types
      BY <1>3, <3>2 DEF DraftAssumption
    <3> QED
      BY <1>1, <3>2, <3>6, <3>7, <3>8, <3>9
  <2>2. ASSUME NEW c \in criteria', NEW o, o = [type |-> c.type, years |-> c.years]
        PROVE  Replays(o, c)'
    <3>1. \A i \in DOMAIN <<>> : <<>>[i].criterion # c.id
      OBVIOUS
    <3>2. <<>> \in Seq(AmendmentRecs)
      OBVIOUS
    <3>3. Leads(<<>>, o, c)
      BY <2>2, <3>1, <3>2, LeadsUntouched
    <3> QED
      BY <1>3, <3>3, ReplaysLeads
  <2> QED
    BY <2>1, <2>2 DEF OriginsLead
<1>21. Sealed'
  BY <1>3 DEF Sealed
<1> QED
  BY <1>11, <1>12, <1>13, <1>14, <1>15, <1>16, <1>19, <1>20, <1>21 DEF DraftInv

-----------------------------------------------------------------------------
(* HR's clicks.                                                            *)

LEMMA OriginShape ==
    ASSUME Settlements, NEW s
    PROVE  OriginOf(s) = [type |-> OriginOf(s)["type"], years |-> OriginOf(s)["years"]]
<1>1. CASE \E r \in resolutions : s \in r.spans
  <2>1. PICK r \in resolutions : s \in r.spans
    BY <1>1
  <2>2. OriginOf(s) = r.chosen
    BY <2>1, OriginOfIn, OriginSettled DEF Settlements
  <2>3. \E t \in r.spans : r.chosen = Params(source[t])
    BY DEF Settlements
  <2> QED
    BY <2>2, <2>3 DEF Params
<1>2. CASE ~\E r \in resolutions : s \in r.spans
  BY <1>2 DEF OriginOf
<1> QED
  BY <1>1, <1>2

\* A span waiting for HR is no criterion's number, nor that of a follow-up.
LEMMA WaitingIsNew ==
    ASSUME DraftTyped, CriteriaSound, Settlements, NEW t \in Spans, ~Scorable(t)
    PROVE  /\ \A c \in criteria : c.id # t
           /\ \A s \in Spans : Scorable(s) => requirements[s].criterion # t
           /\ \A i \in DOMAIN amendments : amendments[i].criterion # t
           /\ \A r \in resolutions : t \notin r.spans
  BY DEF CriteriaSound, Settlements

\* What a click does to the spans it makes scorable: they join criterion e,
\* which is new or has their parameters, and is followed up by nothing unless
\* the join is a late one.
Joins(spans, e) ==
    /\ spans \subseteq Spans /\ spans # {} /\ \A s \in spans : ~Scorable(s)
    /\ e \in CriterionRecs /\ criteria' = criteria \cup {e}
    /\ \A c \in criteria : c.id = e.id \/ c.subject = e.subject => c = e
    /\ requirements' = [s \in Spans |-> IF s \in spans THEN Requirement("SCORABLE", e.type, e.id)
                                        ELSE requirements[s]]
    /\ \A s \in spans : source[s].subject = e.subject
    /\ e \notin criteria => e.id \in spans
    /\ source' = source /\ amendments' = amendments
    /\ lateJoins' = {} =>
          lateJoins = {} /\ \A i \in DOMAIN amendments : amendments[i].criterion # e.id
    /\ \A s \in spans : OriginOf(s)' = [type |-> e.type, years |-> e.years]
    /\ \A s \in Spans \ spans : OriginOf(s)' = OriginOf(s)

LEMMA JoinsSound ==
    ASSUME DraftAssumption, DraftInv, NEW spans, NEW e, Joins(spans, e)
    PROVE  CriteriaSound' /\ OriginsLead' /\ criteria' \subseteq CriterionRecs
           /\ requirements' \in [Spans -> [state : {"UNREAD", "SCORABLE", "REVIEW", "OUTSIDE"},
                                           type : Types \cup {Unset}, criterion : Spans \cup {Unset}]]
           /\ \A s \in Spans : Scorable(s)' <=> Scorable(s) \/ s \in spans
<1>1. \A s \in Spans : Scorable(s)' <=> Scorable(s) \/ s \in spans
  BY DEF Joins, Scorable, Requirement
<1>2. \A s \in Spans : s \notin spans => requirements'[s] = requirements[s]
  BY DEF Joins
<1>3. \A s \in spans : /\ s \in Spans /\ requirements'[s].criterion = e.id
                       /\ requirements'[s].type = e.type
  BY DEF Joins, Requirement
<1>4. /\ criteria' \subseteq CriterionRecs
      /\ requirements' \in [Spans -> [state : {"UNREAD", "SCORABLE", "REVIEW", "OUTSIDE"},
                                      type : Types \cup {Unset}, criterion : Spans \cup {Unset}]]
  BY DEF Joins, DraftInv, DraftTyped, Requirement, CriterionRecs
<1>5. CriteriaSound'
  <2>1. ASSUME NEW c \in criteria', NEW d \in criteria', c.id = d.id \/ c.subject = d.subject
        PROVE  c = d
    BY <2>1 DEF Joins, DraftInv, CriteriaSound
  <2>2. ASSUME NEW c \in criteria' PROVE Scorable(c.id)' /\ requirements'[c.id].criterion = c.id
    <3>1. CASE c \in criteria
      <4>1. Scorable(c.id) /\ requirements[c.id].criterion = c.id /\ c.id \in Spans
        BY <3>1 DEF DraftInv, CriteriaSound, DraftTyped, CriterionRecs
      <4>2. c.id \notin spans
        BY <4>1 DEF Joins
      <4> QED
        BY <1>1, <1>2, <4>1, <4>2
    <3>2. CASE c \notin criteria
      <4>1. c = e /\ e.id \in spans
        BY <3>2 DEF Joins
      <4> QED
        BY <1>1, <1>3, <4>1
    <3> QED
      BY <3>1, <3>2
  <2>3. ASSUME NEW s \in Spans, Scorable(s)'
        PROVE  \E c \in criteria' : /\ c.id = requirements'[s].criterion
                                    /\ c.type = requirements'[s].type
                                    /\ c.subject = source'[s].subject
    <3>1. CASE s \in spans
      BY <1>3, <3>1 DEF Joins
    <3>2. CASE s \notin spans
      <4>1. PICK c \in criteria : /\ c.id = requirements[s].criterion
                                  /\ c.type = requirements[s].type
                                  /\ c.subject = source[s].subject
        BY <1>1, <2>3, <3>2 DEF DraftInv, CriteriaSound
      <4> QED
        BY <1>2, <3>2, <4>1 DEF Joins
    <3> QED
      BY <3>1, <3>2
  <2>4. \A i \in DOMAIN amendments' : \E c \in criteria' : c.id = amendments'[i].criterion
    BY DEF Joins, DraftInv, CriteriaSound
  <2> QED
    BY <2>1, <2>2, <2>3, <2>4 DEF CriteriaSound
<1>6. OriginsLead'
  <2>1. SUFFICES ASSUME lateJoins' = {}, NEW c \in criteria'
                 PROVE  \A s \in Supporting(c)' :
                           /\ Replays(OriginOf(s), c)'
                           /\ \A t \in Supporting(c)' : OriginOf(t)' = OriginOf(s)'
    BY DEF OriginsLead
  <2>2. lateJoins = {} /\ \A i \in DOMAIN amendments : amendments[i].criterion # e.id
    BY <2>1 DEF Joins
  <2>3. CASE c # e
    <3>1. c \in criteria /\ c.id # e.id
      BY <2>3 DEF Joins
    <3>2. \A s \in Supporting(c)' : s \in Supporting(c) /\ s \in Spans \ spans
      BY <1>1, <1>2, <1>3, <3>1 DEF Supporting, Scorable
    <3>3. ASSUME NEW s \in Supporting(c)'
          PROVE  /\ Replays(OriginOf(s), c) /\ OriginOf(s)' = OriginOf(s)
                 /\ \A t \in Supporting(c)' : OriginOf(t) = OriginOf(s)
      BY <2>2, <3>1, <3>2 DEF DraftInv, OriginsLead, Joins
    <3>4. ASSUME NEW s \in Supporting(c)' PROVE Replays(OriginOf(s), c)'
      <4>1. PICK o : o = OriginOf(s) /\ o = OriginOf(s)'
        BY <3>3
      <4>2. Replays(o, c)
        BY <3>3, <4>1
      <4>3. Leads(amendments', o, c)
        BY <4>2, ReplaysLeads DEF Joins
      <4>4. Replays(o, c)'
        BY <4>3, ReplaysLeads
      <4> QED
        BY <4>1, <4>4
    <3> QED
      BY <3>3, <3>4
  <2>4. CASE c = e
    <3>1. ASSUME NEW s \in Supporting(c)'
          PROVE  OriginOf(s)' = [type |-> e.type, years |-> e.years]
      <4>1. s \in Spans /\ Scorable(s)' /\ requirements'[s].criterion = e.id
        BY <2>4, <3>1 DEF Supporting, Scorable
      <4>2. CASE s \in spans
        BY <4>2 DEF Joins
      <4>3. CASE s \notin spans
        <5>1. Scorable(s) /\ requirements[s].criterion = e.id
          BY <1>1, <1>2, <4>1, <4>3
        <5>2. e \in criteria
          <6>1. PICK d \in criteria : d.id = e.id
            BY <4>1, <5>1 DEF DraftInv, CriteriaSound
          <6> QED
            BY <6>1 DEF Joins
        <5>3. s \in Supporting(e)
          BY <4>1, <5>1 DEF Supporting, Scorable
        <5>4. PICK o : o = OriginOf(s)
          OBVIOUS
        <5>5. Leads(amendments, o, e)
          BY <2>2, <5>2, <5>3, <5>4, ReplaysLeads DEF DraftInv, OriginsLead
        <5>6. e["type"] = o["type"] /\ e["years"] = o["years"]
          BY <2>2, <5>5, LeadsUntouched DEF DraftInv, DraftTyped
        <5>7. o = [type |-> o["type"], years |-> o["years"]]
          BY <5>4, OriginShape DEF DraftInv
        <5>8. OriginOf(s)' = o
          BY <4>1, <4>3, <5>4 DEF Joins
        <5> QED
          BY <5>6, <5>7, <5>8
      <4> QED
        BY <4>2, <4>3
    <3>2. ASSUME NEW o, o = [type |-> e.type, years |-> e.years] PROVE Replays(o, c)'
      <4>1. Leads(amendments, o, c)
        BY <2>2, <2>4, <3>2, LeadsUntouched DEF DraftInv, DraftTyped
      <4> QED
        BY <4>1, ReplaysLeads DEF Joins
    <3> QED
      BY <3>1, <3>2
  <2> QED
    BY <2>3, <2>4
<1> QED
  BY <1>1, <1>4, <1>5, <1>6

\* The rest of the invariant after a click that took its item off the list.
LEMMA ClickedSound ==
    ASSUME DraftAssumption, DraftInv, NEW item \in needsReview, NEW e, Joins(item.spans, e),
           CriteriaSound', OriginsLead', \A s \in Spans : Scorable(s)' <=> Scorable(s) \/ s \in item.spans,
           ~item.excluded, needsReview' = needsReview \ {item},
           stage = "draft", stage' = "draft",
           \A s \in Spans \ item.spans : decisions'[s] = decisions[s]
    PROVE  Unread' /\ ItemsWait' /\ Accounted' /\ Sealed'
           /\ \A s \in Spans \ item.spans : decisions'[s] = "EXCLUDED" =>
                 \E i \in needsReview' : i.excluded /\ i.span = s
<1>1. source' = source
  BY DEF Joins
<1>2. \A i \in needsReview' : /\ i \in needsReview /\ ItemSound(i)
                              /\ \A s \in i.spans : s \in Spans \ item.spans
  BY DEF DraftInv, ItemsWait, ItemSound
<1>3. \A i \in needsReview' : ItemSound(i)'
  BY <1>1, <1>2 DEF ItemSound
<1>4. ItemsWait'
  <2>1. ASSUME NEW i \in needsReview', NEW s \in i.spans
        PROVE  /\ ~(Scorable(s)')
               /\ decisions'[s] = IF s = i.span /\ i.excluded THEN "EXCLUDED" ELSE Unset
    BY <1>2 DEF DraftInv, ItemsWait
  <2>2. \A i, j \in needsReview' : i.spans \cap j.spans # {} => i = j
    BY <1>2 DEF DraftInv, ItemsWait
  <2> QED
    BY <1>3, <2>1, <2>2 DEF ItemsWait
<1>5. Accounted'
  <2>1. SUFFICES ASSUME NEW s \in Spans, Interpretable(s)
                 PROVE  Scorable(s)' \/ \E i \in needsReview' : s \in i.spans
    BY <1>1 DEF Accounted, Interpretable
  <2>2. Scorable(s) \/ \E i \in needsReview : s \in i.spans
    BY <2>1 DEF DraftInv, Accounted
  <2> QED
    BY <2>2
<1>6. ASSUME NEW s \in Spans \ item.spans, decisions'[s] = "EXCLUDED"
      PROVE  \E i \in needsReview' : i.excluded /\ i.span = s
  <2>1. PICK i \in needsReview : i.excluded /\ i.span = s
    BY <1>6 DEF DraftInv, DecisionsSound
  <2> QED
    BY <2>1
<1> QED
  BY <1>4, <1>5, <1>6 DEF Unread, Sealed

LEMMA ModalityStep ==
    ASSUME DraftAssumption, DraftInv, NEW item \in needsReview, NEW type \in Types,
           ResolveModality(item, type)
    PROVE  DraftInv'
<1>1. /\ stage = "draft" /\ stage' = "draft" /\ source' = source
      /\ amendments' = amendments /\ resolutions' = resolutions
      /\ needsReview' = needsReview \ {item}
      /\ decisions' = [decisions EXCEPT ![item.span] = type]
  BY DEF ResolveModality
<1>2. /\ item.spans = {item.span} /\ item.span \in Spans /\ ~item.excluded
      /\ source[item.span].type = Unset
      /\ item.subject = source[item.span].subject /\ item.years = source[item.span].years
      /\ ~Scorable(item.span) /\ decisions[item.span] = Unset
  <2>1. ItemSound(item) /\ item.allowed # {}
    BY DEF DraftInv, ItemsWait, ResolveModality
  <2>2. /\ item.spans = {item.span} /\ item.span \in Spans
        /\ source[item.span].type = Unset
        /\ item.subject = source[item.span].subject /\ item.years = source[item.span].years
        /\ item.blocking = (source[item.span].type = "MUST_HAVE")
    BY <2>1 DEF ItemSound
  <2>3. ~item.excluded
    BY <2>1, <2>2 DEF ItemSound, DraftAssumption, Types
  <2>4. ~Scorable(item.span) /\ decisions[item.span] = Unset
    BY <2>2, <2>3 DEF DraftInv, ItemsWait
  <2> QED
    BY <2>2, <2>3, <2>4
<1>3. /\ item \in ItemRecs
      /\ \A s \in Spans \ item.spans : decisions'[s] = decisions[s]
      /\ decisions'[item.span] = type
      /\ decisions' \in [Spans -> Types \cup {"EXCLUDED", Unset}]
  BY <1>1, <1>2 DEF DraftInv, DraftTyped
<1>4. /\ \A c \in criteria : c.id # item.span
      /\ \A i \in DOMAIN amendments : amendments[i].criterion # item.span
      /\ \A r \in resolutions : item.span \notin r.spans
  BY <1>2, WaitingIsNew DEF DraftInv
<1>5. PICK e : /\ e \in CriterionRecs /\ criteria' = criteria \cup {e}
               /\ e.subject = item.subject /\ e.type = type /\ e.years = item.years
               /\ \A c \in criteria : c.id = e.id \/ c.subject = e.subject => c = e
               /\ requirements' = [requirements EXCEPT ![item.span] = Requirement("SCORABLE", type, e.id)]
               /\ e \notin criteria => e.id = item.span
               /\ lateJoins' = {} =>
                     lateJoins = {} /\ \A i \in DOMAIN amendments : amendments[i].criterion # e.id
  <2>1. CASE Existing(item.subject) = {}
    <3> DEFINE e == Criterion(item.span, item.subject, [type |-> type, years |-> item.years])
    <3>1. e \in CriterionRecs /\ e.id = item.span /\ e.subject = item.subject
          /\ e.type = type /\ e.years = item.years
      BY <1>2, <1>3 DEF Criterion, CriterionRecs, ItemRecs
    <3>2. /\ criteria' = criteria \cup {e}
          /\ requirements' = [requirements EXCEPT ![item.span] = Requirement("SCORABLE", type, item.span)]
          /\ lateJoins' = lateJoins
      BY <2>1 DEF ResolveModality
    <3>3. \A c \in criteria : c.subject # item.subject
      BY <2>1 DEF Existing
    <3> HIDE DEF e
    <3> QED
      BY <1>4, <3>1, <3>2, <3>3
  <2>2. CASE Existing(item.subject) # {}
    <3> DEFINE e == CHOOSE c \in Existing(item.subject) : TRUE
    <3>1. e \in Existing(item.subject)
      BY <2>2
    <3>2. e \in criteria /\ e.subject = item.subject
      BY <3>1 DEF Existing
    <3>3. /\ criteria' = criteria
          /\ requirements' = [requirements EXCEPT ![item.span] = Requirement("SCORABLE", type, e.id)]
          /\ Joinable(e, [type |-> type, years |-> item.years])
          /\ lateJoins' = IF \E c \in Existing(item.subject) : FollowedUp(c)
                          THEN lateJoins \cup {item.span} ELSE lateJoins
      BY <2>2, <3>1 DEF ResolveModality
    <3> HIDE DEF e
    <3>4. e.type = type /\ e.years = item.years
      BY <3>3 DEF Joinable, Params
    <3>5. e \in CriterionRecs
      BY <3>2 DEF DraftInv, DraftTyped
    <3>6. \A c \in criteria : c.id = e.id \/ c.subject = e.subject => c = e
      BY <3>2 DEF DraftInv, CriteriaSound
    <3>7. lateJoins' = {} => lateJoins = {} /\ ~FollowedUp(e)
      BY <3>1, <3>3
    <3>8. criteria' = criteria \cup {e}
      BY <3>2, <3>3
    <3> QED
      BY <3>2, <3>3, <3>4, <3>5, <3>6, <3>7, <3>8 DEF FollowedUp
  <2> QED
    BY <2>1, <2>2
<1>6. OriginOf(item.span)' = [type |-> e.type, years |-> e.years]
  <2>1. OriginOf(item.span)' = OriginIn(resolutions', decisions', source', item.span)
    BY OriginOfIn
  <2>2. OriginIn(resolutions', decisions', source', item.span) =
          [type |-> IF decisions'[item.span] \in Types THEN decisions'[item.span]
                    ELSE source'[item.span].type,
           years |-> source'[item.span].years]
    BY <1>1, <1>4, OriginPlain
  <2> QED
    BY <1>1, <1>2, <1>3, <1>5, <2>1, <2>2
<1>7. \A s \in Spans \ item.spans : OriginOf(s)' = OriginOf(s)
  BY <1>1, <1>3, OriginOfIn DEF OriginIn
<1>8. Joins(item.spans, e)
  <2>1. requirements' = [s \in Spans |-> IF s \in item.spans THEN Requirement("SCORABLE", e.type, e.id)
                                         ELSE requirements[s]]
    BY <1>2, <1>5 DEF DraftInv, DraftTyped
  <2>2. e \notin criteria => e.id \in item.spans
    BY <1>2, <1>5
  <2>3. \A s \in item.spans : /\ s \in Spans /\ ~Scorable(s) /\ source[s].subject = e.subject
                              /\ OriginOf(s)' = [type |-> e.type, years |-> e.years]
    BY <1>2, <1>5, <1>6
  <2>4. item.spans \subseteq Spans /\ item.spans # {}
    BY <1>2
  <2> QED
    BY <1>1, <1>5, <1>7, <2>1, <2>2, <2>3, <2>4 DEF Joins
<1>9. /\ CriteriaSound' /\ OriginsLead' /\ criteria' \subseteq CriterionRecs
      /\ requirements' \in [Spans -> [state : {"UNREAD", "SCORABLE", "REVIEW", "OUTSIDE"},
                                      type : Types \cup {Unset}, criterion : Spans \cup {Unset}]]
      /\ \A s \in Spans : Scorable(s)' <=> Scorable(s) \/ s \in item.spans
  BY <1>8, JoinsSound
<1>10. /\ Unread' /\ ItemsWait' /\ Accounted' /\ Sealed'
       /\ \A s \in Spans \ item.spans : decisions'[s] = "EXCLUDED" =>
             \E i \in needsReview' : i.excluded /\ i.span = s
  BY <1>1, <1>2, <1>3, <1>8, <1>9, ClickedSound
<1>11. DraftTyped'
  BY <1>1, <1>3, <1>9 DEF DraftInv, DraftTyped
<1>12. Settlements'
  <2>1. \A r \in resolutions : \A s \in r.spans : s \in Spans /\ Scorable(s)'
    BY <1>9 DEF DraftInv, Settlements
  <2> QED
    BY <1>1, <2>1 DEF DraftInv, Settlements
<1>13. DecisionsSound'
  <2>1. SUFFICES ASSUME NEW s \in Spans
                 PROVE  /\ decisions'[s] \in Types =>
                              /\ Scorable(s)' /\ source[s].type = Unset
                              /\ \A r \in resolutions : s \notin r.spans
                        /\ decisions'[s] = "EXCLUDED" =>
                              \E i \in needsReview' : i.excluded /\ i.span = s
                        /\ Scorable(s)' =>
                              \/ \E r \in resolutions : s \in r.spans
                              \/ decisions'[s] \in Types
                              \/ source[s].type \in Types
    BY <1>1 DEF DecisionsSound
  <2>2. CASE s = item.span
    BY <1>2, <1>3, <1>4, <1>9, <2>2 DEF Types
  <2>3. CASE s # item.span
    BY <1>2, <1>3, <1>9, <1>10, <2>3 DEF DraftInv, DecisionsSound
  <2> QED
    BY <2>2, <2>3
<1> QED
  BY <1>9, <1>10, <1>11, <1>12, <1>13 DEF DraftInv

LEMMA ConflictStep ==
    ASSUME DraftAssumption, DraftInv, NEW item \in needsReview, NEW chosen \in item.options,
           ResolveConflict(item, chosen)
    PROVE  DraftInv'
<1> DEFINE new == [spans |-> item.spans, options |-> item.options, chosen |-> chosen]
           e == Criterion(item.span, item.subject, chosen)
<1>1. /\ stage = "draft" /\ stage' = "draft" /\ source' = source
      /\ amendments' = amendments /\ resolutions' = resolutions \cup {new}
      /\ needsReview' = needsReview \ {item} /\ ~item.excluded
      /\ decisions' = decisions /\ lateJoins' = lateJoins
      /\ criteria' = criteria \cup {e} /\ Existing(item.subject) = {}
      /\ requirements' = [s \in Spans |->
            IF s \in item.spans THEN Requirement("SCORABLE", chosen.type, item.span)
            ELSE requirements[s]]
  BY DEF ResolveConflict
<1>2. /\ item.spans \subseteq Spans /\ item.span \in item.spans
      /\ item.options = {Params(source[s]) : s \in item.spans} /\ Cardinality(item.options) > 1
      /\ \A s \in item.spans : /\ source[s].subject = item.subject /\ source[s].type \in Types
                               /\ ~Scorable(s) /\ decisions[s] = Unset
      /\ item.subject \in Subjects
  <2>1. ItemSound(item) /\ item \in ItemRecs
    BY DEF DraftInv, DraftTyped, ItemsWait
  <2>2. \A s \in item.spans : ~Scorable(s) /\ decisions[s] = Unset
    BY <1>1 DEF DraftInv, ItemsWait
  <2> QED
    BY <2>1, <2>2 DEF ItemSound, ItemRecs
<1>3. /\ chosen = [type |-> chosen.type, years |-> chosen.years]
      /\ chosen.type \in Types /\ chosen.years \in Years \cup {Unset}
  <2>1. PICK s \in item.spans : chosen = Params(source[s])
    BY <1>2
  <2>2. s \in Spans /\ source[s].type \in Types /\ source[s].years \in Years \cup {Unset}
    BY <1>2 DEF DraftInv, DraftTyped, DraftAssumption
  <2> QED
    BY <2>1, <2>2 DEF Params
<1>4. \A s \in item.spans :
         /\ \A c \in criteria : c.id # s
         /\ \A i \in DOMAIN amendments : amendments[i].criterion # s
         /\ \A r \in resolutions : s \notin r.spans
  BY <1>2, WaitingIsNew DEF DraftInv
<1>5. /\ e \in CriterionRecs /\ e.id = item.span /\ e.subject = item.subject
      /\ e.type = chosen.type /\ e.years = chosen.years
  BY <1>2, <1>3 DEF Criterion, CriterionRecs
<1>6. \A q, r \in resolutions' : q.spans \cap r.spans # {} => q = r
  BY <1>1, <1>4 DEF DraftInv, Settlements
<1>7. \A s \in item.spans : OriginOf(s)' = [type |-> e.type, years |-> e.years]
  <2>1. SUFFICES ASSUME NEW s \in item.spans PROVE OriginOf(s)' = chosen
    BY <1>3, <1>5
  <2>2. OriginOf(s)' = OriginIn(resolutions', decisions', source', s)
    BY OriginOfIn
  <2>3. new \in resolutions' /\ s \in new.spans
    BY <1>1
  <2>4. OriginIn(resolutions', decisions', source', s) = new.chosen
    BY <1>6, <2>3, OriginSettled
  <2> QED
    BY <2>2, <2>4
<1>8. \A s \in Spans \ item.spans : OriginOf(s)' = OriginOf(s)
  <2>1. SUFFICES ASSUME NEW s \in Spans, s \notin item.spans PROVE OriginOf(s)' = OriginOf(s)
    OBVIOUS
  <2>2. /\ OriginOf(s)' = OriginIn(resolutions', decisions', source', s)
        /\ OriginOf(s) = OriginIn(resolutions, decisions, source, s)
    BY OriginOfIn
  <2>3. CASE \E r \in resolutions : s \in r.spans
    <3>1. PICK r \in resolutions : s \in r.spans
      BY <2>3
    <3>2. r \in resolutions'
      BY <1>1
    <3>3. OriginIn(resolutions', decisions', source', s) = r.chosen
      BY <1>6, <3>1, <3>2, OriginSettled
    <3>4. OriginIn(resolutions, decisions, source, s) = r.chosen
      BY <3>1, OriginSettled DEF DraftInv, Settlements
    <3> QED
      BY <2>2, <3>3, <3>4
  <2>4. CASE \A r \in resolutions : s \notin r.spans
    <3>1. \A r \in resolutions' : s \notin r.spans
      BY <1>1, <2>1, <2>4
    <3> QED
      BY <1>1, <2>2, <2>4, <3>1 DEF OriginIn
  <2> QED
    BY <2>3, <2>4
<1> HIDE DEF e, new
<1>9. Joins(item.spans, e)
  <2>1. \A c \in criteria : c.id # e.id /\ c.subject # e.subject
    BY <1>1, <1>2, <1>4, <1>5 DEF Existing
  <2>2. \A i \in DOMAIN amendments : amendments[i].criterion # e.id
    BY <1>2, <1>4, <1>5
  <2>3. requirements' = [s \in Spans |-> IF s \in item.spans THEN Requirement("SCORABLE", e.type, e.id)
                                         ELSE requirements[s]]
    BY <1>1, <1>5
  <2>4. \A s \in item.spans : source[s].subject = e.subject /\ ~Scorable(s)
    BY <1>2, <1>5
  <2> QED
    BY <1>1, <1>2, <1>5, <1>7, <1>8, <2>1, <2>2, <2>3, <2>4 DEF Joins
<1>10. /\ CriteriaSound' /\ OriginsLead' /\ criteria' \subseteq CriterionRecs
       /\ requirements' \in [Spans -> [state : {"UNREAD", "SCORABLE", "REVIEW", "OUTSIDE"},
                                       type : Types \cup {Unset}, criterion : Spans \cup {Unset}]]
       /\ \A s \in Spans : Scorable(s)' <=> Scorable(s) \/ s \in item.spans
  BY <1>9, JoinsSound
<1>11. /\ Unread' /\ ItemsWait' /\ Accounted' /\ Sealed'
       /\ \A s \in Spans \ item.spans : decisions'[s] = "EXCLUDED" =>
             \E i \in needsReview' : i.excluded /\ i.span = s
  BY <1>1, <1>9, <1>10, ClickedSound
<1>12. DraftTyped'
  BY <1>1, <1>10 DEF DraftInv, DraftTyped
<1>13. /\ new.spans = item.spans /\ new.options = item.options /\ new.chosen = chosen
  BY DEF new
<1>14. Settlements'
  <2>1. ASSUME NEW r \in resolutions'
        PROVE  /\ r.spans \subseteq Spans
               /\ r.options = {Params(source[s]) : s \in r.spans} /\ Cardinality(r.options) > 1
               /\ r.chosen \in r.options /\ r.chosen.type \in Types
               /\ \A s \in r.spans : Scorable(s)'
    <3>1. CASE r \in resolutions
      BY <1>10, <3>1 DEF DraftInv, Settlements
    <3>2. CASE r = new
      BY <1>2, <1>3, <1>10, <1>13, <3>2
    <3> QED
      BY <1>1, <3>1, <3>2
  <2> QED
    BY <1>1, <1>6, <2>1 DEF Settlements
<1>15. DecisionsSound'
  <2>1. SUFFICES ASSUME NEW s \in Spans
                 PROVE  /\ decisions[s] \in Types =>
                              /\ Scorable(s)' /\ source[s].type = Unset
                              /\ \A r \in resolutions' : s \notin r.spans
                        /\ decisions[s] = "EXCLUDED" =>
                              \E i \in needsReview' : i.excluded /\ i.span = s
                        /\ Scorable(s)' =>
                              \/ \E r \in resolutions' : s \in r.spans
                              \/ decisions[s] \in Types
                              \/ source[s].type \in Types
    BY <1>1 DEF DecisionsSound
  <2>2. CASE s \in item.spans
    <3>1. decisions[s] = Unset /\ source[s].type \in Types
      BY <1>2, <2>2
    <3> QED
      BY <3>1 DEF DraftAssumption
  <2>3. CASE s \notin item.spans
    <3>1. \A r \in resolutions' : s \in r.spans => r \in resolutions
      BY <1>1, <1>13, <2>3
    <3> QED
      BY <1>1, <1>10, <1>11, <2>3, <3>1 DEF DraftInv, DecisionsSound
  <2> QED
    BY <2>2, <2>3
<1> QED
  BY <1>10, <1>11, <1>12, <1>14, <1>15 DEF DraftInv

LEMMA ExcludeStep ==
    ASSUME DraftAssumption, DraftInv, NEW item \in needsReview, Exclude(item)
    PROVE  DraftInv'
<1>1. PICK x : x = [item EXCEPT !.excluded = TRUE]
  OBVIOUS
<1>2. /\ stage = "draft" /\ stage' = "draft" /\ source' = source /\ requirements' = requirements
      /\ amendments' = amendments /\ resolutions' = resolutions /\ criteria' = criteria
      /\ lateJoins' = lateJoins /\ item.blocking
      /\ needsReview' = (needsReview \ {item}) \cup {x}
      /\ decisions' = [decisions EXCEPT ![item.span] = "EXCLUDED"]
  BY <1>1 DEF Exclude
<1>3. /\ item \in ItemRecs /\ ItemSound(item) /\ item.span \in Spans /\ item.span \in item.spans
      /\ \A s \in item.spans : ~Scorable(s)
      /\ \A s \in item.spans : s # item.span => decisions[s] = Unset
  BY DEF DraftInv, DraftTyped, ItemsWait, ItemSound
<1>4. /\ x \in ItemRecs /\ x.span = item.span /\ x.spans = item.spans /\ x.subject = item.subject
      /\ x.years = item.years /\ x.allowed = item.allowed /\ x.options = item.options
      /\ x.blocking = item.blocking /\ x.excluded = TRUE
  BY <1>1, <1>3 DEF ItemRecs
<1>5. /\ decisions'[item.span] = "EXCLUDED"
      /\ \A s \in Spans : s # item.span => decisions'[s] = decisions[s]
      /\ decisions' \in [Spans -> Types \cup {"EXCLUDED", Unset}]
  BY <1>2, <1>3 DEF DraftInv, DraftTyped
<1>6. \A i \in needsReview : i # item => item.span \notin i.spans
  BY <1>3 DEF DraftInv, ItemsWait
<1>7. \A s \in Spans : Scorable(s)' <=> Scorable(s)
  BY <1>2 DEF Scorable
<1>8. DraftTyped'
  BY <1>2, <1>4, <1>5 DEF DraftInv, DraftTyped
<1>9. Unread' /\ Sealed'
  BY <1>2 DEF Unread, Sealed
<1>10. ItemsWait'
  <2>1. ItemSound(x)
    BY <1>2, <1>3, <1>4 DEF ItemSound
  <2>2. \A i \in needsReview' : ItemSound(i)'
    <3>1. \A i \in needsReview' : ItemSound(i)
      BY <1>2, <2>1 DEF DraftInv, ItemsWait
    <3> QED
      BY <1>2, <3>1 DEF ItemSound
  <2>3. ASSUME NEW i \in needsReview', NEW s \in i.spans
        PROVE  /\ ~(Scorable(s)')
               /\ decisions'[s] = IF s = i.span /\ i.excluded THEN "EXCLUDED" ELSE Unset
    <3>1. CASE i = x
      <4>1. s \in Spans /\ s \in item.spans
        BY <1>3, <1>4, <2>3, <3>1 DEF ItemRecs
      <4> QED
        BY <1>3, <1>4, <1>5, <1>7, <3>1, <4>1
    <3>2. CASE i \in needsReview /\ i # item
      <4>1. s \in Spans /\ s # item.span
        BY <1>6, <3>2 DEF DraftInv, DraftTyped, ItemRecs
      <4> QED
        BY <1>5, <1>7, <3>2, <4>1 DEF DraftInv, ItemsWait
    <3> QED
      BY <1>2, <3>1, <3>2
  <2>4. \A i, j \in needsReview' : i.spans \cap j.spans # {} => i = j
    BY <1>2, <1>4 DEF DraftInv, ItemsWait
  <2> QED
    BY <2>2, <2>3, <2>4 DEF ItemsWait
<1>11. Accounted'
  <2>1. SUFFICES ASSUME NEW s \in Spans, Interpretable(s)
                 PROVE  Scorable(s)' \/ \E i \in needsReview' : s \in i.spans
    BY <1>2 DEF Accounted, Interpretable
  <2>2. Scorable(s) \/ \E i \in needsReview : s \in i.spans
    BY <1>2, <2>1 DEF DraftInv, Accounted
  <2> QED
    BY <1>2, <1>4, <1>7, <2>2
<1>12. Settlements'
  <2>1. \A r \in resolutions : \A s \in r.spans : s \in Spans /\ Scorable(s)'
    BY <1>7 DEF DraftInv, Settlements
  <2> QED
    BY <1>2, <2>1 DEF DraftInv, Settlements
<1>13. DecisionsSound'
  <2>1. SUFFICES ASSUME NEW s \in Spans
                 PROVE  /\ decisions'[s] \in Types =>
                              /\ Scorable(s) /\ source[s].type = Unset
                              /\ \A r \in resolutions : s \notin r.spans
                        /\ decisions'[s] = "EXCLUDED" =>
                              \E i \in needsReview' : i.excluded /\ i.span = s
                        /\ Scorable(s) =>
                              \/ \E r \in resolutions : s \in r.spans
                              \/ decisions'[s] \in Types
                              \/ source[s].type \in Types
    BY <1>2, <1>7 DEF DecisionsSound
  <2>2. CASE s = item.span
    <3>1. x \in needsReview' /\ x.excluded /\ x.span = s
      BY <1>2, <1>4, <2>2
    <3> QED
      BY <1>3, <1>5, <2>2, <3>1 DEF Types
  <2>3. CASE s # item.span
    <3>1. \A i \in needsReview : i.span = s => i \in needsReview'
      BY <1>2, <2>3
    <3> QED
      BY <1>5, <2>3, <3>1 DEF DraftInv, DecisionsSound
  <2> QED
    BY <2>2, <2>3
<1>14. CriteriaSound'
  BY <1>2, <1>7 DEF DraftInv, CriteriaSound, DraftTyped, CriterionRecs
<1>15. OriginsLead'
  <2>1. SUFFICES ASSUME lateJoins = {}, NEW c \in criteria
                 PROVE  \A s \in Supporting(c)' :
                           /\ Replays(OriginOf(s), c)'
                           /\ \A t \in Supporting(c)' : OriginOf(t)' = OriginOf(s)'
    BY <1>2 DEF OriginsLead
  <2>2. \A s \in Supporting(c)' : s \in Supporting(c) /\ s \in Spans /\ s # item.span
    BY <1>2, <1>3 DEF Supporting, Scorable
  <2>3. \A s \in Supporting(c)' : OriginOf(s)' = OriginOf(s)
    BY <1>2, <1>5, <2>2, OriginOfIn DEF OriginIn
  <2>4. ASSUME NEW s \in Supporting(c)' PROVE Replays(OriginOf(s), c)'
    <3>1. PICK o : o = OriginOf(s) /\ o = OriginOf(s)'
      BY <2>3
    <3>2. Replays(o, c)
      BY <2>1, <2>2, <3>1 DEF DraftInv, OriginsLead
    <3>3. Replays(o, c)'
      BY <1>2, <3>2, ReplaysLeads
    <3> QED
      BY <3>1, <3>3
  <2>5. \A s, t \in Supporting(c)' : OriginOf(t) = OriginOf(s)
    BY <2>1, <2>2 DEF DraftInv, OriginsLead
  <2> QED
    BY <2>3, <2>4, <2>5
<1> QED
  BY <1>8, <1>9, <1>10, <1>11, <1>12, <1>13, <1>14, <1>15 DEF DraftInv

-----------------------------------------------------------------------------
(* Follow-up messages.                                                     *)

LEMMA AmendStep ==
    ASSUME DraftAssumption, DraftInv, NEW c \in criteria, NEW field, NEW new,
           \/ field = "type" /\ new \in Types
           \/ field = "years" /\ new \in Years,
           Amend(c, field, new)
    PROVE  DraftInv'
<1>1. PICK d : d = [c EXCEPT ![field] = new]
  OBVIOUS
<1>2. PICK a : a = [criterion |-> c.id, field |-> field, previous |-> c[field], new |-> new]
  OBVIOUS
<1>3. /\ stage = "draft" /\ stage' = "draft" /\ source' = source /\ needsReview' = needsReview
      /\ decisions' = decisions /\ resolutions' = resolutions /\ lateJoins' = lateJoins
      /\ c[field] # Unset
      /\ criteria' = (criteria \ {c}) \cup {d}
      /\ requirements' = IF field = "type" THEN Retyped(c, new) ELSE requirements
      /\ amendments' = Append(amendments, a)
  BY <1>1, <1>2 DEF Amend, Chain
<1>4. c \in CriterionRecs /\ amendments \in Seq(AmendmentRecs)
  BY DEF DraftInv, DraftTyped
<1>5. /\ d \in CriterionRecs /\ d.id = c.id /\ d.subject = c.subject
      /\ d["type"] = IF field = "type" THEN new ELSE c["type"]
      /\ d["years"] = IF field = "years" THEN new ELSE c["years"]
  BY <1>1, <1>4 DEF CriterionRecs
<1>6. /\ a \in AmendmentRecs /\ a.criterion = c.id /\ a.field = field
      /\ a.previous = c[field] /\ a.new = new
  <2>1. CASE field = "type"
    BY <1>2, <1>3, <1>4, <2>1 DEF AmendmentRecs, CriterionRecs, Types
  <2>2. CASE field = "years"
    BY <1>2, <1>3, <1>4, <2>2 DEF AmendmentRecs, CriterionRecs, Types
  <2> QED
    BY <2>1, <2>2
<1>7. \A s \in Spans :
         /\ requirements'[s].state = requirements[s].state
         /\ requirements'[s].criterion = requirements[s].criterion
         /\ requirements[s].criterion # c.id => requirements'[s].type = requirements[s].type
         /\ requirements[s].criterion = c.id /\ Scorable(s) => requirements'[s].type = d.type
  <2>1. \A s \in Spans : requirements[s] \in [state : {"UNREAD", "SCORABLE", "REVIEW", "OUTSIDE"},
                                   type : Types \cup {Unset}, criterion : Spans \cup {Unset}]
    BY DEF DraftInv, DraftTyped
  <2>2. CASE field = "type"
    BY <1>3, <1>5, <2>1, <2>2 DEF Retyped
  <2>3. CASE field # "type"
    <3>1. requirements' = requirements /\ d.type = c.type
      BY <1>3, <1>5, <2>3
    <3>2. \A s \in Spans : Scorable(s) /\ requirements[s].criterion = c.id => requirements[s].type = c.type
      BY DEF DraftInv, CriteriaSound
    <3> QED
      BY <3>1, <3>2
  <2> QED
    BY <2>2, <2>3
<1>8. requirements' \in [Spans -> [state : {"UNREAD", "SCORABLE", "REVIEW", "OUTSIDE"},
                                   type : Types \cup {Unset}, criterion : Spans \cup {Unset}]]
  <2>1. CASE field = "type"
    BY <1>3, <2>1 DEF Retyped, DraftInv, DraftTyped
  <2>2. CASE field # "type"
    BY <1>3, <2>2 DEF DraftInv, DraftTyped
  <2> QED
    BY <2>1, <2>2
<1>9. \A s \in Spans : Scorable(s)' <=> Scorable(s)
  BY <1>7 DEF Scorable
<1>10. DraftTyped'
  BY <1>3, <1>4, <1>5, <1>6, <1>8, AppendShape DEF DraftInv, DraftTyped
<1>11. Unread' /\ Sealed'
  BY <1>3 DEF Unread, Sealed
<1>12. ItemsWait'
  <2>1. \A i \in needsReview : ItemSound(i)'
    BY <1>3 DEF DraftInv, ItemsWait, ItemSound
  <2>2. \A i \in needsReview : \A s \in i.spans : s \in Spans /\ ~(Scorable(s)')
    BY <1>9 DEF DraftInv, ItemsWait, ItemSound
  <2> QED
    BY <1>3, <2>1, <2>2 DEF DraftInv, ItemsWait
<1>13. Accounted'
  BY <1>3, <1>9 DEF DraftInv, Accounted, Interpretable
<1>14. Settlements'
  <2>1. \A r \in resolutions : \A s \in r.spans : s \in Spans /\ Scorable(s)'
    BY <1>9 DEF DraftInv, Settlements
  <2> QED
    BY <1>3, <2>1 DEF DraftInv, Settlements
<1>15. DecisionsSound'
  BY <1>3, <1>9 DEF DraftInv, DecisionsSound
<1>16. \A x \in criteria' : x = d \/ (x \in criteria /\ x # c /\ x.id # c.id /\ x.subject # c.subject)
  BY <1>3 DEF DraftInv, CriteriaSound
<1>17. CriteriaSound'
  <2>1. \A x, y \in criteria' : x.id = y.id \/ x.subject = y.subject => x = y
    <3>1. \A x, y \in criteria : x.id = y.id \/ x.subject = y.subject => x = y
      BY DEF DraftInv, CriteriaSound
    <3> QED
      BY <1>5, <1>16, <3>1
  <2>2. \A x \in criteria' : Scorable(x.id)' /\ requirements'[x.id].criterion = x.id
    <3>1. \A x \in criteria : x.id \in Spans /\ Scorable(x.id) /\ requirements[x.id].criterion = x.id
      BY DEF DraftInv, CriteriaSound, DraftTyped, CriterionRecs
    <3> QED
      BY <1>5, <1>7, <1>9, <1>16, <3>1
  <2>3. ASSUME NEW s \in Spans, Scorable(s)'
        PROVE  \E x \in criteria' : /\ x.id = requirements'[s].criterion
                                    /\ x.type = requirements'[s].type
                                    /\ x.subject = source'[s].subject
    <3>1. PICK x \in criteria : /\ x.id = requirements[s].criterion
                                /\ x.type = requirements[s].type
                                /\ x.subject = source[s].subject
      BY <1>9, <2>3 DEF DraftInv, CriteriaSound
    <3>2. CASE x = c
      BY <1>3, <1>5, <1>7, <1>9, <2>3, <3>1, <3>2
    <3>3. CASE x # c
      <4>1. x \in criteria' /\ x.id # c.id
        BY <1>3, <3>3 DEF DraftInv, CriteriaSound
      <4> QED
        BY <1>3, <1>7, <3>1, <4>1
    <3> QED
      BY <3>2, <3>3
  <2>4. \A i \in DOMAIN amendments' : \E x \in criteria' : x.id = amendments'[i].criterion
    <3>1. \A x \in criteria : \E y \in criteria' : y.id = x.id
      BY <1>3, <1>5
    <3>2. \A i \in DOMAIN amendments : \E x \in criteria : x.id = amendments[i].criterion
      BY DEF DraftInv, CriteriaSound
    <3>3. ASSUME NEW i \in DOMAIN amendments'
          PROVE  \E x \in criteria : x.id = amendments'[i].criterion
      BY <1>3, <1>4, <1>6, <3>2, AppendShape
    <3> QED
      BY <3>1, <3>3
  <2> QED
    BY <2>1, <2>2, <2>3, <2>4 DEF CriteriaSound
<1>18. \A s : OriginOf(s)' = OriginOf(s)
  BY <1>3, OriginOfIn DEF OriginIn
<1>19. OriginsLead'
  <2>1. SUFFICES ASSUME lateJoins = {}, NEW x \in criteria'
                 PROVE  \A s \in Supporting(x)' :
                           /\ Replays(OriginOf(s), x)'
                           /\ \A t \in Supporting(x)' : OriginOf(t)' = OriginOf(s)'
    BY <1>3 DEF OriginsLead
  <2>2. PICK y \in criteria : y.id = x.id /\ ((x = d /\ y = c) \/ (x = y /\ y.id # c.id))
    BY <1>5, <1>16
  <2>3. \A s \in Supporting(x)' : s \in Supporting(y)
    BY <1>7, <2>2 DEF Supporting
  <2>4. \A s, t \in Supporting(x)' : OriginOf(t) = OriginOf(s)
    BY <2>1, <2>3 DEF DraftInv, OriginsLead
  <2>5. ASSUME NEW s \in Supporting(x)' PROVE Replays(OriginOf(s), x)'
    <3>1. PICK o : o = OriginOf(s) /\ o = OriginOf(s)'
      BY <1>18
    <3>2. Replays(o, y)
      BY <2>1, <2>3, <3>1 DEF DraftInv, OriginsLead
    <3>3. Leads(amendments, o, y)
      BY <3>2, ReplaysLeads
    <3>4. Leads(Append(amendments, a), o, x)
      <4>1. CASE x = d /\ y = c
        <5>1. \A f \in {"type", "years"} : d[f] = IF f = a.field THEN a.new ELSE c[f]
          BY <1>5, <1>6
        <5> QED
          BY <1>3, <1>4, <1>5, <1>6, <3>3, <4>1, <5>1, LeadsOn
      <4>2. CASE x = y /\ y.id # c.id
        BY <1>4, <1>6, <3>3, <4>2, LeadsBesides
      <4> QED
        BY <2>2, <4>1, <4>2
    <3>5. Replays(o, x)'
      BY <1>3, <3>4, ReplaysLeads
    <3> QED
      BY <3>1, <3>5
  <2> QED
    BY <1>18, <2>4, <2>5
<1> QED
  BY <1>10, <1>11, <1>12, <1>13, <1>14, <1>15, <1>17, <1>19 DEF DraftInv

-----------------------------------------------------------------------------
(* The draft, from its text to its confirmation.                           *)

LEMMA DraftInitial ==
    ASSUME DraftAssumption, ReviewInit
    PROVE  DraftInv
<1>1. DraftTyped
  <2>1. <<>> \in Seq(AmendmentRecs)
    OBVIOUS
  <2> QED
    BY <2>1 DEF ReviewInit, DraftTyped, Requirement
<1>2. \A s \in Spans : ~Scorable(s) /\ decisions[s] = Unset
  BY DEF ReviewInit, Scorable, Requirement
<1>3. Unread /\ ItemsWait /\ Accounted /\ Settlements /\ Sealed
  BY <1>2 DEF ReviewInit, Unread, ItemsWait, Accounted, Settlements, Sealed
<1>4. DecisionsSound
  BY <1>2 DEF DecisionsSound, DraftAssumption
<1>5. CriteriaSound /\ OriginsLead
  BY <1>2 DEF ReviewInit, CriteriaSound, OriginsLead
<1> QED
  BY <1>1, <1>3, <1>4, <1>5 DEF DraftInv

\* A proof of origin reads nothing but the draft.
LEMMA ProvenKept ==
    ASSUME Proven,
           UNCHANGED <<source, requirements, criteria, needsReview, decisions, resolutions, amendments>>
    PROVE  Proven'
<1>1. \A s : OriginOf(s)' = OriginOf(s)
  BY OriginOfIn
<1>2. \A c : Supporting(c)' = Supporting(c)
  BY DEF Supporting
<1>3. \A o, c : Replays(o, c)' <=> Replays(o, c)
  BY ReplaysLeads
<1>4. ASSUME NEW c, Explained(c) PROVE Explained(c)'
  <2>1. PICK O : O = {OriginOf(s) : s \in Supporting(c)}
    OBVIOUS
  <2>2. O = {OriginOf(s) : s \in Supporting(c)}'
    BY <1>1, <1>2, <2>1
  <2>3. Supporting(c) # {} /\ \A o \in O : O = {o} /\ Replays(o, c)
    BY <1>4, <2>1 DEF Explained
  <2>4. Supporting(c)' # {} /\ \A o \in O : O = {o} /\ Replays(o, c)'
    BY <1>2, <1>3, <2>3
  <2> QED
    BY <2>2, <2>4 DEF Explained
<1>5. OptionsHold' /\ ExclusionsHold'
  BY DEF Proven, OptionsHold, ExclusionsHold
<1>6. DecisionsHold'
  BY <1>1 DEF Proven, DecisionsHold
<1> QED
  BY <1>4, <1>5, <1>6 DEF Proven

\* What leaves everything but the stage and the open limit as it is.
LEMMA DraftKept ==
    ASSUME DraftAssumption, DraftInv, Sealed', stage = "text" <=> stage' = "text",
           UNCHANGED <<source, requirements, criteria, needsReview, decisions, resolutions,
                       amendments, lateJoins>>
    PROVE  DraftInv'
<1>1. \A s : (Scorable(s)' <=> Scorable(s)) /\ (Interpretable(s)' <=> Interpretable(s))
  BY DEF Scorable, Interpretable
<1>2. DraftTyped' /\ Unread' /\ Accounted' /\ Settlements' /\ DecisionsSound' /\ CriteriaSound'
  BY <1>1 DEF DraftInv, DraftTyped, Unread, Accounted, Settlements, DecisionsSound, CriteriaSound
<1>3. ItemsWait'
  <2>1. \A i \in needsReview : ItemSound(i)'
    BY DEF DraftInv, ItemsWait, ItemSound
  <2> QED
    BY <1>1, <2>1 DEF DraftInv, ItemsWait
<1>4. OriginsLead'
  <2>1. \A s : OriginOf(s)' = OriginOf(s)
    BY OriginOfIn
  <2>2. \A c : Supporting(c)' = Supporting(c)
    BY DEF Supporting
  <2>3. \A o, c : Replays(o, c)' <=> Replays(o, c)
    BY ReplaysLeads
  <2>4. ASSUME NEW c, NEW s, Replays(OriginOf(s), c) PROVE Replays(OriginOf(s), c)'
    <3>1. PICK o : o = OriginOf(s) /\ o = OriginOf(s)'
      BY <2>1
    <3>2. Replays(o, c)'
      BY <2>3, <2>4, <3>1
    <3> QED
      BY <3>1, <3>2
  <2> QED
    BY <2>1, <2>2, <2>4 DEF DraftInv, OriginsLead
<1> QED
  BY <1>2, <1>3, <1>4 DEF DraftInv

LEMMA DraftStep ==
    ASSUME DraftAssumption, DraftInv, [ReviewNext]_reviewVars
    PROVE  DraftInv'
<1>1. ASSUME NEW accepted \in SUBSET Spans, Build(accepted) PROVE DraftInv'
  BY <1>1, BuildStep
<1>2. ASSUME NEW item \in needsReview, NEW type \in Types, ResolveModality(item, type)
      PROVE  DraftInv'
  BY <1>2, ModalityStep
<1>3. ASSUME NEW item \in needsReview, NEW chosen \in item.options, ResolveConflict(item, chosen)
      PROVE  DraftInv'
  BY <1>3, ConflictStep
<1>4. ASSUME NEW item \in needsReview, Exclude(item) PROVE DraftInv'
  BY <1>4, ExcludeStep
<1>5. CASE FollowUp
  <2>1. ASSUME NEW c \in criteria, NEW type \in Types, Amend(c, "type", type) PROVE DraftInv'
    BY <2>1, AmendStep
  <2>2. ASSUME NEW c \in criteria, NEW years \in Years, Amend(c, "years", years) PROVE DraftInv'
    BY <2>2, AmendStep
  <2> QED
    BY <1>5, <2>1, <2>2 DEF FollowUp
<1>6. CASE SetLimit
  <2>1. Sealed' /\ stage = "draft" /\ stage' = "draft"
    BY <1>6 DEF SetLimit, Sealed
  <2> QED
    BY <1>6, <2>1, DraftKept DEF SetLimit
<1>7. CASE Confirm
  <2>1. ~RequiresResolution' /\ Proven'
    <3>1. ~RequiresResolution /\ Proven
      BY <1>7 DEF Confirm
    <3>2. ~RequiresResolution'
      BY <1>7, <3>1 DEF Confirm, RequiresResolution
    <3>3. Proven'
      BY <1>7, <3>1, ProvenKept DEF Confirm
    <3> QED
      BY <3>2, <3>3
  <2>2. stage = "draft" /\ stage' = "confirmed"
    BY <1>7 DEF Confirm
  <2> QED
    BY <1>7, <2>1, <2>2, DraftKept DEF Confirm, Sealed
<1>8. CASE UNCHANGED reviewVars
  <2>1. stage' = stage /\ limitOpen' = limitOpen
    BY <1>8 DEF reviewVars
  <2>2. UNCHANGED <<source, requirements, criteria, needsReview, decisions, resolutions,
                    amendments, lateJoins>>
    BY <1>8 DEF reviewVars
  <2>3. Sealed'
    BY <2>1, <2>2, ProvenKept DEF DraftInv, Sealed, RequiresResolution
  <2> QED
    BY <2>1, <2>2, <2>3, DraftKept
<1> QED
  BY <1>1, <1>2, <1>3, <1>4, <1>5, <1>6, <1>7, <1>8 DEF ReviewNext

\* Without a late join the draft can be proven, whatever still waits.
LEMMA DraftProvable ==
    ASSUME DraftAssumption, DraftInv, stage = "draft", lateJoins = {}
    PROVE  Proven
<1>1. {requirements[s].criterion : s \in {t \in Spans : requirements[t].state = "SCORABLE"}}
         = {c.id : c \in criteria}
  <2>1. \A s \in Spans : requirements[s].state = "SCORABLE" =>
            \E c \in criteria : c.id = requirements[s].criterion
    BY DEF DraftInv, CriteriaSound, Scorable
  <2>2. \A c \in criteria : /\ c.id \in Spans /\ requirements[c.id].state = "SCORABLE"
                            /\ requirements[c.id].criterion = c.id
    BY DEF DraftInv, CriteriaSound, Scorable, DraftTyped, CriterionRecs
  <2> QED
    BY <2>1, <2>2
<1>2. \A c, d \in criteria : c.subject = d.subject => c = d
  BY DEF DraftInv, CriteriaSound
<1>3. OptionsHold
  BY DEF DraftInv, Settlements, OptionsHold
<1>4. DecisionsHold
  <2>1. SUFFICES ASSUME NEW s \in Spans, Scorable(s)
                 PROVE  OriginOf(s).type # Unset /\ (decisions[s] \in Types => source[s].type = Unset)
    BY DEF DecisionsHold, Scorable
  <2>2. decisions[s] \in Types => source[s].type = Unset
    BY <2>1 DEF DraftInv, DecisionsSound
  <2>3. CASE \E r \in resolutions : s \in r.spans
    <3>1. PICK r \in resolutions : s \in r.spans
      BY <2>3
    <3>2. OriginOf(s) = r.chosen
      BY <3>1, OriginOfIn, OriginSettled DEF DraftInv, Settlements
    <3> QED
      BY <2>2, <3>2 DEF DraftInv, Settlements, DraftAssumption
  <2>4. CASE ~\E r \in resolutions : s \in r.spans
    <3>1. decisions[s] \in Types \/ source[s].type \in Types
      BY <2>1, <2>4 DEF DraftInv, DecisionsSound
    <3>2. OriginOf(s).type = IF decisions[s] \in Types THEN decisions[s] ELSE source[s].type
      BY <2>4 DEF OriginOf
    <3> QED
      BY <2>2, <3>1, <3>2 DEF DraftAssumption
  <2> QED
    BY <2>3, <2>4
<1>5. ExclusionsHold
  <2>1. \A s \in Spans : decisions[s] = "EXCLUDED" =>
            \E item \in needsReview : item.excluded /\ item.span = s
    BY DEF DraftInv, DecisionsSound
  <2>2. \A item \in needsReview : item.excluded =>
            item.span \in Spans /\ decisions[item.span] = "EXCLUDED"
    BY DEF DraftInv, ItemsWait, ItemSound
  <2> QED
    BY <2>1, <2>2 DEF ExclusionsHold
<1>6. \A c \in criteria : Explained(c)
  <2>1. SUFFICES ASSUME NEW c \in criteria PROVE Explained(c)
    OBVIOUS
  <2>2. c.id \in Supporting(c)
    BY DEF DraftInv, CriteriaSound, Scorable, Supporting, DraftTyped, CriterionRecs
  <2>3. \A s \in Supporting(c) : Replays(OriginOf(s), c)
    BY DEF DraftInv, OriginsLead
  <2>4. \A s, t \in Supporting(c) : OriginOf(t) = OriginOf(s)
    BY DEF DraftInv, OriginsLead
  <2> QED
    BY <2>2, <2>3, <2>4 DEF Explained
<1> QED
  BY <1>1, <1>2, <1>3, <1>4, <1>5, <1>6 DEF Proven

LEMMA WeightShown ==
    ASSUME DraftAssumption, DraftInv
    PROVE  OneWeightAsShown
  BY DEF DraftInv, CriteriaSound, Scorable, OneWeightAsShown

LEMMA MustHaveKeptByInv ==
    ASSUME DraftAssumption, DraftInv
    PROVE  MustHaveKept
<1>1. SUFFICES ASSUME stage = "confirmed", NEW s \in Spans, source[s].type = "MUST_HAVE",
                      Interpretable(s), ~Decided(s)
               PROVE  /\ requirements[s].state = "SCORABLE"
                      /\ \E c \in criteria : c.id = requirements[s].criterion /\ c.type = "MUST_HAVE"
  BY DEF MustHaveKept
<1>2. ~RequiresResolution /\ Proven
  BY <1>1 DEF DraftInv, Sealed
<1>3. ASSUME NEW item \in needsReview, s \in item.spans PROVE FALSE
  <2>1. ~item.excluded
    BY <1>1, <1>3 DEF Decided
  <2>2. ItemSound(item)
    BY DEF DraftInv, ItemsWait
  <2>3. item.blocking
    BY <1>1, <1>3, <2>2 DEF ItemSound
  <2> QED
    BY <1>2, <2>1, <2>3 DEF RequiresResolution
<1>4. Scorable(s)
  BY <1>1, <1>3 DEF DraftInv, Accounted
<1>5. PICK c \in criteria : c.id = requirements[s].criterion
  BY <1>4 DEF DraftInv, CriteriaSound
<1>6. s \in Supporting(c) /\ Explained(c)
  BY <1>2, <1>4, <1>5 DEF Proven, Supporting, Scorable
<1>7. PICK o : o = OriginOf(s)
  OBVIOUS
<1>8. Leads(amendments, o, c)
  BY <1>6, <1>7, ReplaysLeads DEF Explained
<1>9. \A i \in DOMAIN amendments : amendments[i].criterion # c.id
  BY <1>1, <1>5 DEF Decided
<1>10. c["type"] = o["type"]
  BY <1>8, <1>9, LeadsUntouched DEF DraftInv, DraftTyped
<1>11. o.type = "MUST_HAVE"
  <2>1. \A r \in resolutions : s \notin r.spans
    BY <1>1 DEF Decided
  <2>2. decisions[s] \notin Types
    BY <1>1 DEF DraftInv, DecisionsSound, DraftAssumption, Types
  <2> QED
    BY <1>1, <1>7, <2>1, <2>2 DEF OriginOf
<1> QED
  BY <1>4, <1>5, <1>10, <1>11 DEF Scorable

\* RefusedOnlyAfterLateJoin and WeightsAsWritten of DraftReview, for any text,
\* any spans and any proposals, and any number of clicks and follow-ups: a
\* draft can be proven to come from its text and HR's decisions unless a span
\* joined a criterion that a follow-up had changed; a requirement has one
\* weight, shown as it is given; and an explicit must-have stays one unless HR
\* decided otherwise (build_agent_semantic_provenance and the draft review of
\* agent/service.py).
THEOREM DraftsStayProvable ==
    ASSUME DraftAssumption
    PROVE  ReviewSpec => []ReviewHolds
<1>1. ReviewInit => DraftInv
  BY DraftInitial
<1>2. DraftInv /\ [ReviewNext]_reviewVars => DraftInv'
  BY DraftStep
<1>3. DraftInv => ReviewHolds
  BY DraftProvable, WeightShown, MustHaveKeptByInv
     DEF RefusedOnlyAfterLateJoin, WeightsAsWritten, ReviewHolds
<1> QED
  BY <1>1, <1>2, <1>3, PTL DEF ReviewSpec
================================================================================
