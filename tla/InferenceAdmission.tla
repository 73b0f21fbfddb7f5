------------------------- MODULE InferenceAdmission -------------------------
(***************************************************************************)
(* The process-wide gate every local inference call passes                 *)
(* (llm/concurrency.py): at most MaxActive calls hold a slot, at most      *)
(* MaxQueued wait in FIFO order, a call beyond that is refused at once.    *)
(*                                                                         *)
(* The gate is asyncio code, so a step runs up to the next await.  What    *)
(* makes it delicate is the gap between the moment a releasing holder sets *)
(* a waiter's future and the moment that waiter's task runs again: a       *)
(* timeout or a client disconnect may be delivered in between.  A task is  *)
(* therefore in one of these states:                                       *)
(*   idle       not calling                                                *)
(*   queued     awaiting a pending future that sits in the deque           *)
(*   handed     its future has a result, the task has not resumed          *)
(*   revoked    as handed, but a timeout or cancel was delivered since     *)
(*   withdrawn  its pending future was cancelled, the task has not resumed *)
(*   holding    inside the body of slot()                                  *)
(***************************************************************************)
EXTENDS Naturals, Sequences, FiniteSets

CONSTANTS
    Callers,    \* tasks that call the LLM or the embedding provider
    MaxActive,  \* settings.inference_concurrency
    MaxQueued   \* settings.inference_queue_max_waiters

\* The constructor's checks (concurrency.py:90-93).
ASSUME GateAssumption ==
    /\ IsFiniteSet(Callers)
    /\ MaxActive \in Nat \ {0}
    /\ MaxQueued \in Nat

VARIABLES
    active,         \* _active
    waiters,        \* _waiters, left end first
    task,           \* where each caller's task is
    saturatedSince  \* _saturated_since is not None

vars == <<active, waiters, task, saturatedSince>>

TaskStates == {"idle", "queued", "handed", "revoked", "withdrawn", "holding"}

\* A slot belongs to a caller from the moment it is handed over.
SlotStates == {"handed", "revoked", "holding"}

Owners == {c \in Callers : task[c] \in SlotStates}

Init ==
    /\ active = 0
    /\ waiters = <<>>
    /\ task = [c \in Callers |-> "idle"]
    /\ saturatedSince = FALSE

saturated(a, w) == a >= MaxActive /\ Len(w) >= MaxQueued

\* Every change of the two counters is followed by this call.
track_saturation == saturatedSince' = saturated(active', waiters')

----------------------------------------------------------------------------
\* _release, run by caller c whose task then leaves the gate: pop futures until
\* a pending one is found and hand it the slot, or free the slot.
Live == {i \in 1..Len(waiters) : task[waiters[i]] = "queued"}

\* Variant: hands over without the done() check.
HandOverHead(c) ==
    /\ waiters # <<>>
    /\ waiters' = Tail(waiters)
    /\ task' = [task EXCEPT ![c] = "idle", ![Head(waiters)] = "handed"]
    /\ active' = active

HandOver(c) ==
    \E i \in Live :
        /\ \A j \in Live : i <= j
        /\ waiters' = SubSeq(waiters, i + 1, Len(waiters))
        /\ task' = [task EXCEPT ![c] = "idle", ![waiters[i]] = "handed"]
        /\ active' = active

FreeSlot(c) ==
    /\ Live = {}
    /\ waiters' = <<>>
    /\ task' = [task EXCEPT ![c] = "idle"]
    /\ active' = active - 1

release(c) ==
    /\ HandOver(c) \/ FreeSlot(c)
    /\ track_saturation

----------------------------------------------------------------------------
\* _acquire up to its await: admitted on the spot, or enqueued.  A call that
\* finds MaxQueued futures in the deque is refused and changes nothing.
AcquireFree(c) ==
    /\ task[c] = "idle"
    /\ active < MaxActive
    /\ waiters = <<>>
    /\ active' = active + 1
    /\ task' = [task EXCEPT ![c] = "holding"]
    /\ waiters' = waiters
    /\ track_saturation

AcquireEnqueue(c) ==
    /\ task[c] = "idle"
    /\ ~(active < MaxActive /\ waiters = <<>>)
    /\ Len(waiters) < MaxQueued
    /\ waiters' = Append(waiters, c)
    /\ task' = [task EXCEPT ![c] = "queued"]
    /\ active' = active
    /\ track_saturation

\* The queue timeout fires, or the request's task is cancelled.  A pending
\* future is cancelled but stays in the deque until the task runs; a future
\* that already has its result cannot be cancelled and the exception is thrown
\* into the task when it resumes.
Interrupt(c) ==
    /\ \/ task[c] = "queued" /\ task' = [task EXCEPT ![c] = "withdrawn"]
       \/ task[c] = "handed" /\ task' = [task EXCEPT ![c] = "revoked"]
    /\ UNCHANGED <<active, waiters, saturatedSince>>

\* The task resumes after its await: into the body, or into the except clause.
ResumeAdmitted(c) ==
    /\ task[c] = "handed"
    /\ task' = [task EXCEPT ![c] = "holding"]
    /\ UNCHANGED <<active, waiters, saturatedSince>>

ResumeGiveBack(c) ==
    /\ task[c] = "revoked"
    /\ release(c)

Without(s, i) == SubSeq(s, 1, i - 1) \o SubSeq(s, i + 1, Len(s))

\* Variant: the cancelled future is left in the deque.
ResumeWithdrawnLeft(c) ==
    /\ task[c] = "withdrawn"
    /\ task' = [task EXCEPT ![c] = "idle"]
    /\ UNCHANGED <<active, waiters, saturatedSince>>

ResumeWithdrawn(c) ==
    /\ task[c] = "withdrawn"
    /\ \/ \E i \in 1..Len(waiters) : waiters[i] = c /\ waiters' = Without(waiters, i)
       \/ (\A i \in 1..Len(waiters) : waiters[i] # c) /\ waiters' = waiters
    /\ task' = [task EXCEPT ![c] = "idle"]
    /\ active' = active
    /\ track_saturation

\* The body of slot() ends, normally or with an exception.
ExitSlot(c) ==
    /\ task[c] = "holding"
    /\ release(c)

Resume(c) == ResumeAdmitted(c) \/ ResumeGiveBack(c) \/ ResumeWithdrawn(c)

Next ==
    \E c \in Callers :
        \/ AcquireFree(c)
        \/ AcquireEnqueue(c)
        \/ Interrupt(c)
        \/ Resume(c)
        \/ ExitSlot(c)

\* The event loop runs every ready task, and a body ends because each provider
\* call carries an HTTP timeout.  Nothing obliges a timeout to fire first.
Fairness == \A c \in Callers : WF_vars(Resume(c)) /\ WF_vars(ExitSlot(c))

Spec == Init /\ [][Next]_vars /\ Fairness

----------------------------------------------------------------------------
TypeOK ==
    /\ active \in 0..MaxActive
    /\ waiters \in Seq(Callers)
    /\ task \in [Callers -> TaskStates]
    /\ saturatedSince \in BOOLEAN

\* _active counts exactly the callers that own a slot, in the body or about to
\* resume: no interleaving of hand-over, timeout and cancellation leaks a slot
\* or gives one out twice, so at most MaxActive inferences run.
SlotAccounting == active = Cardinality(Owners)

\* A live waiter is in the deque exactly once, so a release can always find it,
\* and no caller that has left the gate is still there to be handed a slot.
NoLostWaiter ==
    /\ \A c \in Callers :
        task[c] = "queued" => \E i \in 1..Len(waiters) : waiters[i] = c
    /\ \A i, j \in 1..Len(waiters) : waiters[i] = waiters[j] => i = j
    /\ \A i \in 1..Len(waiters) : task[waiters[i]] \in {"queued", "withdrawn"}

\* Nobody waits while a slot is free, and the queue keeps its bound.
WorkConserving ==
    /\ waiters # <<>> => active = MaxActive
    /\ Len(waiters) <= MaxQueued

\* saturated_for_seconds, which readiness reports, is measured from the moment
\* the gate became saturated: the clock runs exactly while it is saturated.
SaturationTracked == saturatedSince = saturated(active, waiters)

\* Is c in front of d in the deque?
Before(c, d) == \E i, j \in 1..Len(waiters) : i < j /\ waiters[i] = c /\ waiters[j] = d

\* FIFO: a caller gets a slot neither before a live waiter in front of it, nor
\* by walking past the queue.
NoOvertaking ==
    [][\A c, d \in Callers :
        (task[d] \notin SlotStates /\ task'[d] \in SlotStates
            /\ c # d /\ task[c] = "queued" /\ task'[c] = "queued")
        => Before(d, c)]_vars

----------------------------------------------------------------------------
\* What the gate promises, without futures and without the event loop.  Its
\* fairness carries the wake-up: a holder's leaving hands the slot on.
Waiting == {c \in Callers : task[c] = "queued"}
Ahead == {p \in Waiting \X Waiting : Before(p[1], p[2])}

Pool == INSTANCE SlotPool WITH holders <- Owners, waiting <- Waiting, ahead <- Ahead

PoolSpec == Pool!Spec
============================================================================
