-------------------------- MODULE ParserSupervision --------------------------
(***************************************************************************)
(* The small gate in front of document parsing (ingestion/admission.py)    *)
(* and what it is held around: a supervised child process                  *)
(* (parser_supervisor.py and the photo pass), or the thread that validates *)
(* an upload (ingestion/validation.py).  Each of the three has a gate of   *)
(* its own, so one behaviour of this module has one kind of work.          *)
(*                                                                         *)
(* Like the inference gate this is asyncio code: a step runs to the next   *)
(* await, and an exception delivered to a waiting task is seen only when   *)
(* the task runs.  A request is at                                         *)
(*   idle      not in a call                                               *)
(*   waiting   in acquire's await; it was handed a slot once its future is *)
(*             no longer in the deque                                      *)
(*   starting  awaiting the spawn of its child                             *)
(*   working   awaiting the child's output and exit                        *)
(*   cleaning  in the finally clause, where cancellation is put off        *)
(*   shielded  awaiting its validation thread                              *)
(* What a call answers (a result, a failure code, PARSER_BUSY, a           *)
(* cancellation) is left out: no step depends on it.                       *)
(***************************************************************************)
EXTENDS Naturals, Sequences, FiniteSets

CONSTANTS
    Requests,   \* requests that parse; one call of each at a time
    Capacity,   \* AdmissionGate.capacity
    MaxWaiters  \* AdmissionGate.max_waiters

VARIABLES
    work,     \* what the slot is held around: "child" or "thread"
    busy,     \* AdmissionGate.active: the slots in use
    line,     \* AdmissionGate.waiters, left end first
    at,       \* where each request is
    raised,   \* a timeout or cancellation is on its way to the waiting task
    helper    \* its process or thread: none, starting, failed, running, done

parserVars == <<work, busy, line, at, raised, helper>>

ParserInit ==
    /\ work \in {"child", "thread"}
    /\ busy = 0
    /\ line = <<>>
    /\ at = [r \in Requests |-> "idle"]
    /\ raised = [r \in Requests |-> FALSE]
    /\ helper = [r \in Requests |-> "none"]

\* What the module assumes of its constants.
ParserAssumption ==
    IsFiniteSet(Requests) /\ Capacity \in Nat \ {0} /\ MaxWaiters \in Nat

InLine(r) == \E i \in 1..Len(line) : line[i] = r

\* waiters.remove
Leave(r) ==
    \E i \in 1..Len(line) :
        /\ line[i] = r
        /\ line' = SubSeq(line, 1, i - 1) \o SubSeq(line, i + 1, Len(line))

\* The entry of a slot's body, which has no await before the helper is started.
Begin(r) ==
    /\ at' = [at EXCEPT ![r] = IF work = "child" THEN "starting" ELSE "shielded"]
    /\ helper' = [helper EXCEPT ![r] = IF work = "child" THEN "starting" ELSE "running"]

Ends(r) ==
    /\ at' = [at EXCEPT ![r] = "idle"]
    /\ raised' = [raised EXCEPT ![r] = FALSE]

----------------------------------------------------------------------------
\* acquire up to its await.  A call that finds MaxWaiters in line is refused and
\* changes nothing.
AcquireSlot(r) ==
    /\ at[r] = "idle" /\ helper[r] = "none"
    /\ busy < Capacity
    /\ busy' = busy + 1
    /\ Begin(r)
    /\ UNCHANGED <<work, line, raised>>

AcquireWait(r) ==
    /\ at[r] = "idle" /\ helper[r] = "none"
    /\ busy >= Capacity
    /\ Len(line) < MaxWaiters
    /\ line' = Append(line, r)
    /\ at' = [at EXCEPT ![r] = "waiting"]
    /\ UNCHANGED <<work, busy, raised, helper>>

\* The oldest future gets the slot, whatever has been delivered to its task.
releaseSlot ==
    \/ /\ line # <<>>
       /\ line' = Tail(line)
       /\ busy' = busy
    \/ /\ line = <<>>
       /\ line' = line
       /\ busy' = busy - 1

Admitted(r) ==
    /\ at[r] = "waiting" /\ ~raised[r] /\ ~InLine(r)
    /\ Begin(r)
    /\ UNCHANGED <<work, busy, line, raised>>

\* Variant: a slot handed over just before the exception is not given back.
TurnedAwayKeepsSlot(r) ==
    /\ at[r] = "waiting" /\ raised[r]
    /\ IF InLine(r) THEN Leave(r) ELSE line' = line
    /\ busy' = busy
    /\ Ends(r)
    /\ UNCHANGED <<work, helper>>

\* The except clause of acquire: leave the line, or give back the slot.
TurnedAway(r) ==
    /\ at[r] = "waiting" /\ raised[r]
    /\ \/ Leave(r) /\ busy' = busy
       \/ ~InLine(r) /\ releaseSlot
    /\ Ends(r)
    /\ UNCHANGED <<work, helper>>

----------------------------------------------------------------------------
\* The environment: timers and the client's cancellation.  An exception that
\* reaches acquire's await is seen when the task runs.
InterruptWait(r) ==
    /\ at[r] = "waiting" /\ ~raised[r]
    /\ raised' = [raised EXCEPT ![r] = TRUE]
    /\ UNCHANGED <<work, busy, line, at, helper>>

\* Variant: a cancellation also interrupts the clean-up.
InterruptCleanupToo(r) ==
    \/ /\ at[r] \in {"starting", "working"}
       /\ at' = [at EXCEPT ![r] = "cleaning"]
       /\ UNCHANGED <<work, busy, line, raised, helper>>
    \/ /\ at[r] = "cleaning"
       /\ releaseSlot
       /\ Ends(r)
       /\ UNCHANGED <<work, helper>>

\* The deadline around startup and work, or a cancellation: into the finally
\* clause, whether or not the child exists yet.  A cancellation that arrives
\* there is put off by _finish and changes nothing.
InterruptWork(r) ==
    /\ at[r] \in {"starting", "working"}
    /\ at' = [at EXCEPT ![r] = "cleaning"]
    /\ UNCHANGED <<work, busy, line, raised, helper>>

\* validate_upload_async is only awaited through a shield: its caller leaves at
\* once, its thread goes on and keeps the slot.
CancelShielded(r) ==
    /\ at[r] = "shielded" /\ helper[r] = "running"
    /\ at' = [at EXCEPT ![r] = "idle"]
    /\ UNCHANGED <<work, busy, line, raised, helper>>

----------------------------------------------------------------------------
\* run_bounded_worker.  The operating system resolves the spawn either way, and
\* a child exits by itself or not at all.
SpawnResolves(r) ==
    /\ helper[r] = "starting"
    /\ \E h \in {"running", "failed"} : helper' = [helper EXCEPT ![r] = h]
    /\ UNCHANGED <<work, busy, line, at, raised>>

ChildExits(r) ==
    /\ work = "child" /\ helper[r] = "running"
    /\ helper' = [helper EXCEPT ![r] = "done"]
    /\ UNCHANGED <<work, busy, line, at, raised>>

Started(r) ==
    /\ at[r] = "starting" /\ helper[r] # "starting"
    /\ at' = [at EXCEPT ![r] = IF helper[r] = "failed" THEN "cleaning" ELSE "working"]
    /\ UNCHANGED <<work, busy, line, raised, helper>>

\* The child is over and its exit code read, or its output passed the limit
\* while it runs.
WorkEnds(r) ==
    /\ at[r] = "working"
    /\ at' = [at EXCEPT ![r] = "cleaning"]
    /\ UNCHANGED <<work, busy, line, raised, helper>>

\* _reap: terminate, after CLEANUP_SECONDS kill, then wait.
Reap(r) ==
    /\ at[r] = "cleaning" /\ helper[r] = "running"
    /\ helper' = [helper EXCEPT ![r] = "done"]
    /\ UNCHANGED <<work, busy, line, at, raised>>

\* Variant: the clean-up does not wait for a spawn the deadline interrupted.
FinishBeforeSpawn(r) ==
    /\ at[r] = "cleaning" /\ helper[r] \in {"starting", "failed", "done"}
    /\ releaseSlot
    /\ Ends(r)
    /\ helper' = IF helper[r] = "starting" THEN helper ELSE [helper EXCEPT ![r] = "none"]
    /\ work' = work

\* Cleanup is over and the child reaped: the slot's body ends.
Finish(r) ==
    /\ at[r] = "cleaning" /\ helper[r] \in {"failed", "done"}
    /\ releaseSlot
    /\ Ends(r)
    /\ helper' = [helper EXCEPT ![r] = "none"]
    /\ work' = work

----------------------------------------------------------------------------
\* validate_upload_async: the thread ends and gives the slot back, whether its
\* caller is still there or not.
ThreadEnds(r) ==
    /\ work = "thread" /\ helper[r] = "running"
    /\ releaseSlot
    /\ helper' = [helper EXCEPT ![r] = IF at[r] = "shielded" THEN "done" ELSE "none"]
    /\ UNCHANGED <<work, at, raised>>

ShieldEnds(r) ==
    /\ at[r] = "shielded" /\ helper[r] = "done"
    /\ Ends(r)
    /\ helper' = [helper EXCEPT ![r] = "none"]
    /\ UNCHANGED <<work, busy, line>>

----------------------------------------------------------------------------
\* What the loop, the operating system and the timers do for a request.
Served(r) ==
    Admitted(r) \/ TurnedAway(r) \/ SpawnResolves(r) \/ Started(r) \/ InterruptWork(r)
        \/ Reap(r) \/ Finish(r) \/ ThreadEnds(r) \/ ShieldEnds(r)

ParserNext ==
    \E r \in Requests :
        \/ AcquireSlot(r) \/ AcquireWait(r)
        \/ InterruptWait(r) \/ CancelShielded(r)
        \/ ChildExits(r) \/ WorkEnds(r)
        \/ Served(r)

\* The loop runs ready tasks, a spawn resolves, timers fire, a killed process
\* and a bounded validation end.  Neither the admission timeout nor a child's
\* own exit is relied on.
ParserFairness == \A r \in Requests : WF_parserVars(Served(r))

ParserSpec == ParserInit /\ [][ParserNext]_parserVars /\ ParserFairness

----------------------------------------------------------------------------
ParserTypeOK ==
    /\ work \in {"child", "thread"}
    /\ busy \in 0..Capacity
    /\ line \in Seq(Requests)
    /\ at \in [Requests -> {"idle", "waiting", "starting", "working", "cleaning", "shielded"}]
    /\ raised \in [Requests -> BOOLEAN]
    /\ helper \in [Requests -> {"none", "starting", "failed", "running", "done"}]

Alive == {r \in Requests : helper[r] \in {"starting", "running"}}

\* Requests that hold a slot: handed one, in its body, or left to a thread.
Holders ==
    {r \in Requests :
        \/ at[r] = "waiting" /\ ~InLine(r)
        \/ at[r] \in {"starting", "working", "cleaning"}
        \/ work = "thread" /\ helper[r] = "running"}

\* No cancellation or deadline, wherever it lands, lets more parser processes
\* or validation threads live than the gate admits, or leaves one behind a
\* slot that was given back (the promise of run_bounded_worker's clean-up and
\* of validate_upload_async's "retain slot on cancellation").
HelpersHoldSlots == Alive \subseteq Holders /\ Cardinality(Alive) <= Capacity

\* Every call comes back and nothing it started outlives it for ever, even if
\* its child hangs and no client gives up.
CallsEnd ==
    \A r \in Requests :
        at[r] # "idle" \/ helper[r] # "none" ~> at[r] = "idle" /\ helper[r] = "none"

LineOrder ==
    {p \in Requests \X Requests :
        \E i, j \in 1..Len(line) : i < j /\ line[i] = p[1] /\ line[j] = p[2]}

ParserPool == INSTANCE SlotPool
            WITH Callers <- Requests, MaxActive <- Capacity, MaxQueued <- MaxWaiters,
                 holders <- Holders, waiting <- {r \in Requests : InLine(r)},
                 ahead <- LineOrder

\* The second gate of the system keeps the promise of the first: one pool of
\* slots, handed over in the order of arrival.
ParserPoolSpec == ParserPool!Spec
============================================================================
