------------------------------ MODULE AgentTurn ------------------------------
(***************************************************************************)
(* One durable conversation and the HTTP requests that submit turns to it  *)
(* (application/conversations.py submit_conversation_turn over             *)
(* agent/turn_boundary.py and services/agent_submission_repo.py), with the *)
(* draft actions of the same conversation (application/drafts.py), logout  *)
(* and suspension, and the maintenance that retires browser sessions.      *)
(*                                                                         *)
(* No row lock is held across local inference: a turn reserves the         *)
(* conversation, commits, calls the model, and revalidates in a fresh      *)
(* transaction.  An action is one database transaction (its rows are       *)
(* locked to its end) or one step outside any.  The unlocked read that     *)
(* precedes the reservation, and each second transaction of an error path, *)
(* are actions of their own.                                               *)
(*                                                                         *)
(* A submission is the single-use identity of one user message.  Several   *)
(* requests may carry the same one: a double click, a retry, a reload.     *)
(***************************************************************************)
EXTENDS Naturals, FiniteSets

CONSTANTS
    Turns,       \* HTTP requests; a request's identity is its reservation token
    Subs,        \* AgentTurnSubmission ids
    Sessions,    \* BrowserSessions of the conversation's one owner
    Messages,    \* semantic requests, told apart by their request_sha256
    None,        \* NULL
    MaxCalls,    \* bound: model calls of one turn
    MaxVersion   \* bound: transcript versions reached through draft reviews

ASSUME TurnAssumption ==
    /\ IsFiniteSet(Turns)
    /\ None \notin Turns \cup Subs \cup Sessions \cup Messages
    /\ MaxCalls \in Nat
    /\ MaxVersion \in Nat

VARIABLES
    conv,     \* the conversation row: reservation and turn_version
    ctx,      \* session -> its context row: epoch (0: no row), pending draft
    session,  \* session -> live, revoked (logout, suspension, expiry), retired
    sub,      \* submission id -> its row
    turn,     \* request -> where its handler is and what it remembers
    jobs      \* draft id -> Jobs created by confirming it

vars == <<conv, ctx, session, sub, turn, jobs>>

\* A draft is named after the turn that put it into the transcript.
Drafts == Turns

Row(status, s, epoch) ==
    [status |-> status, session |-> s, epoch |-> epoch, msg |-> None,
     owner |-> None, leased |-> FALSE, fresh |-> TRUE]

Fresh == [pc |-> "new", sub |-> None, msg |-> None, base |-> 0, epoch |-> 0,
          draft |-> None, calls |-> 0, at |-> 0, outcome |-> "none"]

Init ==
    /\ conv = [turn |-> None, live |-> FALSE, version |-> 0]
    /\ ctx = [s \in Sessions |-> [epoch |-> 0, draft |-> None]]
    /\ session = [s \in Sessions |-> "live"]
    /\ sub = [i \in Subs |-> Row("unissued", None, 0)]
    /\ turn = [r \in Turns |-> Fresh]
    /\ jobs = [d \in Drafts |-> 0]

SessionOf(r) == sub[turn[r].sub].session
Live(s) == session[s] = "live"

----------------------------------------------------------------------------
\* get_or_create_session_context: the epoch of the session's context; a new
\* context is one past the highest epoch among the contexts that exist.
EpochsFor(s) ==
    IF ctx[s].epoch # 0 THEN {ctx[s].epoch}
    ELSE {e \in {ctx[t].epoch + 1 : t \in Sessions} : \A t \in Sessions : ctx[t].epoch < e}

\* The rows issue_submission deletes first: expired, and not held by a turn
\* that may still be running.
Collectable(i) ==
    /\ ~sub[i].fresh
    /\ sub[i].status \notin {"unissued", "gone"}
    /\ \/ sub[i].status # "PROCESSING"
       \/ ~sub[i].leased /\ (conv.turn # sub[i].owner \/ ~conv.live)

Issue(i, s) ==
    /\ sub[i].status = "unissued" /\ Live(s)
    /\ \E e \in EpochsFor(s) :
         sub' = [j \in Subs |->
                   IF j = i THEN Row("ISSUED", s, e)
                   ELSE IF Collectable(j) THEN [sub[j] EXCEPT !.status = "gone"]
                   ELSE sub[j]]
    /\ UNCHANGED <<conv, ctx, session, turn, jobs>>

----------------------------------------------------------------------------
\* The handler's steps: where it goes next, and the outcome it reports.  The
\* outcomes STALE, BUSY, PROVIDER_FAILURE and CLIENT_DISCONNECTED of a turn that
\* was reserved and did not complete share one error path, "NOT_RUN" here.
Goto(r, pc) == turn' = [turn EXCEPT ![r].pc = pc]
Finish(r, o) == turn' = [turn EXCEPT ![r].pc = "done", ![r].outcome = o]
FailWith(r, o) == turn' = [turn EXCEPT ![r].pc = "abandoning", ![r].outcome = o]

\* The read before any lock: which row does this request name, and is the
\* answer already known?
Start(r) ==
    /\ turn[r].pc = "new"
    /\ \E i \in Subs, m \in Messages :
        LET row == sub[i]
            go(pc, o) == turn' = [turn EXCEPT ![r] =
                           [Fresh EXCEPT !.pc = pc, !.sub = i, !.msg = m, !.outcome = o]]
        IN /\ row.status # "unissued" /\ Live(row.session)
           /\ \/ /\ \/ row.status = "gone" \/ ~row.fresh
                    \/ row.msg \notin {None, m}
                 /\ go("done", "NOT_FOUND")
              \/ /\ row.status # "gone" /\ row.fresh /\ row.msg \in {None, m}
                 /\ \/ row.status = "COMPLETED" /\ go("done", "REPLAYED")
                    \/ row.status = "PROCESSING" /\ row.leased /\ go("done", "IN_PROGRESS")
                    \/ /\ row.status # "COMPLETED"
                       /\ ~(row.status = "PROCESSING" /\ row.leased)
                       /\ go("checked", "none")
    /\ UNCHANGED <<conv, ctx, session, sub, jobs>>

\* Variant: the status is not looked at.
ClaimableAnyStatus(i, m, epoch) ==
    /\ sub[i].msg \in {None, m}
    /\ sub[i].fresh /\ sub[i].epoch = epoch

\* claim_submission, under the conversation lock.
Claimable(i, m, epoch) ==
    /\ sub[i].msg \in {None, m}
    /\ sub[i].fresh /\ sub[i].epoch = epoch
    /\ \/ sub[i].status = "ISSUED"
       \/ sub[i].status = "PROCESSING" /\ ~sub[i].leased

\* Variant: the request hash is not compared again under the lock.
AnsweredAnyMessage(i, m) == sub[i].status = "COMPLETED"

Answered(i, m) == sub[i].status = "COMPLETED" /\ sub[i].msg = m

\* Variant: the reservation's expiry is ignored.
ReservedForever == conv.turn # None

Reserved == conv.turn # None /\ conv.live

\* Phase A looks at the user and at the tenant, which may both still be active
\* when the session was logged out or expired since the handler read it; it
\* needs the session's row, which the context refers to.
MayReserve(s) == session[s] # "retired"

\* Phase A commits: reservation, context and claim become durable together.
\* The turn goes on with a model call or, if it needs none, with Phase B.
Reserve(r) ==
    LET i == turn[r].sub
        s == SessionOf(r)
    IN /\ turn[r].pc = "checked" /\ MayReserve(s) /\ ~Reserved
       /\ \E e \in EpochsFor(s), pc \in {"away", "phaseB"} :
            /\ Claimable(i, turn[r].msg, e)
            /\ ctx' = [ctx EXCEPT ![s].epoch = e]
            /\ turn' = [turn EXCEPT ![r].pc = pc, ![r].base = conv.version,
                                    ![r].epoch = e, ![r].draft = ctx[s].draft]
       /\ conv' = [conv EXCEPT !.turn = r, !.live = TRUE]
       /\ sub' = [sub EXCEPT ![i].status = "PROCESSING", ![i].msg = turn[r].msg,
                             ![i].owner = r, ![i].leased = TRUE]
       /\ UNCHANGED <<session, jobs>>

\* Phase A ends without a reservation: everything it wrote is rolled back.
RefuseReservation(r) ==
    LET i == turn[r].sub
        s == SessionOf(r)
    IN /\ turn[r].pc = "checked"
       /\ \/ ~Live(s) /\ Finish(r, "REVOKED")
          \/ MayReserve(s) /\ Reserved /\ Goto(r, "refused")
          \/ /\ MayReserve(s) /\ ~Reserved
             /\ \E e \in EpochsFor(s) : ~Claimable(i, turn[r].msg, e)
             /\ Finish(r, IF Answered(i, turn[r].msg) THEN "REPLAYED" ELSE "NOT_FOUND")
          \* a clarification button that is no longer active
          \/ /\ MayReserve(s) /\ ~Reserved
             /\ \E e \in EpochsFor(s) : Claimable(i, turn[r].msg, e)
             /\ Goto(r, "rejecting")
       /\ UNCHANGED <<conv, ctx, session, sub, jobs>>

\* The second transaction of both refusals: a submission that was never
\* claimed is spent.
RetireUnused(r) ==
    /\ turn[r].pc \in {"refused", "rejecting"}
    /\ sub' = IF sub[turn[r].sub].status = "ISSUED"
                THEN [sub EXCEPT ![turn[r].sub].status = "ABANDONED"] ELSE sub
    /\ Finish(r, IF turn[r].pc = "refused" THEN "IN_PROGRESS" ELSE "NOT_ACTIVE")
    /\ UNCHANGED <<conv, ctx, session, jobs>>

----------------------------------------------------------------------------
\* Variant: only the token is compared, not the state the turn was built on.
UnchangedSinceTokenOnly(r) == TRUE

\* revalidate_reserved_turn, in the order of its checks.
UnchangedSince(r) ==
    /\ conv.version = turn[r].base
    /\ ctx[SessionOf(r)] = [epoch |-> turn[r].epoch, draft |-> turn[r].draft]

\* Variant: the principal is trusted since the reservation.
PrincipalLiveOnce(r) == TRUE

PrincipalLive(r) == Live(SessionOf(r))

HoldsReservation(r) == conv.turn = r

Valid(r) == PrincipalLive(r) /\ HoldsReservation(r) /\ UnchangedSince(r)

LoseAuthority(r) ==
    /\ turn[r].pc \in {"away", "phaseB"} /\ ~Valid(r)
    /\ FailWith(r, IF PrincipalLive(r) THEN "NOT_RUN" ELSE "REVOKED")
    /\ UNCHANGED <<conv, ctx, session, sub, jobs>>

\* A model call returns (or fails and is handled); the turn re-enters, which
\* refreshes the reservation, and leaves again for another call or for Phase B.
Reenter(r) ==
    /\ turn[r].pc = "away" /\ Valid(r)
    /\ conv' = [conv EXCEPT !.live = TRUE]
    /\ \/ /\ turn[r].calls < MaxCalls
          /\ turn' = [turn EXCEPT ![r].calls = @ + 1]
       \/ turn' = [turn EXCEPT ![r].pc = "phaseB"]
       \/ FailWith(r, "NOT_RUN")
    /\ UNCHANGED <<ctx, session, sub, jobs>>

\* The inference gate refuses, or the client goes away while the turn runs.
LeaveEarly(r) ==
    /\ turn[r].pc = "away"
    /\ FailWith(r, "NOT_RUN")
    /\ UNCHANGED <<conv, ctx, session, sub, jobs>>

OwnsSubmission(r) ==
    LET row == sub[turn[r].sub]
    IN row.status = "PROCESSING" /\ row.owner = r /\ row.msg = turn[r].msg

\* The transaction of Phase B.  The transcript is written twice (the turn, then
\* its display text: every outcome has a headline); the live pointer keeps the
\* draft or moves to a new one.
\* COMMIT may succeed on the server and still raise here: then the handler
\* takes the error path of a turn that did commit.
Commit(r) ==
    LET s == SessionOf(r)
    IN /\ turn[r].pc = "phaseB" /\ Valid(r) /\ OwnsSubmission(r)
       /\ conv' = [conv EXCEPT !.turn = None, !.live = FALSE, !.version = @ + 2]
       /\ \E d \in {turn[r].draft, r} : ctx' = [ctx EXCEPT ![s].draft = d]
       /\ sub' = [sub EXCEPT ![turn[r].sub].status = "COMPLETED",
                             ![turn[r].sub].leased = FALSE]
       /\ \E o \in {"COMPLETED", "NOT_RUN"} :
            turn' = [turn EXCEPT ![r].at = conv.version + 2, ![r].outcome = o,
                       ![r].pc = IF o = "COMPLETED" THEN "done" ELSE "abandoning"]
       /\ UNCHANGED <<session, jobs>>

\* Phase B is rolled back: the submission changed hands (the one way forward
\* then), or the database fails.
PhaseBFails(r) ==
    /\ turn[r].pc = "phaseB" /\ Valid(r)
    /\ FailWith(r, "NOT_RUN")
    /\ UNCHANGED <<conv, ctx, session, sub, jobs>>

\* Variant: clears whatever reservation the conversation has.
AbandonAny(r) ==
    /\ turn[r].pc = "abandoning"
    /\ Goto(r, "done")
    /\ conv' = [conv EXCEPT !.turn = None, !.live = FALSE]
    /\ UNCHANGED <<ctx, session, jobs, sub>>

\* abandon_reserved_turn: clears its own reservation and gives up its own
\* claim, or fails and leaves both to their expiry.
Abandon(r) ==
    LET i == turn[r].sub
    IN /\ turn[r].pc = "abandoning"
       /\ Goto(r, "done")
       /\ \/ /\ conv' = IF conv.turn = r
                          THEN [conv EXCEPT !.turn = None, !.live = FALSE] ELSE conv
             /\ sub' = IF sub[i].status = "PROCESSING" /\ sub[i].owner = r
                         THEN [sub EXCEPT ![i].status = "ABANDONED", ![i].owner = None,
                                          ![i].leased = FALSE]
                         ELSE sub
          \/ UNCHANGED <<conv, sub>>
       /\ UNCHANGED <<ctx, session, jobs>>

Running == {"checked", "refused", "rejecting", "away", "phaseB", "abandoning"}

\* The process dies: open transactions are rolled back, nothing cleans up.
Crash(r) ==
    /\ turn[r].pc \in Running
    /\ Finish(r, "none")
    /\ UNCHANGED <<conv, ctx, session, sub, jobs>>

----------------------------------------------------------------------------
\* Time: the reservation's and the lease's 600 s, the submission's 24 h.
ExpireReservation ==
    /\ Reserved
    /\ conv' = [conv EXCEPT !.live = FALSE]
    /\ UNCHANGED <<ctx, session, sub, turn, jobs>>

ExpireLease(i) ==
    /\ sub[i].leased
    /\ sub' = [sub EXCEPT ![i].leased = FALSE]
    /\ UNCHANGED <<conv, ctx, session, turn, jobs>>

ExpireSubmission(i) ==
    /\ sub[i].status \notin {"unissued", "gone"} /\ sub[i].fresh
    /\ sub' = [sub EXCEPT ![i].fresh = FALSE]
    /\ UNCHANGED <<conv, ctx, session, turn, jobs>>

\* Logout, password change, membership or tenant suspension, session expiry.
Revoke(s) ==
    /\ Live(s)
    /\ session' = [session EXCEPT ![s] = "revoked"]
    /\ UNCHANGED <<conv, ctx, sub, turn, jobs>>

\* run_maintenance deletes a session row; its context and its submissions go
\* with it (ON DELETE CASCADE), the conversation stays.
RetireSession(s) ==
    /\ session[s] = "revoked"
    /\ session' = [session EXCEPT ![s] = "retired"]
    /\ ctx' = [ctx EXCEPT ![s] = [epoch |-> 0, draft |-> None]]
    /\ sub' = [i \in Subs |-> IF sub[i].session = s THEN [sub[i] EXCEPT !.status = "gone"]
                              ELSE sub[i]]
    /\ UNCHANGED <<conv, turn, jobs>>

\* resolve_pending_draft_authority: the session's own live pointer, re-read
\* under the conversation and context locks.
PendingDraft(s) == Live(s) /\ ctx[s].draft # None

\* Every write of the transcript advances turn_version.
BumpVersion == conv' = [conv EXCEPT !.version = @ + 1]

\* The draft actions take the same row locks and change the transcript, so a
\* turn in flight finds another turn_version; they ignore the reservation.
ResolveDraft(s) ==
    /\ PendingDraft(s) /\ conv.version < MaxVersion
    /\ BumpVersion
    /\ UNCHANGED <<ctx, session, sub, turn, jobs>>

\* Variant: the live pointer survives the confirmation.
ConfirmDraftKeepsPointer(s) ==
    /\ PendingDraft(s) /\ BumpVersion
    /\ jobs' = [jobs EXCEPT ![ctx[s].draft] = @ + 1]
    /\ UNCHANGED <<session, sub, turn, ctx>>

ConfirmDraft(s) ==
    /\ PendingDraft(s) /\ BumpVersion
    /\ jobs' = [jobs EXCEPT ![ctx[s].draft] = @ + 1]
    /\ ctx' = [ctx EXCEPT ![s].draft = None]
    /\ UNCHANGED <<session, sub, turn>>

Handler(r) ==
    \/ Reserve(r) \/ RefuseReservation(r) \/ RetireUnused(r)
    \/ LoseAuthority(r) \/ Reenter(r) \/ LeaveEarly(r)
    \/ Commit(r) \/ PhaseBFails(r) \/ Abandon(r)

Next ==
    \/ \E i \in Subs, s \in Sessions : Issue(i, s)
    \/ \E r \in Turns : Start(r) \/ Handler(r) \/ Crash(r)
    \/ ExpireReservation
    \/ \E i \in Subs : ExpireLease(i) \/ ExpireSubmission(i)
    \/ \E s \in Sessions : Revoke(s) \/ RetireSession(s) \/ ResolveDraft(s) \/ ConfirmDraft(s)

\* A handler runs to its end, since every model call has a timeout; a clock
\* reaches every deadline of a reservation.
Fairness ==
    /\ \A r \in Turns : WF_vars(Handler(r))
    /\ WF_vars(ExpireReservation /\ turn[conv.turn].pc = "done")

Spec == Init /\ [][Next]_vars /\ Fairness

----------------------------------------------------------------------------
Outcomes == {"none", "NOT_FOUND", "REPLAYED", "IN_PROGRESS", "NOT_ACTIVE", "REVOKED",
             "NOT_RUN", "COMPLETED"}

Statuses == {"unissued", "ISSUED", "PROCESSING", "COMPLETED", "ABANDONED", "gone"}

SubRows == [status : Statuses, session : Sessions \cup {None}, epoch : Nat,
            msg : Messages \cup {None}, owner : Turns \cup {None},
            leased : BOOLEAN, fresh : BOOLEAN]

TurnStates == [pc : Running \cup {"new", "done"}, sub : Subs \cup {None},
               msg : Messages \cup {None}, base : Nat, epoch : Nat,
               draft : Drafts \cup {None}, calls : Nat, at : Nat, outcome : Outcomes]

TypeOK ==
    /\ conv \in [turn : Turns \cup {None}, live : BOOLEAN, version : Nat]
    /\ ctx \in [Sessions -> [epoch : Nat, draft : Drafts \cup {None}]]
    /\ session \in [Sessions -> {"live", "revoked", "retired"}]
    /\ sub \in [Subs -> SubRows]
    /\ turn \in [Turns -> TurnStates]
    /\ jobs \in [Drafts -> Nat]

Committed(r) == turn[r].at # 0

\* A user message is answered at most once: whatever is retried, doubled or
\* taken over after an expired lease, one submission puts one turn into the
\* transcript.
ExactlyOnce ==
    \A q, r \in Turns :
        Committed(q) /\ Committed(r) /\ turn[q].sub = turn[r].sub => q = r

\* No lost update: no turn, draft review or confirmation changed the transcript
\* between the moment a committed turn read it and the moment that turn wrote
\* its two versions, although no lock is held in between.
Serialized ==
    \A r \in Turns : Committed(r) =>
        turn[r].at = turn[r].base + 2 /\ turn[r].at <= conv.version

\* What a request reports is what happened: COMPLETED names its own turn, and
\* REPLAYED a turn that committed for the same submission and message.
TruthfulOutcome ==
    \A r \in Turns :
        /\ turn[r].outcome = "COMPLETED" => Committed(r)
        /\ turn[r].outcome = "REPLAYED" =>
              \E q \in Turns : Committed(q) /\ turn[q].sub = turn[r].sub
                                /\ turn[q].msg = turn[r].msg

\* A confirmed draft creates one Job and never becomes live again, although a
\* turn reserved before the confirmation still carries it in its working copy.
DraftConfirmedOnce ==
    /\ \A d \in Drafts : jobs[d] <= 1
    /\ \A s \in Sessions : ctx[s].draft # None => jobs[ctx[s].draft] = 0

\* Revocation is a barrier: a request whose session is revoked while it waits
\* for the model never commits.
RevocationBarrier ==
    [][\A r \in Turns : turn[r].at = 0 /\ turn'[r].at # 0 => Live(SessionOf(r))]_vars

\* A live reservation is ended by its own turn or by the clock, never by
\* another request's error path.
ReservationOwned ==
    [][Reserved /\ conv'.turn # conv.turn => turn'[conv.turn] # turn[conv.turn]]_vars

\* A conversation does not stay blocked: a reservation is cleared by its turn,
\* or expires after the process that held it died.
ConversationFrees == Reserved ~> ~Reserved

\* DECISIONS.md, D-086: an epoch is never used again in a conversation.
EpochsMonotonic ==
    [][\A s \in Sessions : ctx[s].epoch = 0 /\ ctx'[s].epoch # 0 =>
          \A r \in Turns : turn[r].epoch < ctx'[s].epoch]_vars
============================================================================
