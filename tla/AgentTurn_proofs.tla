-------------------------- MODULE AgentTurn_proofs --------------------------
(***************************************************************************)
(* Safety of the reserved turn, for every number of requests, submissions, *)
(* sessions and messages, and however often reservations, leases and       *)
(* submissions expire.                                                     *)
(***************************************************************************)
EXTENDS AgentTurn, AgentPlanning, WellFoundedInduction, TLAPS

\* An issued submission names its session.
RowsHaveSessions ==
    \A i \in Subs : sub[i].status # "unissued" => sub[i].session \in Sessions

\* A handler that has left "new" knows its submission, its session and its
\* message, and only a handler at its end has committed.
HandlerKnows ==
    \A r \in Turns :
        /\ turn[r].pc # "new" =>
              turn[r].sub \in Subs /\ turn[r].msg \in Messages /\ SessionOf(r) \in Sessions
        /\ Committed(r) => turn[r].pc \in {"done", "abandoning"}

\* A committed turn keeps its submission for good: the row stays completed and
\* stays its own until it is deleted, so nobody can claim it again.
CommittedOwns ==
    \A r \in Turns : Committed(r) =>
        /\ turn[r].sub \in Subs
        /\ sub[turn[r].sub].owner = r
        /\ sub[turn[r].sub].status \in {"COMPLETED", "gone"}

\* A live draft was put there by a committed turn, is unconfirmed, and is live
\* in one session only; a confirmed draft belongs to a committed turn.
DraftsOwned ==
    /\ \A s \in Sessions : ctx[s].draft # None =>
          Committed(ctx[s].draft) /\ jobs[ctx[s].draft] = 0
    /\ \A s, t \in Sessions : ctx[s].draft = ctx[t].draft /\ ctx[s].draft # None => s = t
    /\ \A d \in Drafts : jobs[d] <= 1 /\ (jobs[d] # 0 => Committed(d))

IInv ==
    /\ TypeOK
    /\ RowsHaveSessions
    /\ HandlerKnows
    /\ CommittedOwns
    /\ Serialized
    /\ DraftsOwned

LEMMA EpochsTyped ==
    ASSUME TypeOK, NEW s \in Sessions
    PROVE  EpochsFor(s) \subseteq Nat
BY DEF TypeOK, EpochsFor

LEMMA InitIInv == Init => IInv
<1> SUFFICES ASSUME Init PROVE IInv
  OBVIOUS
<1> USE TurnAssumption DEF Init, Row, Fresh
<1>1. conv \in [turn : Turns \cup {None}, live : BOOLEAN, version : Nat]
  OBVIOUS
<1>2. ctx \in [Sessions -> [epoch : Nat, draft : Drafts \cup {None}]]
  BY DEF Drafts
<1>3. session \in [Sessions -> {"live", "revoked", "retired"}]
  OBVIOUS
<1>4. sub \in [Subs -> SubRows]
  BY DEF Statuses, SubRows
<1>5. turn \in [Turns -> TurnStates]
  BY DEF Drafts, Outcomes, TurnStates
<1>6. jobs \in [Drafts -> Nat]
  OBVIOUS
<1>7. TypeOK
  BY <1>1, <1>2, <1>3, <1>4, <1>5, <1>6 DEF TypeOK
<1>8. \A r \in Turns : ~Committed(r) /\ turn[r].pc = "new"
  BY DEF Committed
<1>9. RowsHaveSessions /\ HandlerKnows /\ CommittedOwns /\ Serialized
  BY <1>8 DEF RowsHaveSessions, HandlerKnows, CommittedOwns, Serialized
<1>10. DraftsOwned
  <2>1. \A s \in Sessions : ctx[s].draft = None
    OBVIOUS
  <2>2. \A d \in Drafts : jobs[d] = 0
    OBVIOUS
  <2> QED BY <2>1, <2>2 DEF DraftsOwned
<1> QED BY <1>7, <1>9, <1>10 DEF IInv

----------------------------------------------------------------------------
\* What the steps of a handler have in common.

\* The handler of r moves to p and keeps what it knows of its submission and of
\* its reservation.
MovesTo(r, p) ==
    /\ turn' \in [Turns -> TurnStates]
    /\ turn'[r].pc = p
    /\ turn'[r].sub = turn[r].sub /\ turn'[r].msg = turn[r].msg
    /\ turn'[r].base = turn[r].base /\ turn'[r].at = turn[r].at
    /\ \A q \in Turns \ {r} : turn'[q] = turn[q]

\* No request commits, and the committed ones keep what they have.
Remembered ==
    \A q \in Turns :
        /\ turn'[q].at = turn[q].at
        /\ Committed(q) => turn'[q].sub = turn[q].sub /\ turn'[q].base = turn[q].base

\* Submissions that nobody may claim again stay with their owner.
SpentStaySpent ==
    \A i \in Subs : sub[i].owner # None /\ sub[i].status \in {"COMPLETED", "gone"} =>
        sub'[i].owner = sub[i].owner /\ sub'[i].status \in {"COMPLETED", "gone"}

\* An issued submission keeps a session.
SessionsKept ==
    \A i \in Subs :
        /\ sub[i].session \in Sessions => sub'[i].session \in Sessions
        /\ sub'[i].status # "unissued" =>
              sub[i].status # "unissued" \/ sub'[i].session \in Sessions

\* The live pointers stay, or are cleared.
PointersStay == \A s \in Sessions : ctx'[s].draft \in {ctx[s].draft, None}

LEMMA StateMoves ==
    ASSUME turn \in [Turns -> TurnStates], NEW r \in Turns, NEW v \in TurnStates,
           turn' = [turn EXCEPT ![r] = v],
           v.sub = turn[r].sub, v.msg = turn[r].msg,
           v.base = turn[r].base, v.at = turn[r].at
    PROVE  MovesTo(r, v.pc)
<1>1. /\ turn' \in [Turns -> TurnStates] /\ turn'[r] = v
      /\ \A q \in Turns \ {r} : turn'[q] = turn[q]
  OBVIOUS
<1> QED BY <1>1 DEF MovesTo

LEMMA PlaceMoves ==
    ASSUME TypeOK, NEW r \in Turns, NEW p \in Running \cup {"done"}, NEW o \in Outcomes,
           turn' = [turn EXCEPT ![r].pc = p, ![r].outcome = o]
    PROVE  MovesTo(r, p)
<1>1. turn \in [Turns -> TurnStates] /\ turn[r] \in TurnStates
  BY DEF TypeOK
<1>2. PICK w \in TurnStates : w = turn[r]
  BY <1>1
<1>3. PICK v : v = [w EXCEPT !.pc = p, !.outcome = o]
  OBVIOUS
<1>4. turn' = [turn EXCEPT ![r] = v]
  BY <1>1, <1>2, <1>3
<1>5. v \in TurnStates /\ v.pc = p /\ v.sub = w.sub /\ v.msg = w.msg
      /\ v.base = w.base /\ v.at = w.at
  BY <1>3 DEF TurnStates
<1> QED BY <1>1, <1>2, <1>4, <1>5, StateMoves

LEMMA GotoMoves ==
    ASSUME TypeOK, NEW r \in Turns, NEW p \in Running \cup {"done"}, Goto(r, p)
    PROVE  MovesTo(r, p)
<1>1. turn \in [Turns -> TurnStates] /\ turn[r] \in TurnStates
  BY DEF TypeOK
<1>2. turn' = [turn EXCEPT ![r].pc = p, ![r].outcome = turn[r].outcome]
  BY <1>1 DEF Goto, TurnStates
<1>3. turn[r].outcome \in Outcomes
  BY <1>1 DEF TurnStates
<1> QED BY <1>2, <1>3, PlaceMoves

LEMMA MovedKnows ==
    ASSUME IInv, NEW r \in Turns, NEW p, MovesTo(r, p), turn[r].pc # "new",
           Committed(r) => p \in {"done", "abandoning"}, SessionsKept
    PROVE  Remembered /\ HandlerKnows'
<1>1. HandlerKnows
  BY DEF IInv
<1>2. Remembered
  BY DEF MovesTo, Remembered
<1>3. HandlerKnows'
  BY <1>1 DEF MovesTo, HandlerKnows, Committed, SessionsKept, SessionOf
<1> QED BY <1>2, <1>3

\* A step that commits no turn, confirms no draft, and gives no spent submission
\* back preserves the invariant.
LEMMA QuietStep ==
    ASSUME IInv, TypeOK', HandlerKnows', Remembered, SpentStaySpent, SessionsKept, PointersStay,
           conv.version <= conv'.version, UNCHANGED jobs
    PROVE  IInv'
<1>1. TypeOK /\ CommittedOwns /\ Serialized /\ DraftsOwned
  BY DEF IInv
<1>2. \A q \in Turns : Committed(q)' <=> Committed(q)
  BY DEF Remembered, Committed
<1>3. CommittedOwns'
  <2> SUFFICES ASSUME NEW r \in Turns, Committed(r)'
               PROVE  /\ turn'[r].sub \in Subs /\ sub'[turn'[r].sub].owner = r
                      /\ sub'[turn'[r].sub].status \in {"COMPLETED", "gone"}
    BY DEF CommittedOwns
  <2>1. turn[r].sub \in Subs /\ sub[turn[r].sub].owner = r
        /\ sub[turn[r].sub].status \in {"COMPLETED", "gone"}
    BY <1>1, <1>2 DEF CommittedOwns
  <2>2. turn'[r].sub = turn[r].sub
    BY <1>2 DEF Remembered
  <2>3. r # None
    BY TurnAssumption
  <2> QED BY <2>1, <2>2, <2>3 DEF SpentStaySpent
<1>4. Serialized'
  <2> SUFFICES ASSUME NEW r \in Turns, Committed(r)'
               PROVE  turn'[r].at = turn'[r].base + 2 /\ turn'[r].at <= conv'.version
    BY DEF Serialized
  <2>1. turn[r].at = turn[r].base + 2 /\ turn[r].at <= conv.version
    BY <1>1, <1>2 DEF Serialized
  <2>2. turn'[r].at = turn[r].at /\ turn'[r].base = turn[r].base
    BY <1>2 DEF Remembered
  <2>3. turn[r].at \in Nat /\ conv.version \in Nat /\ conv'.version \in Nat
    BY <1>1 DEF TypeOK, TurnStates
  <2> QED BY <2>1, <2>2, <2>3
<1>5. DraftsOwned'
  <2>1. \A s \in Sessions : ctx'[s].draft # None => ctx'[s].draft = ctx[s].draft
    BY DEF PointersStay
  <2>2. \A s \in Sessions : ctx[s].draft \in Turns \cup {None}
    BY <1>1 DEF TypeOK, Drafts
  <2> QED BY <1>1, <1>2, <2>1, <2>2 DEF DraftsOwned, Drafts
<1>6. RowsHaveSessions'
  BY DEF RowsHaveSessions, SessionsKept, IInv
<1> QED BY <1>3, <1>4, <1>5, <1>6 DEF IInv
----------------------------------------------------------------------------
\* The steps that move one handler and leave the durable rows alone.
LEMMA RowsStay ==
    ASSUME IInv, NEW r \in Turns, NEW p, MovesTo(r, p), turn[r].pc # "new",
           Committed(r) => p \in {"done", "abandoning"},
           UNCHANGED <<conv, ctx, session, sub, jobs>>
    PROVE  IInv' /\ Remembered
<1>1. TypeOK
  BY DEF IInv
<1>4. SpentStaySpent /\ SessionsKept /\ PointersStay
  BY DEF SpentStaySpent, SessionsKept, PointersStay
<1>2. Remembered /\ HandlerKnows'
  BY <1>4, MovedKnows
<1>3. TypeOK'
  BY <1>1 DEF TypeOK, MovesTo
<1>5. conv.version <= conv'.version
  BY <1>1 DEF TypeOK
<1> QED BY <1>2, <1>3, <1>4, <1>5, QuietStep

LEMMA IssueStep ==
    ASSUME IInv, NEW i \in Subs, NEW s \in Sessions, Issue(i, s) PROVE IInv'
<1>1. TypeOK /\ HandlerKnows
  BY DEF IInv
<1>2. PICK e \in EpochsFor(s) :
        sub' = [j \in Subs |->
                  IF j = i THEN Row("ISSUED", s, e)
                  ELSE IF Collectable(j) THEN [sub[j] EXCEPT !.status = "gone"]
                  ELSE sub[j]]
  BY DEF Issue
<1>3. e \in Nat
  BY <1>1, EpochsTyped
<1>4. Row("ISSUED", s, e) \in SubRows
  BY <1>3 DEF Row, SubRows, Statuses
<1>5. \A j \in Subs : sub[j] \in SubRows
                      /\ [sub[j] EXCEPT !.status = "gone"] \in SubRows
                      /\ [sub[j] EXCEPT !.status = "gone"].status = "gone"
                      /\ [sub[j] EXCEPT !.status = "gone"].owner = sub[j].owner
                      /\ [sub[j] EXCEPT !.status = "gone"].session = sub[j].session
  <2> SUFFICES ASSUME NEW w \in SubRows
               PROVE  /\ [w EXCEPT !.status = "gone"] \in SubRows
                      /\ [w EXCEPT !.status = "gone"].status = "gone"
                      /\ [w EXCEPT !.status = "gone"].owner = w.owner
                      /\ [w EXCEPT !.status = "gone"].session = w.session
    BY <1>1 DEF TypeOK
  <2> QED BY DEF SubRows, Statuses
<1>6. sub' \in [Subs -> SubRows]
  BY <1>2, <1>4, <1>5
<1>7. TypeOK'
  BY <1>1, <1>6 DEF TypeOK, Issue
<1>8. SpentStaySpent
  BY <1>2, <1>5 DEF SpentStaySpent, Issue
<1>10. SessionsKept
  <2>1. \A j \in Subs \ {i} : sub'[j].session = sub[j].session
    BY <1>2, <1>5
  <2>2. \A j \in Subs \ {i} : sub'[j].status # sub[j].status => Collectable(j)
    BY <1>2
  <2>3. \A j \in Subs : Collectable(j) => sub[j].status # "unissued"
    BY DEF Collectable
  <2>4. sub'[i].session = s
    BY <1>2 DEF Row
  <2> QED BY <2>1, <2>2, <2>3, <2>4 DEF SessionsKept
<1>9. Remembered /\ PointersStay /\ HandlerKnows' /\ conv.version <= conv'.version
  BY <1>1, <1>10 DEF Issue, Remembered, PointersStay, HandlerKnows, Committed, TypeOK,
                     SessionsKept, SessionOf
<1> QED BY <1>7, <1>8, <1>9, <1>10, QuietStep DEF Issue

LEMMA StartStep ==
    ASSUME IInv, NEW r \in Turns, Start(r) PROVE IInv' /\ Remembered
<1>1. TypeOK /\ HandlerKnows
  BY DEF IInv
<1>2. PICK i \in Subs, m \in Messages, p \in {"done", "checked"},
           o \in {"NOT_FOUND", "REPLAYED", "IN_PROGRESS", "none"} :
        sub[i].status # "unissued" /\ turn' = [turn EXCEPT ![r] =
                   [Fresh EXCEPT !.pc = p, !.sub = i, !.msg = m, !.outcome = o]]
  BY DEF Start
<1>3. PICK w \in TurnStates : w = Fresh
  BY DEF Fresh, TurnStates, Running, Drafts, Outcomes
<1>4. PICK v : v = [w EXCEPT !.pc = p, !.sub = i, !.msg = m, !.outcome = o]
  OBVIOUS
<1>5. v \in TurnStates /\ v.pc = p /\ v.sub = i /\ v.msg = m /\ v.at = w.at
  BY <1>4 DEF TurnStates, Running, Outcomes
<1>6. v.at = 0
  BY <1>3, <1>5 DEF Fresh
<1>7. turn' \in [Turns -> TurnStates] /\ turn'[r] = v
      /\ \A q \in Turns \ {r} : turn'[q] = turn[q]
  BY <1>1, <1>2, <1>3, <1>4, <1>5 DEF TypeOK
<1>8. ~Committed(r)
  BY <1>1 DEF HandlerKnows, Start
<1>9. Remembered
  BY <1>6, <1>7, <1>8 DEF Remembered, Committed
<1>10. HandlerKnows'
  <2>1. sub[i].session \in Sessions
    BY <1>2 DEF IInv, RowsHaveSessions
  <2> QED BY <1>1, <1>5, <1>6, <1>7, <2>1 DEF HandlerKnows, Committed, SessionOf, Start
<1>11. TypeOK'
  BY <1>1, <1>7 DEF TypeOK, Start
<1>12. SpentStaySpent /\ SessionsKept /\ PointersStay /\ conv.version <= conv'.version
  BY <1>1 DEF SpentStaySpent, SessionsKept, PointersStay, Start, TypeOK
<1> QED BY <1>9, <1>10, <1>11, <1>12, QuietStep DEF Start

\* A change of one submission row that was issued.
LEMMA RowMoves ==
    ASSUME sub \in [Subs -> SubRows], NEW i \in Subs, NEW v \in SubRows,
           sub' = [sub EXCEPT ![i] = v],
           v.session = sub[i].session, sub[i].status # "unissued",
           sub[i].owner # None /\ sub[i].status \in {"COMPLETED", "gone"} =>
             v.owner = sub[i].owner /\ v.status = sub[i].status
    PROVE  sub' \in [Subs -> SubRows] /\ SpentStaySpent /\ SessionsKept
<1>1. sub' \in [Subs -> SubRows] /\ sub'[i] = v /\ \A j \in Subs \ {i} : sub'[j] = sub[j]
  OBVIOUS
<1> QED BY <1>1 DEF SpentStaySpent, SessionsKept

\* Phase A: the handler has not committed, and what it claims was not spent.
LEMMA ReserveStep ==
    ASSUME IInv, NEW r \in Turns, Reserve(r) PROVE IInv' /\ Remembered
<1>1. TypeOK /\ HandlerKnows
  BY DEF IInv
<1>2. turn[r].sub \in Subs /\ turn[r].msg \in Messages /\ SessionOf(r) \in Sessions
      /\ ~Committed(r)
  BY <1>1 DEF HandlerKnows, Reserve
<1>3. PICK s \in Sessions, i \in Subs : s = SessionOf(r) /\ i = turn[r].sub
  BY <1>2
<1>4. PICK e \in EpochsFor(s), p \in {"away", "phaseB"} :
        /\ Claimable(i, turn[r].msg, e)
        /\ ctx' = [ctx EXCEPT ![s].epoch = e]
        /\ turn' = [turn EXCEPT ![r].pc = p, ![r].base = conv.version,
                                ![r].epoch = e, ![r].draft = ctx[s].draft]
  BY <1>3 DEF Reserve
<1>5. e \in Nat
  BY <1>1, EpochsTyped
<1>6. /\ turn' \in [Turns -> TurnStates] /\ Remembered /\ HandlerKnows'
      /\ sub' \in [Subs -> SubRows] /\ SpentStaySpent /\ SessionsKept
  <2>1. PICK w \in TurnStates : w = turn[r]
    BY <1>1 DEF TypeOK
  <2>2. PICK v : v = [w EXCEPT !.pc = p, !.base = conv.version, !.epoch = e,
                               !.draft = ctx[s].draft]
    OBVIOUS
  <2>3. turn' = [turn EXCEPT ![r] = v]
    BY <1>1, <1>4, <2>1, <2>2 DEF TypeOK
  <2>4. conv.version \in Nat /\ ctx[s].draft \in Drafts \cup {None}
    BY <1>1 DEF TypeOK
  <2>5. v \in TurnStates /\ v.pc = p /\ v.sub = w.sub /\ v.msg = w.msg /\ v.at = w.at
    BY <1>5, <2>2, <2>4 DEF TurnStates, Running
  <2>6. turn' \in [Turns -> TurnStates] /\ turn'[r] = v
        /\ \A q \in Turns \ {r} : turn'[q] = turn[q]
    BY <1>1, <2>3, <2>5 DEF TypeOK
  <2>7. PICK x \in SubRows : x = sub[i]
    BY <1>1 DEF TypeOK
  <2>8. PICK y : y = [x EXCEPT !.status = "PROCESSING", !.msg = turn[r].msg,
                               !.owner = r, !.leased = TRUE]
    OBVIOUS
  <2>9. sub' = [sub EXCEPT ![i] = y]
    BY <1>1, <1>3, <2>7, <2>8 DEF TypeOK, Reserve
  <2>10. y \in SubRows /\ y.session = x.session
    BY <1>2, <2>8 DEF SubRows, Statuses
  <2>11. x.status \in {"ISSUED", "PROCESSING"}
    BY <1>4, <2>7 DEF Claimable
  <2>12. sub' \in [Subs -> SubRows] /\ SpentStaySpent /\ SessionsKept
    BY <1>1, <2>7, <2>9, <2>10, <2>11, RowMoves DEF TypeOK
  <2>13. Remembered
    BY <1>2, <2>1, <2>5, <2>6 DEF Remembered, Committed
  <2>14. HandlerKnows'
    <3>1. \A q \in Turns : turn'[q].sub = turn[q].sub /\ turn'[q].msg = turn[q].msg
                           /\ turn'[q].at = turn[q].at
      BY <2>1, <2>5, <2>6
    <3>2. \A q \in Turns \ {r} : turn'[q].pc = turn[q].pc
      BY <2>6
    <3> QED BY <1>1, <1>2, <2>12, <3>1, <3>2
            DEF HandlerKnows, Committed, SessionsKept, SessionOf, TypeOK
  <2> QED BY <2>6, <2>12, <2>13, <2>14
<1>7. ctx' \in [Sessions -> [epoch : Nat, draft : Drafts \cup {None}]] /\ PointersStay
  BY <1>1, <1>4, <1>5 DEF TypeOK, PointersStay
<1>8. conv' \in [turn : Turns \cup {None}, live : BOOLEAN, version : Nat]
      /\ conv'.version = conv.version
  BY <1>1 DEF TypeOK, Reserve
<1>9. TypeOK' /\ conv.version <= conv'.version
  BY <1>1, <1>6, <1>7, <1>8 DEF TypeOK, Reserve
<1> QED BY <1>6, <1>7, <1>9, QuietStep DEF Reserve

LEMMA RefuseStep ==
    ASSUME IInv, NEW r \in Turns, RefuseReservation(r) PROVE IInv' /\ Remembered
<1>1. TypeOK /\ HandlerKnows
  BY DEF IInv
<1>2. turn[r].pc # "new" /\ ~Committed(r)
  BY <1>1 DEF HandlerKnows, RefuseReservation
<1>3. \E p \in {"done", "refused", "rejecting"} : MovesTo(r, p)
  <2>1. \A o \in {"REVOKED", "REPLAYED", "NOT_FOUND"} : Finish(r, o) => MovesTo(r, "done")
    BY <1>1, PlaceMoves DEF Finish, Outcomes
  <2>2. \A p \in {"refused", "rejecting"} : Goto(r, p) => MovesTo(r, p)
    BY <1>1, GotoMoves DEF Running
  <2> QED BY <2>1, <2>2 DEF RefuseReservation
<1> QED BY <1>2, <1>3, RowsStay DEF RefuseReservation

\* A handler moves and its submission's row changes with it.
LEMMA RowAndHandler ==
    ASSUME IInv, NEW r \in Turns, NEW p, MovesTo(r, p), turn[r].pc # "new",
           Committed(r) => p \in {"done", "abandoning"},
           conv' \in [turn : Turns \cup {None}, live : BOOLEAN, version : Nat],
           conv'.version = conv.version,
           sub' \in [Subs -> SubRows], SpentStaySpent, SessionsKept,
           UNCHANGED <<ctx, session, jobs>>
    PROVE  IInv' /\ Remembered
<1>1. TypeOK
  BY DEF IInv
<1>2. Remembered /\ HandlerKnows'
  BY MovedKnows
<1>3. TypeOK'
  BY <1>1 DEF TypeOK, MovesTo
<1>4. PointersStay /\ conv.version <= conv'.version
  BY <1>1 DEF PointersStay, TypeOK
<1> QED BY <1>2, <1>3, <1>4, QuietStep

LEMMA RetireUnusedStep ==
    ASSUME IInv, NEW r \in Turns, RetireUnused(r) PROVE IInv' /\ Remembered
<1>1. TypeOK /\ HandlerKnows
  BY DEF IInv
<1>2. turn[r].pc # "new" /\ ~Committed(r) /\ turn[r].sub \in Subs
  BY <1>1 DEF HandlerKnows, RetireUnused
<1>3. MovesTo(r, "done")
  BY <1>1, PlaceMoves DEF Finish, Outcomes, RetireUnused
<1>4. sub' \in [Subs -> SubRows] /\ SpentStaySpent /\ SessionsKept
  <2>1. CASE sub[turn[r].sub].status = "ISSUED"
    <3>1. PICK i \in Subs : i = turn[r].sub
      BY <1>2
    <3>2. PICK x \in SubRows : x = sub[i]
      BY <1>1 DEF TypeOK
    <3>3. PICK y : y = [x EXCEPT !.status = "ABANDONED"]
      OBVIOUS
    <3>4. y \in SubRows /\ y.session = x.session
      BY <3>3 DEF SubRows, Statuses
    <3>5. sub' = [sub EXCEPT ![i] = y]
      BY <2>1, <1>1, <3>1, <3>2, <3>3 DEF RetireUnused, TypeOK
    <3> QED BY <1>1, <2>1, <3>1, <3>2, <3>4, <3>5, RowMoves DEF TypeOK
  <2>2. CASE sub[turn[r].sub].status # "ISSUED"
    BY <1>1, <2>2 DEF RetireUnused, TypeOK, SpentStaySpent, SessionsKept
  <2> QED BY <2>1, <2>2
<1>5. conv' = conv /\ UNCHANGED <<ctx, session, jobs>>
  BY DEF RetireUnused
<1>6. conv' \in [turn : Turns \cup {None}, live : BOOLEAN, version : Nat]
      /\ conv'.version = conv.version
  BY <1>1, <1>5 DEF TypeOK
<1> QED BY <1>2, <1>3, <1>4, <1>5, <1>6, RowAndHandler

LEMMA LoseAuthorityStep ==
    ASSUME IInv, NEW r \in Turns, LoseAuthority(r) PROVE IInv' /\ Remembered
<1>1. TypeOK /\ HandlerKnows
  BY DEF IInv
<1>2. MovesTo(r, "abandoning")
  BY <1>1, PlaceMoves DEF FailWith, Outcomes, LoseAuthority, Running
<1> QED BY <1>1, <1>2, RowsStay DEF LoseAuthority, HandlerKnows

LEMMA FailsStep ==
    ASSUME IInv, NEW r \in Turns, LeaveEarly(r) \/ PhaseBFails(r) PROVE IInv' /\ Remembered
<1>1. TypeOK /\ HandlerKnows
  BY DEF IInv
<1>2. MovesTo(r, "abandoning")
  BY <1>1, PlaceMoves DEF FailWith, Outcomes, LeaveEarly, PhaseBFails, Running
<1> QED BY <1>1, <1>2, RowsStay DEF LeaveEarly, PhaseBFails, HandlerKnows

LEMMA CrashStep ==
    ASSUME IInv, NEW r \in Turns, Crash(r) PROVE IInv' /\ Remembered
<1>1. TypeOK /\ HandlerKnows
  BY DEF IInv
<1>2. MovesTo(r, "done")
  BY <1>1, PlaceMoves DEF Finish, Outcomes, Crash
<1> QED BY <1>1, <1>2, RowsStay DEF Crash, Running

LEMMA ReenterStep ==
    ASSUME IInv, NEW r \in Turns, Reenter(r) PROVE IInv' /\ Remembered
<1>1. TypeOK /\ HandlerKnows
  BY DEF IInv
<1>2. turn[r].pc # "new" /\ ~Committed(r)
  BY <1>1 DEF HandlerKnows, Reenter
<1>3. \E p \in {"away", "phaseB", "abandoning"} : MovesTo(r, p)
  <2>1. CASE turn' = [turn EXCEPT ![r].calls = @ + 1]
    <3>1. PICK w \in TurnStates : w = turn[r]
      BY <1>1 DEF TypeOK
    <3>2. PICK v : v = [w EXCEPT !.calls = w.calls + 1]
      OBVIOUS
    <3>3. v \in TurnStates /\ v.pc = w.pc /\ v.sub = w.sub /\ v.msg = w.msg
          /\ v.base = w.base /\ v.at = w.at
      BY <3>2 DEF TurnStates
    <3>4. turn' = [turn EXCEPT ![r] = v]
      BY <1>1, <2>1, <3>1, <3>2 DEF TypeOK
    <3>5. MovesTo(r, v.pc)
      BY <1>1, <3>1, <3>3, <3>4, StateMoves DEF TypeOK
    <3>6. v.pc = "away"
      BY <3>1, <3>3 DEF Reenter
    <3> QED BY <3>5, <3>6
  <2>2. CASE turn' = [turn EXCEPT ![r].pc = "phaseB"]
    BY <1>1, <2>2, GotoMoves DEF Goto, Running
  <2>3. CASE FailWith(r, "NOT_RUN")
    BY <1>1, <2>3, PlaceMoves DEF FailWith, Outcomes, Running
  <2> QED BY <2>1, <2>2, <2>3 DEF Reenter
<1>4. sub' = sub /\ UNCHANGED <<ctx, session, jobs>> /\ conv' = [conv EXCEPT !.live = TRUE]
  BY DEF Reenter
<1>5. sub' \in [Subs -> SubRows] /\ SpentStaySpent /\ SessionsKept
  BY <1>1, <1>4 DEF TypeOK, SpentStaySpent, SessionsKept
<1>6. conv' \in [turn : Turns \cup {None}, live : BOOLEAN, version : Nat]
      /\ conv'.version = conv.version
  BY <1>1, <1>4 DEF TypeOK
<1> QED BY <1>2, <1>3, <1>4, <1>5, <1>6, RowAndHandler

\* The error path gives up a claim only while it is still processing.
LEMMA AbandonStep ==
    ASSUME IInv, NEW r \in Turns, Abandon(r) PROVE IInv' /\ Remembered
<1>1. TypeOK /\ HandlerKnows
  BY DEF IInv
<1>2. turn[r].pc # "new" /\ turn[r].sub \in Subs
  BY <1>1 DEF HandlerKnows, Abandon
<1>3. MovesTo(r, "done")
  BY <1>1, GotoMoves DEF Abandon
<1>4. sub' \in [Subs -> SubRows] /\ SpentStaySpent /\ SessionsKept
  <2>1. CASE sub' = sub
    BY <1>1, <2>1 DEF TypeOK, SpentStaySpent, SessionsKept
  <2>2. CASE sub' # sub
    <3>1. PICK i \in Subs : i = turn[r].sub
      BY <1>2
    <3>2. PICK x \in SubRows : x = sub[i]
      BY <1>1 DEF TypeOK
    <3>3. PICK y : y = [x EXCEPT !.status = "ABANDONED", !.owner = None, !.leased = FALSE]
      OBVIOUS
    <3>4. y \in SubRows /\ y.session = x.session
      BY <3>3 DEF SubRows, Statuses
    <3>6. /\ sub[i].status = "PROCESSING"
          /\ sub' = [sub EXCEPT ![i].status = "ABANDONED", ![i].owner = None,
                                ![i].leased = FALSE]
      BY <2>2, <3>1 DEF Abandon
    <3>5. x.status = "PROCESSING" /\ sub' = [sub EXCEPT ![i] = y]
      BY <1>1, <3>2, <3>3, <3>6 DEF TypeOK
    <3> QED BY <1>1, <3>2, <3>4, <3>5, RowMoves DEF TypeOK
  <2> QED BY <2>1, <2>2
<1>5. conv' \in [turn : Turns \cup {None}, live : BOOLEAN, version : Nat]
      /\ conv'.version = conv.version
  BY <1>1 DEF TypeOK, Abandon
<1> QED BY <1>2, <1>3, <1>4, <1>5, RowAndHandler DEF Abandon

\* The one step that commits a turn: its claim is its own, so no other request
\* has committed for that submission, and the transcript is what it read.
LEMMA CommitStep ==
    ASSUME IInv, NEW r \in Turns, Commit(r) PROVE IInv'
<1>1. TypeOK /\ RowsHaveSessions /\ HandlerKnows /\ CommittedOwns /\ Serialized /\ DraftsOwned
  BY DEF IInv
<1>2. PICK s \in Sessions, i \in Subs :
        s = SessionOf(r) /\ i = turn[r].sub /\ ~Committed(r)
  BY <1>1 DEF HandlerKnows, Commit
<1>3. PICK o \in {"COMPLETED", "NOT_RUN"} :
        turn' = [turn EXCEPT ![r].at = conv.version + 2, ![r].outcome = o,
                   ![r].pc = IF o = "COMPLETED" THEN "done" ELSE "abandoning"]
  BY DEF Commit
<1>4. PICK d \in {turn[r].draft, r} : ctx' = [ctx EXCEPT ![s].draft = d]
  BY <1>2 DEF Commit
<1>5. conv.version \in Nat
  BY <1>1 DEF TypeOK
<1>6. /\ sub[i].status = "PROCESSING" /\ sub[i].owner = r
      /\ turn[r].base = conv.version /\ ctx[s].draft = turn[r].draft
  BY <1>2 DEF Commit, OwnsSubmission, Valid, UnchangedSince
<1>7. PICK w \in TurnStates : w = turn[r]
  BY <1>1 DEF TypeOK
<1>8. PICK p \in {"done", "abandoning"} :
        p = IF o = "COMPLETED" THEN "done" ELSE "abandoning"
  OBVIOUS
<1>9. PICK v : v = [w EXCEPT !.at = conv.version + 2, !.outcome = o, !.pc = p]
  OBVIOUS
<1>10. v \in TurnStates /\ v.pc = p /\ v.sub = w.sub /\ v.msg = w.msg
       /\ v.base = w.base /\ v.at = conv.version + 2
  <2>1. PICK n \in Nat : n = conv.version + 2
    BY <1>5
  <2>2. v = [w EXCEPT !.at = n, !.outcome = o, !.pc = p]
    BY <1>9, <2>1
  <2>3. p \in Running \cup {"done"} /\ o \in Outcomes
    BY DEF Running, Outcomes
  <2>4. v \in TurnStates /\ v.pc = p /\ v.sub = w.sub /\ v.msg = w.msg
        /\ v.base = w.base /\ v.at = n
    BY <2>2, <2>3 DEF TurnStates
  <2> QED BY <2>1, <2>4
<1>11. turn' = [turn EXCEPT ![r] = v]
  BY <1>1, <1>3, <1>7, <1>8, <1>9 DEF TypeOK
<1>12. turn' \in [Turns -> TurnStates] /\ turn'[r] = v
       /\ \A q \in Turns \ {r} : turn'[q] = turn[q]
  BY <1>1, <1>10, <1>11 DEF TypeOK
<1>13. PICK x \in SubRows : x = sub[i]
  BY <1>1 DEF TypeOK
<1>14. PICK y : y = [x EXCEPT !.status = "COMPLETED", !.leased = FALSE]
  OBVIOUS
<1>15. y \in SubRows /\ y.session = x.session /\ y.owner = r /\ y.status = "COMPLETED"
  BY <1>6, <1>13, <1>14 DEF SubRows, Statuses
<1>16. sub' = [sub EXCEPT ![i] = y]
  BY <1>1, <1>2, <1>13, <1>14 DEF TypeOK, Commit
<1>17. sub' \in [Subs -> SubRows] /\ SpentStaySpent /\ SessionsKept
  BY <1>1, <1>6, <1>13, <1>15, <1>16, RowMoves DEF TypeOK
<1>18. sub'[i] = y
  BY <1>1, <1>15, <1>16 DEF TypeOK
<1>19. conv' \in [turn : Turns \cup {None}, live : BOOLEAN, version : Nat]
       /\ conv'.version = conv.version + 2
  <2>1. PICK k \in [turn : Turns \cup {None}, live : BOOLEAN, version : Nat] : k = conv
    BY <1>1 DEF TypeOK
  <2>2. PICK n \in Nat : n = conv.version + 2
    BY <1>5
  <2>3. conv' = [k EXCEPT !.turn = None, !.live = FALSE, !.version = n]
    BY <2>1, <2>2 DEF Commit
  <2>4. conv' \in [turn : Turns \cup {None}, live : BOOLEAN, version : Nat]
        /\ conv'.version = n
    BY <2>3
  <2> QED BY <2>2, <2>4
<1>20. d \in Drafts \cup {None}
  BY <1>1 DEF TypeOK, TurnStates, Drafts
<1>21. TypeOK'
  <2>1. ctx' \in [Sessions -> [epoch : Nat, draft : Drafts \cup {None}]]
    BY <1>1, <1>4, <1>20 DEF TypeOK
  <2>2. session' = session /\ jobs' = jobs
    BY DEF Commit
  <2> QED BY <1>1, <1>12, <1>17, <1>19, <2>1, <2>2 DEF TypeOK
<1>22. \A q \in Turns : Committed(q)' <=> Committed(q) \/ q = r
  BY <1>5, <1>10, <1>12 DEF Committed
<1>23. RowsHaveSessions'
  BY <1>1, <1>17 DEF RowsHaveSessions, SessionsKept
<1>24. HandlerKnows'
  <2>1. \A q \in Turns : turn'[q].sub = turn[q].sub /\ turn'[q].msg = turn[q].msg
    BY <1>7, <1>10, <1>12
  <2>2. \A q \in Turns \ {r} : turn'[q].pc = turn[q].pc
    BY <1>12
  <2>3. turn'[r].pc \in {"done", "abandoning"} /\ turn[r].pc # "new"
    BY <1>10, <1>12 DEF Commit
  <2> QED BY <1>1, <1>17, <1>22, <2>1, <2>2, <2>3 DEF HandlerKnows, SessionsKept, SessionOf
<1>25. CommittedOwns'
  <2> SUFFICES ASSUME NEW q \in Turns, Committed(q)'
               PROVE  /\ turn'[q].sub \in Subs /\ sub'[turn'[q].sub].owner = q
                      /\ sub'[turn'[q].sub].status \in {"COMPLETED", "gone"}
    BY DEF CommittedOwns
  <2>1. CASE q = r
    BY <2>1, <1>2, <1>7, <1>10, <1>12, <1>15, <1>18
  <2>2. CASE q # r
    <3>1. turn'[q].sub = turn[q].sub /\ Committed(q) /\ q # None
      BY <2>2, <1>12, <1>22, TurnAssumption
    <3> QED BY <3>1, <1>1, <1>17 DEF CommittedOwns, SpentStaySpent
  <2> QED BY <2>1, <2>2
<1>26. Serialized'
  <2> SUFFICES ASSUME NEW q \in Turns, Committed(q)'
               PROVE  turn'[q].at = turn'[q].base + 2 /\ turn'[q].at <= conv'.version
    BY DEF Serialized
  <2>1. CASE q = r
    BY <2>1, <1>5, <1>6, <1>7, <1>10, <1>12, <1>19
  <2>2. CASE q # r
    <3>1. turn'[q] = turn[q] /\ Committed(q)
      BY <2>2, <1>12, <1>22
    <3>2. turn[q].at \in Nat
      BY <1>1 DEF TypeOK, TurnStates
    <3> QED BY <3>1, <3>2, <1>1, <1>5, <1>19 DEF Serialized
  <2> QED BY <2>1, <2>2
<1>27. DraftsOwned'
  <2>1. ctx'[s].draft = d /\ \A t \in Sessions \ {s} : ctx'[t].draft = ctx[t].draft
    BY <1>1, <1>4 DEF TypeOK
  <2>2. \A t \in Sessions : ctx[t].draft # r /\ jobs[r] = 0
    BY <1>1, <1>2, TurnAssumption DEF DraftsOwned, TypeOK, Drafts
  <2>3. UNCHANGED jobs
    BY DEF Commit
  <2>4. \A t \in Sessions : ctx[t].draft \in Turns \cup {None}
    BY <1>1 DEF TypeOK, Drafts
  <2>5. d = ctx[s].draft \/ d = r
    BY <1>6
  <2>6. jobs[r] = 0
    BY <2>2, <1>2
  <2> QED BY <1>1, <1>22, <2>1, <2>2, <2>3, <2>4, <2>5, <2>6 DEF DraftsOwned, Drafts
<1> QED BY <1>21, <1>23, <1>24, <1>25, <1>26, <1>27 DEF IInv

----------------------------------------------------------------------------
\* The clock, the sessions and the draft actions.
LEMMA NoHandlerStep ==
    ASSUME IInv, UNCHANGED turn, TypeOK', SpentStaySpent, SessionsKept, PointersStay,
           conv.version <= conv'.version, UNCHANGED jobs
    PROVE  IInv'
<1>1. HandlerKnows
  BY DEF IInv
<1>2. Remembered /\ HandlerKnows'
  BY <1>1 DEF Remembered, HandlerKnows, Committed, SessionsKept, SessionOf
<1> QED BY <1>2, QuietStep

LEMMA ClockStep ==
    ASSUME IInv,
           ExpireReservation \/ \E i \in Subs : ExpireLease(i) \/ ExpireSubmission(i)
    PROVE  IInv'
<1>1. TypeOK
  BY DEF IInv
<1>2. CASE ExpireReservation
  <2>1. SpentStaySpent /\ SessionsKept /\ PointersStay
    BY <1>2 DEF ExpireReservation, SpentStaySpent, SessionsKept, PointersStay
  <2>2. conv' \in [turn : Turns \cup {None}, live : BOOLEAN, version : Nat]
        /\ conv'.version = conv.version /\ conv.version \in Nat
    BY <1>1, <1>2 DEF ExpireReservation, TypeOK
  <2>3. UNCHANGED <<ctx, session, sub, turn, jobs>>
    BY <1>2 DEF ExpireReservation
  <2>4. TypeOK' /\ conv.version <= conv'.version
    BY <1>1, <2>2, <2>3 DEF TypeOK
  <2> QED BY <2>1, <2>3, <2>4, NoHandlerStep
<1>3. ASSUME NEW i \in Subs, ExpireLease(i) \/ ExpireSubmission(i) PROVE IInv'
  <2>1. PICK x \in SubRows : x = sub[i]
    BY <1>1 DEF TypeOK
  <2>2. PICK y : /\ y = [x EXCEPT !.leased = FALSE] \/ y = [x EXCEPT !.fresh = FALSE]
                 /\ sub' = [sub EXCEPT ![i] = y]
    BY <1>1, <1>3, <2>1 DEF ExpireLease, ExpireSubmission, TypeOK
  <2>3. y \in SubRows /\ y.session = x.session /\ y.owner = x.owner /\ y.status = x.status
    BY <2>2 DEF SubRows
  <2>4. sub' \in [Subs -> SubRows] /\ \A j \in Subs : /\ sub'[j].session = sub[j].session
                                                      /\ sub'[j].owner = sub[j].owner
                                                      /\ sub'[j].status = sub[j].status
    BY <1>1, <2>1, <2>2, <2>3 DEF TypeOK
  <2>5. UNCHANGED <<conv, ctx, session, turn, jobs>>
    BY <1>3 DEF ExpireLease, ExpireSubmission
  <2>6. SpentStaySpent /\ SessionsKept /\ PointersStay
    BY <2>4, <2>5 DEF SpentStaySpent, SessionsKept, PointersStay
  <2>7. TypeOK' /\ conv.version <= conv'.version
    BY <1>1, <2>4, <2>5 DEF TypeOK
  <2> QED BY <2>5, <2>6, <2>7, NoHandlerStep
<1> QED BY <1>2, <1>3

LEMMA SessionStep ==
    ASSUME IInv, NEW s \in Sessions, Revoke(s) \/ RetireSession(s) PROVE IInv'
<1>1. TypeOK
  BY DEF IInv
<1>2. CASE Revoke(s)
  <2>1. SpentStaySpent /\ SessionsKept /\ PointersStay
    BY <1>2 DEF Revoke, SpentStaySpent, SessionsKept, PointersStay
  <2>2. TypeOK' /\ conv.version <= conv'.version
    BY <1>1, <1>2 DEF Revoke, TypeOK
  <2> QED BY <1>2, <2>1, <2>2, NoHandlerStep DEF Revoke
<1>3. CASE RetireSession(s)
  <2>1. \A w \in SubRows : /\ [w EXCEPT !.status = "gone"] \in SubRows
                           /\ [w EXCEPT !.status = "gone"].status = "gone"
                           /\ [w EXCEPT !.status = "gone"].owner = w.owner
                           /\ [w EXCEPT !.status = "gone"].session = w.session
    BY DEF SubRows, Statuses
  <2>2. sub' = [i \in Subs |-> IF sub[i].session = s THEN [sub[i] EXCEPT !.status = "gone"]
                               ELSE sub[i]]
    BY <1>3 DEF RetireSession
  <2>3. \A i \in Subs : sub[i] \in SubRows
    BY <1>1 DEF TypeOK
  <2>4. sub' \in [Subs -> SubRows]
    BY <2>1, <2>2, <2>3
  <2>5. \A i \in Subs : /\ sub'[i].session = sub[i].session /\ sub'[i].owner = sub[i].owner
                        /\ sub'[i].status \in {sub[i].status, "gone"}
                        /\ sub'[i].status # sub[i].status => sub[i].session = s
    BY <2>1, <2>2, <2>3
  <2>6. SpentStaySpent /\ SessionsKept
    BY <2>5 DEF SpentStaySpent, SessionsKept
  <2>7. UNCHANGED <<conv, turn, jobs>>
        /\ session' \in [Sessions -> {"live", "revoked", "retired"}]
        /\ ctx' \in [Sessions -> [epoch : Nat, draft : Drafts \cup {None}]]
        /\ PointersStay
    BY <1>1, <1>3 DEF RetireSession, TypeOK, PointersStay
  <2>8. TypeOK' /\ conv.version <= conv'.version
    BY <1>1, <2>4, <2>7 DEF TypeOK
  <2> QED BY <2>6, <2>7, <2>8, NoHandlerStep
<1> QED BY <1>2, <1>3

LEMMA DraftStep ==
    ASSUME IInv, NEW s \in Sessions, ResolveDraft(s) \/ ConfirmDraft(s) PROVE IInv'
<1>1. TypeOK /\ RowsHaveSessions /\ HandlerKnows /\ CommittedOwns /\ Serialized /\ DraftsOwned
  BY DEF IInv
<1>2. conv' \in [turn : Turns \cup {None}, live : BOOLEAN, version : Nat]
      /\ conv'.version = conv.version + 1 /\ conv.version \in Nat
  <2>1. PICK k \in [turn : Turns \cup {None}, live : BOOLEAN, version : Nat] : k = conv
    BY <1>1 DEF TypeOK
  <2>2. PICK n \in Nat : n = conv.version + 1
    BY <2>1
  <2>3. conv' = [k EXCEPT !.version = n]
    BY <2>1, <2>2 DEF ResolveDraft, ConfirmDraft, BumpVersion
  <2> QED BY <2>1, <2>2, <2>3
<1>3. CASE ResolveDraft(s)
  <2>1. SpentStaySpent /\ SessionsKept /\ PointersStay
    BY <1>3 DEF ResolveDraft, SpentStaySpent, SessionsKept, PointersStay
  <2>2. TypeOK' /\ conv.version <= conv'.version
    BY <1>1, <1>2, <1>3 DEF ResolveDraft, TypeOK
  <2> QED BY <1>3, <2>1, <2>2, NoHandlerStep DEF ResolveDraft
<1>4. CASE ConfirmDraft(s)
  <2>1. PICK d \in Turns : d = ctx[s].draft /\ d # None /\ jobs[d] = 0 /\ Committed(d)
    BY <1>1, <1>4 DEF ConfirmDraft, PendingDraft, DraftsOwned, TypeOK, Drafts
  <2>2. jobs' = [jobs EXCEPT ![d] = @ + 1] /\ ctx' = [ctx EXCEPT ![s].draft = None]
        /\ UNCHANGED <<session, sub, turn>>
    BY <1>4, <2>1 DEF ConfirmDraft
  <2>3. jobs' \in [Drafts -> Nat] /\ jobs'[d] = 1
        /\ \A e \in Turns \ {d} : jobs'[e] = jobs[e]
    BY <1>1, <2>1, <2>2 DEF TypeOK, Drafts
  <2>4. ctx' \in [Sessions -> [epoch : Nat, draft : Drafts \cup {None}]]
        /\ ctx'[s].draft = None /\ \A t \in Sessions \ {s} : ctx'[t].draft = ctx[t].draft
    BY <1>1, <2>2 DEF TypeOK
  <2>5. TypeOK'
    BY <1>1, <1>2, <2>2, <2>3, <2>4 DEF TypeOK
  <2>6. (RowsHaveSessions /\ HandlerKnows /\ CommittedOwns)'
    BY <1>1, <2>2 DEF RowsHaveSessions, HandlerKnows, CommittedOwns, Committed, SessionOf
  <2>7. Serialized'
    <3>1. \A r \in Turns : turn[r].at \in Nat
      BY <1>1 DEF TypeOK, TurnStates
    <3> QED BY <1>1, <1>2, <2>2, <3>1 DEF Serialized, Committed
  <2>8. DraftsOwned'
    <3>1. \A t \in Sessions \ {s} : ctx[t].draft # d
      BY <1>1, <2>1 DEF DraftsOwned
    <3>2. \A t \in Sessions : ctx[t].draft \in Turns \cup {None}
      BY <1>1 DEF TypeOK, Drafts
    <3>3. \A e \in Turns : Committed(e)' <=> Committed(e)
      BY <2>2 DEF Committed
    <3> QED BY <1>1, <2>1, <2>3, <2>4, <3>1, <3>2, <3>3 DEF DraftsOwned, Drafts
  <2> QED BY <2>5, <2>6, <2>7, <2>8 DEF IInv
<1> QED BY <1>3, <1>4

----------------------------------------------------------------------------
LEMMA NextIInv == IInv /\ [Next]_vars => IInv'
<1> SUFFICES ASSUME IInv, [Next]_vars PROVE IInv'
  OBVIOUS
<1>1. ASSUME NEW i \in Subs, NEW s \in Sessions, Issue(i, s) PROVE IInv'
  BY <1>1, IssueStep
<1>2. ASSUME NEW r \in Turns, Start(r) \/ Crash(r) PROVE IInv'
  BY <1>2, StartStep, CrashStep
<1>3. ASSUME NEW r \in Turns, Handler(r) PROVE IInv'
  BY <1>3, ReserveStep, RefuseStep, RetireUnusedStep, LoseAuthorityStep, ReenterStep,
     FailsStep, CommitStep, AbandonStep DEF Handler
<1>4. CASE ExpireReservation \/ \E i \in Subs : ExpireLease(i) \/ ExpireSubmission(i)
  BY <1>4, ClockStep
<1>5. ASSUME NEW s \in Sessions,
             Revoke(s) \/ RetireSession(s) \/ ResolveDraft(s) \/ ConfirmDraft(s)
      PROVE  IInv'
  BY <1>5, SessionStep, DraftStep
<1>6. CASE UNCHANGED vars
  <2>1. TypeOK'
    BY <1>6 DEF IInv, TypeOK, vars
  <2>2. SpentStaySpent /\ SessionsKept /\ PointersStay /\ conv.version <= conv'.version
        /\ UNCHANGED <<turn, jobs>>
    BY <1>6 DEF IInv, TypeOK, SpentStaySpent, SessionsKept, PointersStay, vars
  <2> QED BY <2>1, <2>2, NoHandlerStep
<1> QED BY <1>1, <1>2, <1>3, <1>4, <1>5, <1>6 DEF Next

\* The invariant holds in every reachable state.
THEOREM TurnInvariant == Spec => []IInv
BY InitIInv, NextIInv, PTL DEF Spec

\* A user message is answered at most once: one submission puts at most one turn
\* into the transcript (submit_conversation_turn, claim_submission).
THEOREM TurnExactlyOnce == Spec => []ExactlyOnce
<1>1. IInv => ExactlyOnce
  BY DEF IInv, CommittedOwns, ExactlyOnce
<1> QED BY <1>1, TurnInvariant, PTL

\* No lost update: a committed turn wrote the two versions after the one it read
\* (revalidate_reserved_turn, commit_reserved_turn).
THEOREM TurnSerialized == Spec => []Serialized
<1>1. IInv => Serialized
  BY DEF IInv
<1> QED BY <1>1, TurnInvariant, PTL

\* A confirmed draft creates one Job and is never live again (drafts.py).
THEOREM TurnDraftConfirmedOnce == Spec => []DraftConfirmedOnce
<1>1. IInv => DraftConfirmedOnce
  BY DEF IInv, DraftsOwned, DraftConfirmedOnce
<1> QED BY <1>1, TurnInvariant, PTL

\* Revocation is a barrier: a turn commits only while its session is live
\* (revalidate_reserved_turn re-authenticates the principal).
THEOREM TurnRevocationBarrier == Spec => RevocationBarrier
<1>1. ASSUME IInv, [Next]_vars, NEW r \in Turns, turn[r].at = 0, turn'[r].at # 0
      PROVE  Live(SessionOf(r))
  <2>1. PICK q \in Turns : Handler(q) \/ Start(q) \/ Crash(q)
    <3>1. UNCHANGED turn => FALSE
      BY <1>1
    <3> QED BY <1>1, <3>1 DEF Next, vars, Issue, ExpireReservation, ExpireLease,
               ExpireSubmission, Revoke, RetireSession, ResolveDraft, ConfirmDraft
  <2>2. ~Remembered
    BY <1>1 DEF Remembered
  <2>3. Commit(q)
    BY <1>1, <2>1, <2>2, StartStep, CrashStep, ReserveStep, RefuseStep, RetireUnusedStep,
       LoseAuthorityStep, ReenterStep, FailsStep, AbandonStep DEF Handler
  <2>4. q = r
    BY <1>1, <2>3 DEF Commit, IInv, TypeOK
  <2> QED BY <2>3, <2>4 DEF Commit, Valid, PrincipalLive
<1>2. IInv /\ [Next]_vars =>
        [\A r \in Turns : turn[r].at = 0 /\ turn'[r].at # 0 => Live(SessionOf(r))]_vars
  BY <1>1
<1> QED BY <1>2, TurnInvariant, PTL DEF Spec, RevocationBarrier

\* A live reservation ends by a step of its own turn or by the clock
\* (abandon_reserved_turn, commit_reserved_turn compare the token).
THEOREM TurnReservationOwned == Spec => ReservationOwned
<1>1. ASSUME IInv, [Next]_vars, Reserved, conv'.turn # conv.turn
      PROVE  turn'[conv.turn] # turn[conv.turn]
  <2>1. TypeOK
    BY <1>1 DEF IInv
  <2>2. PICK r \in Turns : Commit(r) \/ Abandon(r)
    <3>1. conv'.turn = conv.turn => FALSE
      BY <1>1
    <3> QED BY <1>1, <2>1, <3>1
            DEF Next, Handler, TypeOK, vars, Issue, Start, Reserve, RefuseReservation,
                RetireUnused, LoseAuthority, Reenter, LeaveEarly, PhaseBFails, Crash,
                ExpireReservation, ExpireLease, ExpireSubmission, Revoke, RetireSession,
                ResolveDraft, ConfirmDraft, BumpVersion
  <2>3. conv.turn = r
    BY <1>1, <2>2 DEF Commit, Valid, HoldsReservation, Abandon
  <2>4. turn'[r].pc # turn[r].pc
    <3>1. CASE Commit(r)
      <4>1. PICK w \in TurnStates : w = turn[r]
        BY <2>1 DEF TypeOK
      <4>2. turn[r].pc = "phaseB" /\ turn'[r].pc \in {"done", "abandoning"}
        BY <2>1, <3>1, <4>1 DEF Commit, TypeOK, TurnStates
      <4> QED BY <4>2
    <3>2. CASE Abandon(r)
      <4>1. MovesTo(r, "done")
        BY <2>1, <3>2, GotoMoves DEF Abandon
      <4> QED BY <3>2, <4>1 DEF MovesTo, Abandon
    <3> QED BY <2>2, <3>1, <3>2
  <2> QED BY <2>3, <2>4
<1>2. IInv /\ [Next]_vars => [Reserved /\ conv'.turn # conv.turn =>
                                turn'[conv.turn] # turn[conv.turn]]_vars
  BY <1>1
<1> QED BY <1>2, TurnInvariant, PTL DEF Spec, ReservationOwned

----------------------------------------------------------------------------
\* What a request reports.

\* A row that says COMPLETED was completed by a turn with the message it names.
CompletedAnswered ==
    \A i \in Subs : sub[i].status = "COMPLETED" =>
        \E q \in Turns : Committed(q) /\ turn[q].sub = i /\ turn[q].msg = sub[i].msg

\* A committed turn keeps what it answered.
AnswersStay ==
    \A q \in Turns : Committed(q) =>
        turn'[q].at # 0 /\ turn'[q].sub = turn[q].sub /\ turn'[q].msg = turn[q].msg

\* A row is completed by nobody but a turn that commits for it.
RowsTold ==
    \A i \in Subs : sub'[i].status = "COMPLETED" =>
        \/ sub[i].status = "COMPLETED" /\ sub'[i].msg = sub[i].msg
        \/ \E q \in Turns : turn'[q].at # 0 /\ turn'[q].sub = i /\ turn'[q].msg = sub'[i].msg

\* A report is an old one, or has its reason in this step.
Told(r) ==
    turn'[r].outcome \in {"COMPLETED", "REPLAYED"} =>
        \/ /\ turn'[r].outcome = turn[r].outcome
           /\ turn'[r].sub = turn[r].sub /\ turn'[r].msg = turn[r].msg
        \/ turn'[r].outcome = "COMPLETED" /\ turn'[r].at # 0
        \/ /\ turn'[r].outcome = "REPLAYED"
           /\ \E q \in Turns : /\ Committed(q) /\ turn[q].sub = turn'[r].sub
                               /\ turn[q].msg = turn'[r].msg

Truth == TruthfulOutcome /\ CompletedAnswered

LEMMA TruthStep ==
    ASSUME Truth, AnswersStay, RowsTold, \A r \in Turns : Told(r)
    PROVE  Truth'
<1>1. ASSUME NEW r \in Turns, turn'[r].outcome = "COMPLETED"
      PROVE  turn'[r].at # 0
  BY <1>1 DEF Truth, TruthfulOutcome, AnswersStay, Told, Committed
<1>2. ASSUME NEW r \in Turns, turn'[r].outcome = "REPLAYED"
      PROVE  \E q \in Turns : /\ turn'[q].at # 0 /\ turn'[q].sub = turn'[r].sub
                              /\ turn'[q].msg = turn'[r].msg
  <2>1. PICK q \in Turns : /\ Committed(q) /\ turn[q].sub = turn'[r].sub
                           /\ turn[q].msg = turn'[r].msg
    BY <1>2 DEF Truth, TruthfulOutcome, Told
  <2> QED BY <2>1 DEF AnswersStay
<1>3. ASSUME NEW i \in Subs, sub'[i].status = "COMPLETED"
      PROVE  \E q \in Turns : /\ turn'[q].at # 0 /\ turn'[q].sub = i
                              /\ turn'[q].msg = sub'[i].msg
  <2>1. CASE sub[i].status = "COMPLETED" /\ sub'[i].msg = sub[i].msg
    <3>1. PICK q \in Turns : Committed(q) /\ turn[q].sub = i /\ turn[q].msg = sub[i].msg
      BY <2>1 DEF Truth, CompletedAnswered
    <3> QED BY <2>1, <3>1 DEF AnswersStay
  <2> QED BY <1>3, <2>1 DEF RowsTold
<1> QED BY <1>1, <1>2, <1>3 DEF Truth, TruthfulOutcome, CompletedAnswered, Committed

LEMMA OthersTruth ==
    ASSUME Truth, UNCHANGED turn, RowsTold
    PROVE  Truth'
BY TruthStep DEF AnswersStay, Told, Committed

\* The handler of r moves and no row is completed.
LEMMA MoverTruth ==
    ASSUME IInv, Truth, NEW r \in Turns, NEW p, MovesTo(r, p), Told(r), RowsTold
    PROVE  Truth'
<1>1. AnswersStay
  BY DEF MovesTo, AnswersStay, Committed
<1>2. \A q \in Turns : Told(q)
  BY DEF MovesTo, Told
<1> QED BY <1>1, <1>2, TruthStep

LEMMA PlaceTold ==
    ASSUME TypeOK, NEW r \in Turns, NEW p \in Running \cup {"done"}, NEW o \in Outcomes,
           turn' = [turn EXCEPT ![r].pc = p, ![r].outcome = o]
    PROVE  MovesTo(r, p) /\ turn'[r].outcome = o
<1>1. turn \in [Turns -> TurnStates] /\ turn[r] \in TurnStates
  BY DEF TypeOK
<1>2. turn'[r].outcome = o
  BY <1>1 DEF TurnStates
<1> QED BY <1>2, PlaceMoves

\* A step that reports neither COMPLETED nor REPLAYED, or nothing yet.
LEMMA PlaceTruth ==
    ASSUME IInv, Truth, RowsTold, NEW r \in Turns, NEW p \in Running \cup {"done"},
           \/ Goto(r, p)
           \/ \E o \in Outcomes \ {"COMPLETED", "REPLAYED"} :
                 turn' = [turn EXCEPT ![r].pc = p, ![r].outcome = o]
    PROVE  Truth'
<1>0. TypeOK
  BY DEF IInv
<1>1. CASE Goto(r, p)
  <2>1. MovesTo(r, p)
    BY <1>0, <1>1, GotoMoves
  <2>2. turn'[r].outcome = turn[r].outcome
    BY <1>0, <1>1 DEF Goto, TypeOK, TurnStates
  <2> QED BY <2>1, <2>2, MoverTruth DEF Told, MovesTo
<1>2. ASSUME NEW o \in Outcomes \ {"COMPLETED", "REPLAYED"},
             turn' = [turn EXCEPT ![r].pc = p, ![r].outcome = o]
      PROVE  Truth'
  <2>1. MovesTo(r, p) /\ turn'[r].outcome = o
    BY <1>0, <1>2, PlaceTold
  <2> QED BY <2>1, MoverTruth DEF Told
<1> QED BY <1>1, <1>2

\* The read before any lock finds a completed row, whose message is the
\* request's: an issued row that was completed has one.
LEMMA StartTruth == ASSUME IInv, Truth, NEW r \in Turns, Start(r) PROVE Truth'
<1>0. TypeOK /\ HandlerKnows
  BY DEF IInv
<1>1. PICK i \in Subs, m \in Messages, p \in {"done", "checked"},
           o \in {"NOT_FOUND", "REPLAYED", "IN_PROGRESS", "none"} :
        /\ turn' = [turn EXCEPT ![r] =
                      [Fresh EXCEPT !.pc = p, !.sub = i, !.msg = m, !.outcome = o]]
        /\ o = "REPLAYED" => sub[i].status = "COMPLETED" /\ sub[i].msg \in {None, m}
  BY DEF Start
<1>2. /\ turn'[r].sub = i /\ turn'[r].msg = m /\ turn'[r].outcome = o
      /\ \A q \in Turns \ {r} : turn'[q] = turn[q]
  BY <1>0, <1>1 DEF TypeOK, Fresh
<1>3. ~Committed(r)
  BY <1>0 DEF HandlerKnows, Start
<1>4. AnswersStay
  BY <1>2, <1>3 DEF AnswersStay, Committed
<1>5. Told(r)
  <2> SUFFICES ASSUME o = "REPLAYED"
               PROVE  \E q \in Turns : Committed(q) /\ turn[q].sub = i /\ turn[q].msg = m
    BY <1>2 DEF Told
  <2>1. PICK q \in Turns : Committed(q) /\ turn[q].sub = i /\ turn[q].msg = sub[i].msg
    BY <1>1 DEF Truth, CompletedAnswered
  <2>2. turn[q].msg \in Messages
    BY <1>0, <2>1 DEF HandlerKnows
  <2>3. sub[i].msg = m
    BY <1>1, <2>1, <2>2, TurnAssumption
  <2> QED BY <2>1, <2>3
<1>6. \A q \in Turns : Told(q)
  BY <1>2, <1>5 DEF Told
<1>7. RowsTold
  BY DEF Start, RowsTold
<1> QED BY <1>4, <1>6, <1>7, TruthStep

LEMMA ReserveTruth == ASSUME IInv, Truth, NEW r \in Turns, Reserve(r) PROVE Truth'
<1>0. TypeOK /\ HandlerKnows
  BY DEF IInv
<1>1. PICK e \in EpochsFor(SessionOf(r)), p \in {"away", "phaseB"} :
        turn' = [turn EXCEPT ![r].pc = p, ![r].base = conv.version,
                             ![r].epoch = e, ![r].draft = ctx[SessionOf(r)].draft]
  BY DEF Reserve
<1>2. PICK w \in TurnStates : w = turn[r]
  BY <1>0 DEF TypeOK
<1>3. PICK v : v = [w EXCEPT !.pc = p, !.base = conv.version, !.epoch = e,
                             !.draft = ctx[SessionOf(r)].draft]
  OBVIOUS
<1>4. turn' = [turn EXCEPT ![r] = v]
  BY <1>0, <1>1, <1>2, <1>3 DEF TypeOK
<1>5. v.sub = w.sub /\ v.msg = w.msg /\ v.at = w.at /\ v.outcome = w.outcome
  BY <1>3 DEF TurnStates
<1>6. /\ turn'[r].sub = turn[r].sub /\ turn'[r].msg = turn[r].msg
      /\ turn'[r].at = turn[r].at /\ turn'[r].outcome = turn[r].outcome
      /\ \A q \in Turns \ {r} : turn'[q] = turn[q]
  BY <1>0, <1>2, <1>4, <1>5 DEF TypeOK
<1>7. AnswersStay
  BY <1>6 DEF AnswersStay, Committed
<1>8. \A q \in Turns : Told(q)
  BY <1>6 DEF Told
<1>9. RowsTold
  <2>1. PICK i \in Subs : i = turn[r].sub
    BY <1>0 DEF HandlerKnows, Reserve
  <2>2. PICK x \in SubRows : x = sub[i]
    BY <1>0 DEF TypeOK
  <2>3. PICK y : y = [x EXCEPT !.status = "PROCESSING", !.msg = turn[r].msg,
                               !.owner = r, !.leased = TRUE]
    OBVIOUS
  <2>4. sub' = [sub EXCEPT ![i] = y]
    BY <1>0, <2>1, <2>2, <2>3 DEF TypeOK, Reserve
  <2>5. y.status = "PROCESSING"
    BY <2>3 DEF SubRows
  <2>6. sub'[i] = y /\ \A j \in Subs \ {i} : sub'[j] = sub[j]
    BY <1>0, <2>4 DEF TypeOK
  <2> QED BY <2>5, <2>6 DEF RowsTold
<1> QED BY <1>7, <1>8, <1>9, TruthStep

\* Under the lock the request hash is compared again before REPLAYED is said.
LEMMA RefuseTruth == ASSUME IInv, Truth, NEW r \in Turns, RefuseReservation(r) PROVE Truth'
<1>0. TypeOK /\ HandlerKnows
  BY DEF IInv
<1>1. RowsTold
  BY DEF RefuseReservation, RowsTold
<1>2. CASE Finish(r, "REVOKED") \/ Finish(r, "NOT_FOUND")
  BY <1>1, <1>2, PlaceTruth DEF Finish, Outcomes
<1>3. CASE Goto(r, "refused") \/ Goto(r, "rejecting")
  BY <1>1, <1>3, PlaceTruth DEF Running
<1>4. CASE Finish(r, "REPLAYED") /\ Answered(turn[r].sub, turn[r].msg)
  <2>1. MovesTo(r, "done") /\ turn'[r].outcome = "REPLAYED"
    BY <1>0, <1>4, PlaceTold DEF Finish, Outcomes
  <2>2. turn[r].sub \in Subs
    BY <1>0 DEF HandlerKnows, RefuseReservation
  <2>3. PICK q \in Turns : /\ Committed(q) /\ turn[q].sub = turn[r].sub
                           /\ turn[q].msg = turn[r].msg
    BY <1>4, <2>2 DEF Truth, CompletedAnswered, Answered
  <2>4. turn'[r].sub = turn[r].sub /\ turn'[r].msg = turn[r].msg
    BY <2>1 DEF MovesTo
  <2>5. Told(r)
    BY <2>1, <2>3, <2>4 DEF Told
  <2> QED BY <1>1, <2>1, <2>5, MoverTruth
<1> QED BY <1>2, <1>3, <1>4 DEF RefuseReservation

\* The steps that write the row of an unfinished submission, or none.
LEMMA EndsTruth ==
    ASSUME IInv, Truth, NEW r \in Turns,
           \/ RetireUnused(r) \/ LoseAuthority(r) \/ LeaveEarly(r) \/ PhaseBFails(r)
           \/ Abandon(r) \/ Crash(r)
    PROVE  Truth'
<1>0. TypeOK /\ HandlerKnows
  BY DEF IInv
<1>1. CASE LoseAuthority(r) \/ LeaveEarly(r) \/ PhaseBFails(r)
  <2>1. RowsTold
    BY <1>1 DEF LoseAuthority, LeaveEarly, PhaseBFails, RowsTold
  <2>2. FailWith(r, "NOT_RUN") \/ FailWith(r, "REVOKED")
    BY <1>1 DEF LoseAuthority, LeaveEarly, PhaseBFails
  <2> QED BY <2>1, <2>2, PlaceTruth DEF FailWith, Outcomes, Running
<1>2. CASE Crash(r)
  <2>1. RowsTold
    BY <1>2 DEF Crash, RowsTold
  <2> QED BY <1>2, <2>1, PlaceTruth DEF Crash, Finish, Outcomes
<1>3. CASE RetireUnused(r)
  <2>1. PICK i \in Subs : i = turn[r].sub
    BY <1>0, <1>3 DEF HandlerKnows, RetireUnused
  <2>2. sub' = sub \/ sub' = [sub EXCEPT ![i].status = "ABANDONED"]
    BY <1>3, <2>1 DEF RetireUnused
  <2>3. RowsTold
    BY <1>0, <2>2 DEF TypeOK, SubRows, RowsTold
  <2>4. Finish(r, "IN_PROGRESS") \/ Finish(r, "NOT_ACTIVE")
    BY <1>3 DEF RetireUnused
  <2> QED BY <2>3, <2>4, PlaceTruth DEF Finish, Outcomes
<1>4. CASE Abandon(r)
  <2>1. PICK i \in Subs : i = turn[r].sub
    BY <1>0, <1>4 DEF HandlerKnows, Abandon
  <2>2. \/ sub' = sub
        \/ sub' = [sub EXCEPT ![i].status = "ABANDONED", ![i].owner = None,
                              ![i].leased = FALSE]
    BY <1>4, <2>1 DEF Abandon
  <2>3. RowsTold
    <3>1. PICK x \in SubRows : x = sub[i]
      BY <1>0 DEF TypeOK
    <3>2. PICK y : y = [x EXCEPT !.status = "ABANDONED", !.owner = None, !.leased = FALSE]
      OBVIOUS
    <3>3. y.status = "ABANDONED"
      BY <3>2 DEF SubRows
    <3>4. sub' = sub \/ sub' = [sub EXCEPT ![i] = y]
      BY <1>0, <2>2, <3>1, <3>2 DEF TypeOK
    <3> QED BY <1>0, <3>3, <3>4 DEF TypeOK, RowsTold
  <2>4. Goto(r, "done")
    BY <1>4 DEF Abandon
  <2> QED BY <2>3, <2>4, PlaceTruth
<1> QED BY <1>1, <1>2, <1>3, <1>4

LEMMA ReenterTruth == ASSUME IInv, Truth, NEW r \in Turns, Reenter(r) PROVE Truth'
<1>0. TypeOK
  BY DEF IInv
<1>1. RowsTold
  BY DEF Reenter, RowsTold
<1>2. CASE turn' = [turn EXCEPT ![r].calls = @ + 1]
  <2>1. PICK w \in TurnStates : w = turn[r]
    BY <1>0 DEF TypeOK
  <2>2. PICK v : v = [w EXCEPT !.calls = w.calls + 1]
    OBVIOUS
  <2>3. v \in TurnStates /\ v.pc = w.pc /\ v.sub = w.sub /\ v.msg = w.msg
        /\ v.base = w.base /\ v.at = w.at /\ v.outcome = w.outcome
    BY <2>2 DEF TurnStates
  <2>4. turn' = [turn EXCEPT ![r] = v]
    BY <1>0, <1>2, <2>1, <2>2 DEF TypeOK
  <2>5. MovesTo(r, v.pc)
    BY <1>0, <2>1, <2>3, <2>4, StateMoves DEF TypeOK
  <2>6. turn'[r].outcome = turn[r].outcome
    BY <1>0, <2>1, <2>3, <2>4 DEF TypeOK
  <2>7. Told(r)
    BY <2>5, <2>6 DEF Told, MovesTo
  <2> QED BY <1>1, <2>5, <2>7, MoverTruth
<1>3. CASE turn' = [turn EXCEPT ![r].pc = "phaseB"]
  BY <1>1, <1>3, PlaceTruth DEF Goto, Running
<1>4. CASE FailWith(r, "NOT_RUN")
  BY <1>1, <1>4, PlaceTruth DEF FailWith, Outcomes, Running
<1> QED BY <1>2, <1>3, <1>4 DEF Reenter

\* The commit completes the row of its own message.
LEMMA CommitTruth == ASSUME IInv, Truth, NEW r \in Turns, Commit(r) PROVE Truth'
<1>0. TypeOK /\ HandlerKnows
  BY DEF IInv
<1>1. PICK i \in Subs : i = turn[r].sub /\ ~Committed(r)
  BY <1>0 DEF HandlerKnows, Commit
<1>2. sub[i].msg = turn[r].msg
  BY <1>1 DEF Commit, OwnsSubmission
<1>3. PICK o \in {"COMPLETED", "NOT_RUN"} :
        turn' = [turn EXCEPT ![r].at = conv.version + 2, ![r].outcome = o,
                   ![r].pc = IF o = "COMPLETED" THEN "done" ELSE "abandoning"]
  BY DEF Commit
<1>4. PICK n \in Nat : n = conv.version + 2 /\ n # 0
  BY <1>0 DEF TypeOK
<1>5. PICK p : p = IF o = "COMPLETED" THEN "done" ELSE "abandoning"
  OBVIOUS
<1>6. PICK w \in TurnStates : w = turn[r]
  BY <1>0 DEF TypeOK
<1>7. PICK v : v = [w EXCEPT !.at = n, !.outcome = o, !.pc = p]
  OBVIOUS
<1>8. turn' = [turn EXCEPT ![r] = v]
  BY <1>0, <1>3, <1>4, <1>5, <1>6, <1>7 DEF TypeOK
<1>9. v.sub = w.sub /\ v.msg = w.msg /\ v.at = n /\ v.outcome = o
  BY <1>7 DEF TurnStates
<1>10. /\ turn'[r].sub = i /\ turn'[r].msg = turn[r].msg
       /\ turn'[r].at # 0 /\ turn'[r].outcome = o
       /\ \A q \in Turns \ {r} : turn'[q] = turn[q]
  BY <1>0, <1>1, <1>4, <1>6, <1>8, <1>9 DEF TypeOK
<1>11. AnswersStay
  BY <1>1, <1>10 DEF AnswersStay, Committed
<1>12. \A q \in Turns : Told(q)
  BY <1>10 DEF Told
<1>13. RowsTold
  <2>1. PICK x \in SubRows : x = sub[i]
    BY <1>0 DEF TypeOK
  <2>2. PICK y : y = [x EXCEPT !.status = "COMPLETED", !.leased = FALSE]
    OBVIOUS
  <2>3. sub' = [sub EXCEPT ![i] = y] /\ y.msg = x.msg
    BY <1>0, <1>1, <2>1, <2>2 DEF TypeOK, Commit, SubRows
  <2>4. sub'[i] = y /\ \A j \in Subs \ {i} : sub'[j] = sub[j]
    BY <1>0, <2>3 DEF TypeOK
  <2> QED BY <1>2, <1>10, <2>1, <2>3, <2>4 DEF RowsTold
<1> QED BY <1>11, <1>12, <1>13, TruthStep

\* The clock, the sessions and the draft actions complete no submission.
LEMMA NoHandlerTruth ==
    ASSUME IInv, Truth,
           \/ \E i \in Subs, s \in Sessions : Issue(i, s)
           \/ ExpireReservation
           \/ \E i \in Subs : ExpireLease(i) \/ ExpireSubmission(i)
           \/ \E s \in Sessions : Revoke(s) \/ RetireSession(s) \/ ResolveDraft(s)
                                  \/ ConfirmDraft(s)
           \/ UNCHANGED vars
    PROVE  Truth'
<1>0. \A j \in Subs : sub[j] \in SubRows
  BY DEF IInv, TypeOK
<1>1. ASSUME NEW i \in Subs, NEW s \in Sessions, Issue(i, s) PROVE Truth'
  <2>1. PICK e \in EpochsFor(s) :
          sub' = [j \in Subs |->
                    IF j = i THEN Row("ISSUED", s, e)
                    ELSE IF Collectable(j) THEN [sub[j] EXCEPT !.status = "gone"]
                    ELSE sub[j]]
    BY <1>1 DEF Issue
  <2>2. \A j \in Subs : [sub[j] EXCEPT !.status = "gone"].status = "gone"
    BY <1>0 DEF SubRows
  <2>3. RowsTold
    BY <2>1, <2>2 DEF RowsTold, Row
  <2> QED BY <1>1, <2>3, OthersTruth DEF Issue
<1>2. ASSUME NEW i \in Subs, ExpireLease(i) \/ ExpireSubmission(i) PROVE Truth'
  <2>1. \A j \in Subs : sub'[j].status = sub[j].status /\ sub'[j].msg = sub[j].msg
    <3>1. PICK x \in SubRows : x = sub[i]
      BY <1>0
    <3>2. PICK y : /\ y = [x EXCEPT !.leased = FALSE] \/ y = [x EXCEPT !.fresh = FALSE]
                   /\ sub' = [sub EXCEPT ![i] = y]
      BY <1>2, <3>1 DEF ExpireLease, ExpireSubmission
    <3>3. y.status = x.status /\ y.msg = x.msg
      BY <3>2 DEF SubRows
    <3> QED BY <3>1, <3>2, <3>3 DEF IInv, TypeOK
  <2> QED BY <1>2, <2>1, OthersTruth DEF RowsTold, ExpireLease, ExpireSubmission
<1>3. ASSUME NEW s \in Sessions, RetireSession(s) PROVE Truth'
  <2>1. sub' = [i \in Subs |-> IF sub[i].session = s THEN [sub[i] EXCEPT !.status = "gone"]
                               ELSE sub[i]]
    BY <1>3 DEF RetireSession
  <2>2. \A j \in Subs : [sub[j] EXCEPT !.status = "gone"].status = "gone"
    BY <1>0 DEF SubRows
  <2>3. RowsTold
    BY <2>1, <2>2 DEF RowsTold
  <2> QED BY <1>3, <2>3, OthersTruth DEF RetireSession
<1>4. CASE UNCHANGED <<sub, turn>>
  BY <1>4, OthersTruth DEF RowsTold
<1> QED BY <1>1, <1>2, <1>3, <1>4 DEF ExpireReservation, Revoke, ResolveDraft, ConfirmDraft,
                                      vars

LEMMA NextTruth == IInv /\ Truth /\ [Next]_vars => Truth'
BY StartTruth, ReserveTruth, RefuseTruth, EndsTruth, ReenterTruth, CommitTruth, NoHandlerTruth
   DEF Next, Handler

\* COMPLETED is said of a turn that is in the transcript, and REPLAYED only when
\* a turn for the same submission and message is, although the answer is known
\* from a read before any lock or from a second look under it
\* (submit_conversation_turn, claim_submission).
THEOREM TurnTruthfulOutcome == Spec => []TruthfulOutcome
<1>1. Init => Truth
  BY DEF Init, Row, Fresh, Truth, TruthfulOutcome, CompletedAnswered
<1>2. Truth => TruthfulOutcome
  BY DEF Truth
<1> QED BY <1>1, <1>2, NextTruth, TurnInvariant, PTL DEF Spec

-----------------------------------------------------------------------------
(* What a plan is by who made it.                                          *)
Found(span, m) ==
    \/ "lines" \in m.cues
    \/ \E r \in m.reqs : Inside(r.owner, span)

ByModel(p, m) ==
    p.origin = "MODEL" /\ p.source = m /\ \E q \in Plans : p.steps = q.steps

ByServer(p) ==
    \E m \in Inputs :
        \/ p = SearchPlan(m)
        \/ \E n : p = LimitPlan(n, m)
        \/ \E span \in {All(m.text), JobSource(m)} : p = VacancyPlan(span, m) /\ Found(span, m)

(* What the validation of a plan of the model has established.             *)
Vetted(p) ==
    p.origin = "MODEL" =>
        /\ \A i \in DOMAIN p.steps : /\ Registry[p.steps[i].cap].proposable
                                     /\ ~Resolved(p)[i].forbidden
        /\ Covers(UNION {Resolved(p)[i].spans : i \in DOMAIN p.steps}, p.source)

Unsafe(text, m) ==
    \E s \in text : DeniedIn(s, m.text) \/ \E q \in ProtectedSpans(m) : Overlap(s, q)

(* What the steps that ran left behind.                                    *)
StepsHold ==
    \A e \in ran :
        /\ e.step \in DOMAIN plan.steps
        /\ e.cap = plan.steps[e.step].cap
        /\ e.text = Resolve(plan.steps[e.step], plan.source, FALSE).text
        /\ e.ok /\ e.cap \in Planners => ~Unsafe(e.text, plan.source)

PlanningInv ==
    /\ message \in Inputs
    /\ phase \in {"start", "entry", "model", "validate"} => ran = {}
    /\ phase \in {"validate", "execute"} \/ ran # {} => ByModel(plan, message) \/ ByServer(plan)
    /\ phase = "execute" \/ ran # {} => Vetted(plan)
    /\ StepsHold

-----------------------------------------------------------------------------
LEMMA LeastIn ==
    ASSUME NEW S \in SUBSET Nat, S # {}
    PROVE  Least(S) \in S /\ \A j \in S : Least(S) <= j
<1>1. PICK i \in S : \A j \in S : ~(<<j, i>> \in OpToRel(<, Nat))
  BY WFMin, NatLessThanWellFounded
<1>2. \A j \in S : ~(j < i)
  BY <1>1 DEF OpToRel
<1>3. \A j \in S : i <= j
  BY <1>2
<1> QED
  BY <1>3 DEF Least

(* Of a list of checks, the first that finds something.                    *)
LEMMA FailureIsFirst ==
    ASSUME NEW checks, DOMAIN checks \in SUBSET Nat
    PROVE  \/ /\ FirstFailure(checks).code = "VALID"
              /\ \A k \in DOMAIN checks : checks[k].at = {}
           \/ \E k \in DOMAIN checks :
                 /\ checks[k].at # {} /\ FirstFailure(checks).code = checks[k].code
                 /\ \A j \in DOMAIN checks : j < k => checks[j].at = {}
<1> DEFINE failing == {k \in DOMAIN checks : checks[k].at # {}}
<1>1. CASE failing = {}
  BY <1>1 DEF FirstFailure
<1>2. CASE failing # {}
  <2> DEFINE k == Least(failing)
  <2>1. k \in failing /\ \A j \in failing : k <= j
    <3>1. failing \in SUBSET Nat
      OBVIOUS
    <3> HIDE DEF failing
    <3> QED
      BY <1>2, <3>1, LeastIn
  <2>2. FirstFailure(checks).code = checks[k].code
    BY <1>2 DEF FirstFailure
  <2>3. \A j \in DOMAIN checks : j < k => checks[j].at = {}
    <3> SUFFICES ASSUME NEW j \in DOMAIN checks, j < k, checks[j].at # {} PROVE FALSE
      OBVIOUS
    <3>1. j \in failing
      OBVIOUS
    <3>2. k <= j /\ k \in Nat /\ j \in Nat
      BY <2>1, <3>1
    <3> QED
      BY <3>2
  <2> QED
    BY <2>1, <2>2, <2>3
<1> QED
  BY <1>1, <1>2

LEMMA ShapeFound ==
    ASSUME NEW p, NEW r, NEW s, FirstFailure(Shape(p, r, s)).code = "VALID", p.origin = "MODEL"
    PROVE  \A i \in DOMAIN p.steps : Registry[p.steps[i].cap].proposable
<1> DEFINE checks == Shape(p, r, s)
<1>1. DOMAIN checks = 1..6
  BY DEF Shape
<1>2. \A k \in DOMAIN checks : checks[k].code # "VALID"
  BY <1>1 DEF Shape, Fails
<1>3. checks[2].at = {i \in DOMAIN p.steps : ~Registry[p.steps[i].cap].proposable}
  BY DEF Shape, Fails
<1>4. checks[2].at = {}
  <2> HIDE DEF checks
  <2>1. DOMAIN checks \in SUBSET Nat /\ 2 \in DOMAIN checks
    BY <1>1
  <2>2. FirstFailure(checks).code = "VALID"
    BY DEF checks
  <2> QED
    BY <1>2, <2>1, <2>2, FailureIsFirst
<1> QED
  BY <1>3, <1>4

LEMMA GroundingFound ==
    ASSUME NEW p, NEW r, FirstFailure(Grounding(p, r)).code = "VALID", p.origin = "MODEL"
    PROVE  /\ \A i \in DOMAIN p.steps : ~r[i].forbidden
           /\ Covers(UNION {r[i].spans : i \in DOMAIN p.steps}, p.source)
<1> DEFINE checks == Grounding(p, r)
<1>1. DOMAIN checks = 1..5
  BY DEF Grounding
<1>2. \A k \in DOMAIN checks : checks[k].code # "VALID"
  BY <1>1 DEF Grounding, Fails
<1>3. /\ checks[1].at = {i \in DOMAIN p.steps : r[i].forbidden}
      /\ checks[4].at = IF ~Covers(UNION {r[i].spans : i \in DOMAIN p.steps}, p.source)
                        THEN {1} ELSE {}
  BY DEF Grounding, Fails
<1>4. checks[1].at = {} /\ checks[4].at = {}
  <2> HIDE DEF checks
  <2>1. DOMAIN checks \in SUBSET Nat /\ 1 \in DOMAIN checks /\ 4 \in DOMAIN checks
    BY <1>1
  <2>2. FirstFailure(checks).code = "VALID"
    BY DEF checks
  <2> QED
    BY <1>2, <2>1, <2>2, FailureIsFirst
<1> QED
  BY <1>3, <1>4

LEMMA ValidIsVetted ==
    ASSUME NEW p, NEW s, NEW set, Verdict(p, s, set).code = "VALID"
    PROVE  Vetted(p)
<1>1. /\ FirstFailure(Shape(p, Resolved(p), s)).code = "VALID"
      /\ FirstFailure(Grounding(p, Resolved(p))).code = "VALID"
  BY DEF Verdict
<1> QED
  BY <1>1, ShapeFound, GroundingFound DEF Vetted

(* The server analyses a text as a vacancy because it is one.              *)
LEMMA DraftsAreFound ==
    ASSUME NEW m \in Inputs, Route(m) = "FORCE_JOB_DRAFT"
    PROVE  Found(IF "job analysis" \in m.cues THEN JobSource(m) ELSE All(m.text), m)
<1> DEFINE rules == Rules(m)
<1>1. DOMAIN rules = 1..10 /\ FirstFailure(rules).code = "FORCE_JOB_DRAFT"
  <2>1. DOMAIN rules = 1..10
    BY DEF Rules
  <2> QED
    BY <2>1 DEF Route
<1>2. \A k \in 1..10 : rules[k].code = "FORCE_JOB_DRAFT" => k \in {3, 8}
  <2>1. /\ rules[1].code = "CLARIFY_INPUT_STRUCTURE"
        /\ rules[2].code = "CLARIFY_JOB_SOURCE_REQUIRED"
        /\ rules[4].code = "FORCE_RESULT_LIMIT"
        /\ rules[5].code = "MODEL_ROUTED"
        /\ rules[6].code = "FORCE_CANDIDATE_SEARCH"
        /\ rules[7].code = "MODEL_ROUTED"
        /\ rules[9].code = "CLARIFY_AMBIGUOUS"
        /\ rules[10].code = "MODEL_ROUTED"
    BY DEF Rules, Rule, Fails
  <2> HIDE DEF rules
  <2> QED
    BY <2>1
<1>3. /\ rules[2].at = {} => ~("job analysis" \in m.cues /\ ~UsefulSource(m))
      /\ rules[3].at # {} <=> "job analysis" \in m.cues
  BY DEF Rules, Rule, Fails
<1>4. rules[8].at # {} => Pasted(m)
  BY DEF Rules, Rule, Fails
<1>5. PICK k \in 1..10 : /\ rules[k].at # {} /\ rules[k].code = "FORCE_JOB_DRAFT"
                         /\ \A j \in 1..10 : j < k => rules[j].at = {}
  <2> HIDE DEF rules
  <2> QED
    BY <1>1, FailureIsFirst
<1>6. CASE k = 3
  <2>1. "job analysis" \in m.cues /\ UsefulSource(m)
    <3>1. rules[3].at # {} /\ rules[2].at = {}
      BY <1>5, <1>6
    <3> QED
      BY ONLY <1>3, <3>1
  <2> QED
    BY <2>1 DEF UsefulSource, Found
<1>7. CASE k = 8
  <2>1. "job analysis" \notin m.cues /\ Pasted(m)
    <3>1. rules[8].at # {} /\ rules[3].at = {}
      BY <1>5, <1>7
    <3> QED
      BY ONLY <1>3, <1>4, <3>1
  <2>2. "lines" \in m.cues \/ m.reqs # {}
    BY <2>1 DEF Pasted
  <2>3. \A r \in m.reqs : Inside(r.owner, All(m.text))
    BY PlanningAssumption DEF Inside, All
  <2> QED
    BY <2>1, <2>2, <2>3 DEF Found
<1> QED
  BY <1>2, <1>5, <1>6, <1>7

LEMMA EligibleIsFound ==
    ASSUME NEW m \in Inputs, Eligible(m)
    PROVE  Found(All(m.text), m)
<1>1. m.reqs # {}
  BY DEF Eligible, Material
<1>2. \A r \in m.reqs : Inside(r.owner, All(m.text))
  BY PlanningAssumption DEF Inside, All
<1> QED
  BY <1>1, <1>2 DEF Found

-----------------------------------------------------------------------------
LEMMA InitPlanning == PlanningInit => PlanningInv
BY DEF PlanningInit, PlanningInv, StepsHold

(* Every plan of a turn is the server's or the model's over its message.   *)
LEMMA ResolveStep == PlanningInv /\ ResolveDialogue => PlanningInv'
<1> SUFFICES ASSUME PlanningInv, ResolveDialogue PROVE PlanningInv'
  OBVIOUS
<1>1. ran = {} /\ ran' = {} /\ message' \in Inputs
  BY DEF PlanningInv, ResolveDialogue
<1>2. phase' \in {"validate", "execute"} => phase' = "validate" /\ ByServer(plan')
  <2>1. CASE phase' \in {"done", "entry"}
    BY <2>1
  <2>2. CASE \E source \in {m \in Inputs : Eligible(m)} :
                \/ Adopt(VacancyPlan(All(source.text), source))
                \/ Adopt(SearchPlan(source))
    <3>1. PICK source \in Inputs : /\ Eligible(source)
                                   /\ \/ Adopt(VacancyPlan(All(source.text), source))
                                      \/ Adopt(SearchPlan(source))
      BY <2>2
    <3>2. Found(All(source.text), source)
      BY <3>1, EligibleIsFound
    <3> QED
      BY <3>1, <3>2 DEF Adopt, ByServer
  <2> QED
    BY <2>1, <2>2 DEF ResolveDialogue, Clarify, Answer, Adopt
<1> QED
  BY <1>1, <1>2 DEF PlanningInv, StepsHold

LEMMA RouteStep == PlanningInv /\ RouteEntry => PlanningInv'
<1> SUFFICES ASSUME PlanningInv, RouteEntry PROVE PlanningInv'
  OBVIOUS
<1>1. ran = {} /\ ran' = {} /\ message \in Inputs /\ message' \in Inputs
  BY DEF PlanningInv, RouteEntry
<1>2. phase' \in {"validate", "execute"} => phase' = "validate" /\ ByServer(plan')
  <2> DEFINE span == IF "job analysis" \in message.cues THEN JobSource(message)
                     ELSE All(message.text)
  <2>1. CASE phase' \in {"done", "model"}
    BY <2>1
  <2>2. CASE Route(message) = "FORCE_JOB_DRAFT" /\ Adopt(VacancyPlan(span, message))
    <3>1. Found(span, message)
      BY <1>1, <2>2, DraftsAreFound
    <3> QED
      BY <1>1, <2>2, <3>1 DEF Adopt, ByServer
  <2>3. CASE Adopt(SearchPlan(message))
    BY <1>1, <2>3 DEF Adopt, ByServer
  <2>4. CASE Adopt(LimitPlan(message.count, message))
    BY <1>1, <2>4 DEF Adopt, ByServer
  <2> QED
    BY <2>1, <2>2, <2>3, <2>4 DEF RouteEntry, Clarify, Answer
<1> QED
  BY <1>1, <1>2 DEF PlanningInv, StepsHold

LEMMA ProposePlanStep == PlanningInv /\ ProposePlan => PlanningInv'
<1> SUFFICES ASSUME PlanningInv, ProposePlan PROVE PlanningInv'
  OBVIOUS
<1>1. PICK p \in Plans :
        Adopt([origin |-> "MODEL", goal |-> p.goal, steps |-> p.steps, source |-> message,
               offered |-> Offered(snapshot)])
  BY DEF ProposePlan
<1>2. ran = {} /\ ran' = {} /\ message \in Inputs /\ message' = message
  BY DEF PlanningInv, ProposePlan
<1>3. phase' = "validate" /\ ByModel(plan', message)
  BY <1>1 DEF Adopt, ByModel
<1> QED
  BY <1>2, <1>3 DEF PlanningInv, StepsHold

(* A turn that ends or passes on before any plan.                          *)
LEMMA TalkStep == PlanningInv /\ (FollowUpDraft \/ Propose) => PlanningInv'
BY DEF PlanningInv, FollowUpDraft, Propose, Clarify, Answer, StepsHold

LEMMA ValidateStep == PlanningInv /\ Validate => PlanningInv'
<1> SUFFICES ASSUME PlanningInv, Validate PROVE PlanningInv'
  OBVIOUS
<1>1. /\ ran = {} /\ ran' = {} /\ message' \in Inputs /\ message' = message /\ plan' = plan
      /\ ByModel(plan, message) \/ ByServer(plan)
  BY DEF PlanningInv, Validate
<1>2. \/ phase' = "done"
      \/ phase' = "execute" /\ Verdict(plan, snapshot, live).code = "VALID"
  BY DEF Validate, RejectPlan, RejectForSet, Clarify, Answer
<1>3. phase' = "execute" => Vetted(plan)
  BY <1>2, ValidIsVetted
<1> QED
  BY <1>1, <1>2, <1>3 DEF PlanningInv, StepsHold

LEMMA ExecuteKeeps == PlanningInv /\ ExecuteStep => PlanningInv'
<1> SUFFICES ASSUME PlanningInv, ExecuteStep PROVE PlanningInv'
  OBVIOUS
<1>1. PICK i \in Executable(plan) : \E o \in Reports(Resolve(plan.steps[i], plan.source, FALSE)) :
        ran' = ran \cup {[step |-> i, cap |-> Resolve(plan.steps[i], plan.source, FALSE).cap,
                          text |-> Resolve(plan.steps[i], plan.source, FALSE).text,
                          ref |-> Resolve(plan.steps[i], plan.source, FALSE).ref, ok |-> o.ok]}
  BY DEF ExecuteStep
<1>2. phase' \in {"execute", "done"} /\ phase = "execute" /\ message' = message /\ plan' = plan
  BY DEF ExecuteStep, Answer
<1>3. StepsHold'
  <2> SUFFICES ASSUME NEW e \in ran'
               PROVE  /\ e.step \in DOMAIN plan.steps
                      /\ e.cap = plan.steps[e.step].cap
                      /\ e.text = Resolve(plan.steps[e.step], plan.source, FALSE).text
                      /\ e.ok /\ e.cap \in Planners => ~Unsafe(e.text, plan.source)
    BY <1>2 DEF StepsHold
  <2>1. CASE e \in ran
    BY <2>1 DEF PlanningInv, StepsHold
  <2>2. CASE e \notin ran
    <3> DEFINE r == Resolve(plan.steps[i], plan.source, FALSE)
    <3>0. PICK o \in Reports(r) : ran' = ran \cup {[step |-> i, cap |-> r.cap, text |-> r.text,
                                                    ref |-> r.ref, ok |-> o.ok]}
      BY <1>1
    <3>1. e.step = i /\ e.cap = r.cap /\ e.text = r.text /\ e.ok = o.ok
      <4> HIDE DEF r
      <4>1. e = [step |-> i, cap |-> r.cap, text |-> r.text, ref |-> r.ref, ok |-> o.ok]
        BY <3>0, <2>2
      <4> QED
        BY <4>1
    <3>2. r.cap = plan.steps[i].cap
      BY DEF Resolve
    <3>3. i \in DOMAIN plan.steps
      BY DEF Executable
    <3>4. o.ok => Obstacle(r) = ""
      BY <3>0 DEF Reports
    <3>5. r.cap \in Planners /\ Unsafe(r.text, plan.source) => Obstacle(r) = "REFUSED"
      <4> HIDE DEF r
      <4> QED
        BY DEF Obstacle, Unsafe
    <3> HIDE DEF r
    <3>6. o.ok /\ r.cap \in Planners => ~Unsafe(r.text, plan.source)
      BY <3>4, <3>5
    <3> QED
      BY <3>1, <3>2, <3>3, <3>6 DEF r
  <2> QED
    BY <2>1, <2>2
<1> QED
  BY <1>2, <1>3 DEF PlanningInv

LEMMA DriftStep == PlanningInv /\ (Drift \/ UNCHANGED planningVars) => PlanningInv'
BY DEF PlanningInv, Drift, planningVars, StepsHold, ByModel

LEMMA NextPlanning == PlanningInv /\ [PlanningNext]_planningVars => PlanningInv'
BY ResolveStep, RouteStep, ProposePlanStep, TalkStep, ValidateStep, ExecuteKeeps, DriftStep
   DEF PlanningNext

-----------------------------------------------------------------------------
(* A text with protected content is never safe to quote as a whole.        *)
LEMMA WholeIsUnsafe ==
    ASSUME NEW m \in Inputs, Protected(m)
    PROVE  Unsafe({All(m.text)}, m)
<1>1. CASE DeniedIn(All(m.text), m.text)
  BY <1>1 DEF Unsafe
<1>2. CASE ProtectedSpans(m) # {}
  <2>1. PICK q \in ProtectedSpans(m) : TRUE
    BY <1>2
  <2>2. q \in m.protected \cup {r.owner : r \in m.reqs}
    BY <2>1 DEF ProtectedSpans
  <2>3. Overlap(All(m.text), q)
    BY <2>2, PlanningAssumption DEF Overlap, All
  <2> QED
    BY <2>1, <2>3 DEF Unsafe
<1> QED
  BY <1>1, <1>2 DEF Protected

(* What counts as coverage is reached: the text, or a place pointed at.    *)
LEMMA SpansAreReached ==
    ASSUME NEW p, NEW i \in DOMAIN p.steps, p.steps[i].span = Nothing, NEW s \in Resolved(p)[i].spans
    PROVE  s \in Reached(p)
<1> DEFINE t == p.source.text
           step == p.steps[i]
           text == IF step.source = Nothing THEN {} ELSE Selected(step.source, t)
           places == {PlaceOf(step.ref, t), PlaceOf(step.topic, t)} \ {Nothing}
<1>1. s \in text \cup places
  BY DEF Resolved, Resolve
<1>2. Resolve(step, p.source, FALSE).text = text
  BY DEF Resolve
<1>3. Reached(p) = UNION {({PlaceOf(p.steps[j].ref, t), PlaceOf(p.steps[j].topic, t)} \ {Nothing})
                            \cup Resolve(p.steps[j], p.source, FALSE).text : j \in DOMAIN p.steps}
  BY DEF Reached
<1>4. places \cup Resolve(step, p.source, FALSE).text \subseteq Reached(p)
  BY <1>3
<1> QED
  BY <1>1, <1>2, <1>4

LEMMA CoverageIsReached ==
    ASSUME NEW p, \A i \in DOMAIN p.steps : p.steps[i].span = Nothing,
           Covers(UNION {Resolved(p)[i].spans : i \in DOMAIN p.steps}, p.source)
    PROVE  \A r \in Material(p.source) : \A part \in Conjuncts(SubjectSpan(r), p.source.text) :
               \E s \in Reached(p) : Overlap(s, part)
<1> DEFINE spans == UNION {Resolved(p)[i].spans : i \in DOMAIN p.steps}
<1>1. spans \subseteq Reached(p)
  BY SpansAreReached
<1> QED
  BY <1>1 DEF Covers

(* The one step of each plan of the server.                                *)
LEMMA SearchPlanIs ==
    ASSUME NEW m
    PROVE  LET p == SearchPlan(m) IN
           /\ p.origin = "SERVER" /\ p.source = m /\ DOMAIN p.steps = {1}
           /\ p.steps[1].cap = "SEARCH" /\ p.steps[1].source = Whole /\ p.steps[1].span = Nothing
BY DEF SearchPlan, ServerPlan, NoStep

LEMMA LimitPlanIs ==
    ASSUME NEW m, NEW n
    PROVE  LET p == LimitPlan(n, m) IN
           /\ p.origin = "SERVER" /\ p.source = m /\ DOMAIN p.steps = {1}
           /\ p.steps[1].cap = "REFINE" /\ p.steps[1].source = Nothing /\ p.steps[1].span = Nothing
<1> DEFINE step == [NoStep EXCEPT !.cap = "REFINE", !.number = n]
<1>1. step.cap = "REFINE" /\ step.source = Nothing /\ step.span = Nothing
  BY DEF NoStep
<1> HIDE DEF step
<1>2. LimitPlan(n, m) = ServerPlan(Followup, step, m)
  BY DEF LimitPlan, step
<1> QED
  BY <1>1, <1>2 DEF ServerPlan

LEMMA VacancyPlanIs ==
    ASSUME NEW m, NEW s
    PROVE  LET p == VacancyPlan(s, m) IN
           /\ p.origin = "SERVER" /\ p.source = m /\ DOMAIN p.steps = {1}
           /\ p.steps[1].cap = "ANALYZE" /\ p.steps[1].span = s
<1> DEFINE step == [NoStep EXCEPT !.cap = "ANALYZE", !.span = s]
<1>1. step.cap = "ANALYZE" /\ step.span = s
  BY DEF NoStep
<1> HIDE DEF step
<1>2. VacancyPlan(s, m) = ServerPlan(Vacancy, step, m)
  BY DEF VacancyPlan, step
<1> QED
  BY <1>1, <1>2 DEF ServerPlan

LEMMA ServerPlans ==
    ASSUME NEW p, ByServer(p)
    PROVE  p.origin = "SERVER" /\ p.source \in Inputs /\ DOMAIN p.steps = {1}
<1>1. PICK m \in Inputs :
        \/ p = SearchPlan(m)
        \/ \E n : p = LimitPlan(n, m)
        \/ \E span \in {All(m.text), JobSource(m)} : p = VacancyPlan(span, m)
  BY DEF ByServer
<1> QED
  BY <1>1, SearchPlanIs, LimitPlanIs, VacancyPlanIs

LEMMA AnswersOfTheModel ==
    ASSUME PlanningInv, NEW e \in ran, e.ok, plan.origin = "MODEL"
    PROVE  /\ \A r \in Material(message) : \A part \in Conjuncts(SubjectSpan(r), message.text) :
                 \E s \in Reached(plan) : Overlap(s, part)
           /\ e.cap \in Planners => ~Protected(plan.source)
           /\ e.cap # "ANALYZE"
<1>1. Vetted(plan) /\ message \in Inputs /\ e.step \in DOMAIN plan.steps
  BY DEF PlanningInv, StepsHold
<1>2. ByModel(plan, message)
  <2>1. ByServer(plan) => plan.origin = "SERVER"
    BY ServerPlans
  <2> QED
    BY <2>1 DEF PlanningInv
<1>3. \A i \in DOMAIN plan.steps : plan.steps[i].span = Nothing
  BY <1>2, PlanningAssumption DEF ByModel
<1>4. e.cap # "ANALYZE"
  <2>1. Registry[e.cap].proposable
    BY <1>1 DEF Vetted, PlanningInv, StepsHold
  <2> QED
    BY <2>1 DEF Registry, Capability
<1>5. e.cap \in Planners => ~Protected(plan.source)
  <2> SUFFICES ASSUME e.cap \in Planners, Protected(plan.source) PROVE FALSE
    OBVIOUS
  <2> DEFINE step == plan.steps[e.step]
  <2>1. ~Resolved(plan)[e.step].forbidden
    BY <1>1 DEF Vetted
  <2>2. step.cap = e.cap
    BY DEF PlanningInv, StepsHold
  <2>3. step.source = Whole
    BY <1>1, <2>1, <2>2 DEF Resolved, Resolve
  <2>4. e.text = {All(plan.source.text)}
    BY <1>1, <1>3, <2>3, PlanningAssumption DEF PlanningInv, StepsHold, Resolve, Selected
  <2> QED
    BY <1>1, <1>2, <2>4, WholeIsUnsafe DEF PlanningInv, StepsHold, ByModel
<1> QED
  BY <1>1, <1>2, <1>3, <1>4, <1>5, CoverageIsReached DEF Vetted, ByModel

LEMMA AnswersOfTheServer ==
    ASSUME PlanningInv, NEW e \in ran, e.ok, plan.origin # "MODEL"
    PROVE  /\ e.cap \in Planners /\ e.text # {} => ~Protected(plan.source)
           /\ e.cap = "ANALYZE" =>
                 /\ plan.origin = "SERVER"
                 /\ \/ "lines" \in plan.source.cues
                    \/ \E r \in plan.source.reqs, s \in e.text : Inside(r.owner, s)
<1>1. PICK m \in Inputs :
        \/ plan = SearchPlan(m)
        \/ \E n : plan = LimitPlan(n, m)
        \/ \E span \in {All(m.text), JobSource(m)} : plan = VacancyPlan(span, m) /\ Found(span, m)
  BY DEF PlanningInv, ByServer, ByModel
<1>2. plan.source = m /\ plan.origin = "SERVER" /\ DOMAIN plan.steps = {1}
  BY <1>1, SearchPlanIs, LimitPlanIs, VacancyPlanIs
<1>3. /\ e.cap = plan.steps[1].cap
      /\ e.text = Resolve(plan.steps[1], m, FALSE).text
      /\ e.cap \in Planners => ~Unsafe(e.text, m)
  BY <1>2 DEF PlanningInv, StepsHold
<1>4. CASE plan = SearchPlan(m)
  <2>1. plan.steps[1].source = Whole /\ plan.steps[1].span = Nothing /\ plan.steps[1].cap = "SEARCH"
    BY <1>4, SearchPlanIs
  <2>2. e.text = {All(m.text)}
    BY <1>3, <2>1, PlanningAssumption DEF Resolve, Selected
  <2> QED
    BY <1>2, <1>3, <2>1, <2>2, WholeIsUnsafe DEF Planners
<1>5. CASE \E n : plan = LimitPlan(n, m)
  <2>1. /\ plan.steps[1].source = Nothing /\ plan.steps[1].span = Nothing
        /\ plan.steps[1].cap = "REFINE"
    BY <1>5, LimitPlanIs
  <2>2. e.text = {}
    BY <1>3, <2>1 DEF Resolve
  <2> QED
    BY <1>3, <2>1, <2>2
<1>6. CASE \E span \in {All(m.text), JobSource(m)} : plan = VacancyPlan(span, m) /\ Found(span, m)
  <2>1. PICK span \in {All(m.text), JobSource(m)} : plan = VacancyPlan(span, m) /\ Found(span, m)
    BY <1>6
  <2>2. plan.steps[1].span = span /\ plan.steps[1].cap = "ANALYZE"
    BY <2>1, VacancyPlanIs
  <2>3. e.text = {span}
    BY <1>3, <2>2, PlanningAssumption DEF Resolve
  <2> QED
    BY <1>2, <1>3, <2>1, <2>2, <2>3 DEF Found, Planners
<1> QED
  BY <1>1, <1>4, <1>5, <1>6

(* A step that answered answers for the whole message, whatever the model  *)
(* proposed.                                                               *)
THEOREM TurnPlanAnswersMessage == PlanningSpec => []PlanAnswersMessage
<1>1. PlanningInv => PlanAnswersMessage
  BY AnswersOfTheModel, AnswersOfTheServer DEF PlanAnswersMessage
<1> QED
  BY <1>1, InitPlanning, NextPlanning, PTL DEF PlanningSpec
=============================================================================
