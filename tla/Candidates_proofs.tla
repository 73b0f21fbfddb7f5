-------------------------- MODULE Candidates_proofs --------------------------
(***************************************************************************)
(* What is kept about candidates, for every number of runs, requests,      *)
(* documents, plans, vacancies and rows: the results of their analysis,    *)
(* the lists of them a conversation works with, and the vacancies and      *)
(* evaluations they are ranked by.                                         *)
(***************************************************************************)
EXTENDS CandidateAnalysis, ResultSets, JobRanking, CandidateSearch,
        FiniteSetTheorems, SequenceTheorems, WellFoundedInduction, TLAPS

(* Analysis: what was checked when a result was accepted still holds when  *)
(* it is committed, whatever the model calls return.                       *)

Fields == {"pc", "stage", "doc", "queue", "base", "plan", "out", "tries"}

\* A record of a run or a request.
IsJob(w) == w = [f \in Fields |-> w[f]]

JobsTyped == DOMAIN job = Jobs /\ job = [j \in Jobs |-> job[j]] /\ \A j \in Jobs : IsJob(job[j])

IInv == JobsTyped /\ WritesCurrent

LEMMA InitIInv == Init => IInv
<1> SUFFICES ASSUME Init PROVE IInv
  OBVIOUS
<1>1. IsJob(NoJob)
  BY DEF IsJob, NoJob, Fields
<1>2. NoJob.pc = "idle"
  BY DEF NoJob
<1> QED
  BY <1>1, <1>2 DEF Init, IInv, JobsTyped, WritesCurrent

\* One job moves; the others stay.
LEMMA Moves ==
    ASSUME JobsTyped, NEW j \in Jobs, NEW w, IsJob(w), Sets(j, w)
    PROVE  JobsTyped' /\ job'[j] = w /\ \A i \in Jobs \ {j} : job'[i] = job[i]
BY DEF JobsTyped, Sets

\* What WritesCurrent says of one writer depends on its record and the rows.
LEMMA SameRows ==
    ASSUME UNCHANGED <<evidence, versions>>, NEW i \in Jobs, job'[i] = job[i]
    PROVE  /\ Tracked(job[i].doc)' = Tracked(job[i].doc)
           /\ Extracts(i)' = Extracts(i)
           /\ Done(History(job[i].stage), job[i].doc)' = Done(History(job[i].stage), job[i].doc)
           /\ Unchanged(i)' = Unchanged(i)
           /\ PlanCurrent(i)' = PlanCurrent(i)
           /\ (Effective = job[i].plan)' = (Effective = job[i].plan)
           /\ (job[i].plan \notin vectors)' = (job[i].plan \notin vectors)
BY DEF evidence, versions, Tracked, Exists, Extracts, Done, Latest, History, Unchanged,
       Fingerprint, PlanCurrent, Effective

\* A step of a job that reads, calls the model or gives up.
LEMMA QuietStep ==
    ASSUME IInv, NEW j \in Jobs, NEW w, IsJob(w), Sets(j, w), w.pc # "write",
           UNCHANGED <<evidence, versions, lock>>
    PROVE  IInv'
<1>1. JobsTyped' /\ job'[j] = w /\ \A i \in Jobs \ {j} : job'[i] = job[i]
  BY Moves DEF IInv
<1>2. ASSUME NEW i \in Jobs, job'[i].pc = "write"
      PROVE  i # j /\ job'[i] = job[i]
  BY <1>1, <1>2
<1>3. WritesCurrent'
  <2> SUFFICES ASSUME NEW i \in Jobs, job'[i].pc = "write"
               PROVE  /\ lock' = i
                      /\ IF i \in Runs
                           THEN /\ Tracked(job[i].doc)'
                                /\ Extracts(i)' => ~Done(History(job[i].stage), job[i].doc)'
                           ELSE Unchanged(i)'
                      /\ ~Extracts(i)' =>
                           /\ (job[i].plan \notin vectors)'
                           /\ IF i \in Runs THEN PlanCurrent(i)' ELSE (Effective = job[i].plan)'
    BY DEF WritesCurrent
  <2>1. job'[i] = job[i]
    BY <1>2
  <2> QED
    BY <2>1, SameRows DEF IInv, WritesCurrent
<1> QED
  BY <1>1, <1>3 DEF IInv

LEMMA NoWriters ==
    ASSUME IInv, LockFree
    PROVE  \A i \in Jobs : job[i].pc # "write"
BY AnalysisAssumption DEF IInv, WritesCurrent, LockFree, Jobs

\* The step that takes the lock and accepts the result.
LEMMA PassStep ==
    ASSUME IInv, NEW j \in Jobs, LockFree,
           Sets(j, [job[j] EXCEPT !.pc = "write"]), lock' = j,
           UNCHANGED <<evidence, versions>>,
           IF j \in Runs
             THEN Tracked(job[j].doc) /\ (Extracts(j) => ~Done(History(job[j].stage), job[j].doc))
             ELSE Unchanged(j),
           ~Extracts(j) => /\ job[j].plan \notin vectors
                           /\ IF j \in Runs THEN PlanCurrent(j) ELSE Effective = job[j].plan
    PROVE  IInv'
<1> DEFINE w == [job[j] EXCEPT !.pc = "write"]
<1>1. IsJob(job[j])
  BY DEF IInv, JobsTyped
<1>2. /\ IsJob(w) /\ w.stage = job[j].stage /\ w.doc = job[j].doc
      /\ w.plan = job[j].plan /\ w.base = job[j].base
  BY <1>1 DEF IsJob, Fields
<1>3. JobsTyped' /\ job'[j] = w /\ \A i \in Jobs \ {j} : job'[i] = job[i]
  <2> HIDE DEF w
  <2>1. Sets(j, w)
    BY DEF w
  <2> QED
    BY <1>2, <2>1, Moves DEF IInv
<1>4. ASSUME NEW i \in Jobs, job'[i].pc = "write"
      PROVE  i = j
  BY <1>3, <1>4, NoWriters
<1> HIDE DEF w
<1>5. /\ job'[j].stage = job[j].stage /\ job'[j].doc = job[j].doc
      /\ job'[j].plan = job[j].plan /\ job'[j].base = job[j].base
  BY <1>2, <1>3
<1>6. /\ Extracts(j)' = Extracts(j) /\ Unchanged(j)' = Unchanged(j)
      /\ PlanCurrent(j)' = PlanCurrent(j) /\ Effective' = Effective /\ vectors' = vectors
      /\ (Tracked(job[j].doc))' = Tracked(job[j].doc)
      /\ (Done(History(job[j].stage), job[j].doc))' = Done(History(job[j].stage), job[j].doc)
  BY <1>5 DEF evidence, versions, Tracked, Exists, Extracts, Done, Latest, History, Unchanged,
              Fingerprint, PlanCurrent, Effective
<1>7. WritesCurrent'
  BY <1>4, <1>5, <1>6 DEF WritesCurrent
<1> QED
  BY <1>3, <1>7 DEF IInv

\* A step after which nobody writes.
LEMMA WriteStep ==
    ASSUME IInv, NEW j \in Jobs, NEW w, IsJob(w), Sets(j, w), w.pc # "write",
           job[j].pc = "write"
    PROVE  IInv'
<1>1. JobsTyped' /\ job'[j] = w /\ \A i \in Jobs \ {j} : job'[i] = job[i]
  BY Moves DEF IInv
<1>2. \A i \in Jobs : job[i].pc = "write" => i = j
  BY DEF IInv, WritesCurrent
<1>3. \A i \in Jobs : job'[i].pc # "write"
  BY <1>1, <1>2
<1> QED
  BY <1>1, <1>3 DEF IInv, WritesCurrent

\* Whoever takes the Candidate row meets no writer.
LEMMA OutsideStep ==
    ASSUME IInv, LockFree, job' = job
    PROVE  IInv'
BY NoWriters DEF IInv, JobsTyped, WritesCurrent

----------------------------------------------------------------------------
\* The records that the steps leave behind.

LEMMA NextDocIdle ==
    ASSUME NEW queue
    PROVE  IsJob(NextDoc(queue)) /\ NextDoc(queue).pc # "write"
<1> DEFINE w == [NoJob EXCEPT !.pc = "read", !.doc = Head(queue), !.queue = Tail(queue)]
<1>1. IsJob(NoJob) /\ NoJob.pc # "write"
  BY DEF IsJob, NoJob, Fields
<1>2. IsJob(w) /\ w.pc # "write"
  BY DEF IsJob, NoJob, Fields
<1> QED
  BY <1>1, <1>2 DEF NextDoc

LEMMA StageEndsQuiet ==
    ASSUME IInv, NEW r \in Jobs, NEW version, StageEnds(r, version)
    PROVE  \E w : IsJob(w) /\ w.pc # "write" /\ Sets(r, w)
<1> DEFINE u == [job[r] EXCEPT !.pc = "read", !.out = "none"]
           a == [u EXCEPT !.stage = "identity", !.plan = version]
           b == [u EXCEPT !.stage = "embedding"]
<1>1. IsJob(job[r])
  BY DEF IInv, JobsTyped
<1>2. IsJob(a) /\ a.pc # "write"
  BY <1>1 DEF IsJob, Fields
<1>3. IsJob(b) /\ b.pc # "write"
  BY <1>1 DEF IsJob, Fields
<1>4. Sets(r, a) \/ Sets(r, b) \/ DocEnds(r)
  BY DEF StageEnds
<1> HIDE DEF a, b
<1> QED
  BY <1>2, <1>3, <1>4, NextDocIdle DEF DocEnds

LEMMA NoJobQuiet == IsJob(NoJob) /\ NoJob.pc = "idle"
BY DEF IsJob, NoJob, Fields

LEMMA DirectEndsQuiet ==
    ASSUME NEW d
    PROVE  /\ IsJob([NoJob EXCEPT !.pc = "done"])
           /\ [NoJob EXCEPT !.pc = "done"].pc # "write"
BY DEF IsJob, NoJob, Fields

\* Every way a job goes on without writing, in one form.
Quiet(j) == \E w : IsJob(w) /\ w.pc # "write" /\ Sets(j, w)

LEMMA QuietKeeps ==
    ASSUME IInv, NEW j \in Jobs, Quiet(j), UNCHANGED <<evidence, versions, lock>>
    PROVE  IInv'
BY QuietStep DEF Quiet

LEMMA DocEndsQuiet ==
    ASSUME NEW r \in Jobs, DocEnds(r)
    PROVE  Quiet(r)
BY NextDocIdle DEF DocEnds, Quiet

\* Its place changes, or its place and one more field.
LEMMA PcQuiet ==
    ASSUME IInv, NEW j \in Jobs, NEW pc, pc # "write", NEW v,
           \/ Sets(j, [job[j] EXCEPT !.pc = pc])
           \/ Sets(j, [job[j] EXCEPT !.pc = pc, !.out = v])
           \/ Sets(j, [job[j] EXCEPT !.pc = pc, !.tries = v])
           \/ Sets(j, [job[j] EXCEPT !.base = v, !.pc = pc])
    PROVE  Quiet(j)
<1> DEFINE a == [job[j] EXCEPT !.pc = pc]
           b == [job[j] EXCEPT !.pc = pc, !.out = v]
           c == [job[j] EXCEPT !.pc = pc, !.tries = v]
           e == [job[j] EXCEPT !.base = v, !.pc = pc]
<1>1. IsJob(job[j])
  BY DEF IInv, JobsTyped
<1>2. /\ IsJob(a) /\ a.pc # "write" /\ IsJob(b) /\ b.pc # "write"
      /\ IsJob(c) /\ c.pc # "write" /\ IsJob(e) /\ e.pc # "write"
  BY <1>1 DEF IsJob, Fields
<1>3. Sets(j, a) \/ Sets(j, b) \/ Sets(j, c) \/ Sets(j, e)
  OBVIOUS
<1> HIDE DEF a, b, c, e
<1> QED
  BY <1>2, <1>3 DEF Quiet

----------------------------------------------------------------------------
LEMMA RunKeeps ==
    ASSUME IInv, NEW r \in Runs, StartRun(r) \/ RunStep(r)
    PROVE  IInv'
<1>0. r \in Jobs
  BY DEF Jobs
<1>1. CASE StartRun(r)
  <2>1. Quiet(r)
    BY <1>1, NextDocIdle DEF StartRun, Quiet
  <2> QED
    BY <1>0, <1>1, <2>1, QuietKeeps DEF StartRun
<1>2. CASE ReadSuperseded(r) \/ ReadReused(r) \/ InferRaises(r) \/ RecheckSuperseded(r)
             \/ RecheckNoEmbedding(r)
  <2>1. DocEnds(r) /\ UNCHANGED <<evidence, versions, lock>>
    BY <1>2 DEF ReadSuperseded, ReadReused, InferRaises, RecheckSuperseded,
                RecheckNoEmbedding
  <2> QED
    BY <1>0, <2>1, DocEndsQuiet, QuietKeeps
<1>3. CASE ReadDone(r) \/ ReadUnreadable(r) \/ RecheckDone(r)
  <2>1. PICK version : StageEnds(r, version) /\ UNCHANGED <<evidence, versions, lock>>
    BY <1>3 DEF ReadDone, ReadUnreadable, RecheckDone
  <2> QED
    BY <1>0, <2>1, StageEndsQuiet, QuietKeeps DEF Quiet
<1>4. CASE ReadView(r)
  <2>1. Sets(r, [job[r] EXCEPT !.pc = "infer"]) /\ UNCHANGED <<evidence, versions, lock>>
    BY <1>4 DEF ReadView
  <2>2. Quiet(r)
    BY <1>0, <2>1, PcQuiet
  <2> QED
    BY <1>0, <2>1, <2>2, QuietKeeps
<1>5. CASE Infer(r)
  <2>1. PICK o : Sets(r, [job[r] EXCEPT !.pc = "recheck", !.out = o])
    BY <1>5 DEF Infer
  <2>2. Quiet(r)
    BY <1>0, <2>1, PcQuiet
  <2> QED
    BY <1>0, <1>5, <2>2, QuietKeeps DEF Infer
<1>6. CASE RecheckBusy(r)
  <2>1. Quiet(r)
    BY <1>6, NoJobQuiet DEF RecheckBusy, RunStops, Quiet
  <2> QED
    BY <1>0, <1>6, <2>1, QuietKeeps DEF RecheckBusy
<1>7. CASE RecheckPasses(r)
  BY <1>0, <1>7, PassStep DEF RecheckPasses, Rechecks
<1>8. CASE Write(r)
  <2>1. Quiet(r)
    BY <1>0, <1>8, StageEndsQuiet, DocEndsQuiet DEF Write, Quiet
  <2> QED
    BY <1>0, <1>8, <2>1, WriteStep DEF Write, Inserts, Quiet
<1> QED
  BY <1>1, <1>2, <1>3, <1>4, <1>5, <1>6, <1>7, <1>8 DEF RunStep

LEMMA DirectKeeps ==
    ASSUME IInv, NEW d \in Directs, StartExtract(d) \/ StartEmbed(d) \/ DirectStep(d)
    PROVE  IInv'
<1>0. d \in Jobs /\ d \notin Runs
  BY AnalysisAssumption DEF Jobs
<1>1. ASSUME DirectEnds(d) PROVE Quiet(d)
  BY <1>1, DirectEndsQuiet DEF DirectEnds, Quiet
<1>2. CASE StartExtract(d) \/ StartEmbed(d)
  <2>1. PICK stage, n : Starts(d, stage, n)
    BY <1>2 DEF StartExtract, StartEmbed
  <2>2. PICK plan : Sets(d, [NoJob EXCEPT !.pc = "bind", !.stage = stage, !.doc = n,
                                          !.plan = plan])
    BY <2>1 DEF Starts
  <2> DEFINE w == [NoJob EXCEPT !.pc = "bind", !.stage = stage, !.doc = n, !.plan = plan]
  <2>3. IsJob(w) /\ w.pc # "write"
    BY DEF IsJob, NoJob, Fields
  <2>4. Quiet(d)
    BY <2>2, <2>3 DEF Quiet
  <2> QED
    BY <1>0, <2>1, <2>4, QuietKeeps DEF Starts
<1>3. CASE Bind(d)
  <2>1. Quiet(d)
    <3>1. CASE ~Exists(job[d].doc)
      BY <1>1, <1>3, <3>1 DEF Bind
    <3>2. CASE Exists(job[d].doc)
      <4>1. PICK pc \in {"attempt", "infer"} :
                Sets(d, [job[d] EXCEPT !.base = Fingerprint(d), !.pc = pc])
        BY <1>3, <3>2 DEF Bind
      <4> QED
        BY <1>0, <4>1, PcQuiet
    <3> QED
      BY <3>1, <3>2
  <2> QED
    BY <1>0, <1>3, <2>1, QuietKeeps DEF Bind
<1>4. CASE Attempt(d)
  <2>1. Quiet(d)
    <3>1. Sets(d, [job[d] EXCEPT !.pc = "infer"]) \/ DirectEnds(d)
      BY <1>4 DEF Attempt
    <3> QED
      BY <1>0, <1>1, <3>1, PcQuiet
  <2> QED
    BY <1>0, <1>4, <2>1, QuietKeeps DEF Attempt
<1>5. CASE Infer(d)
  <2>1. PICK o : Sets(d, [job[d] EXCEPT !.pc = "recheck", !.out = o])
    BY <1>5 DEF Infer
  <2>2. Quiet(d)
    BY <1>0, <2>1, PcQuiet
  <2> QED
    BY <1>0, <1>5, <2>2, QuietKeeps DEF Infer
<1>6. CASE InferAgain(d)
  <2>1. Quiet(d)
    <3>1. Sets(d, [job[d] EXCEPT !.pc = "attempt", !.tries = 1])
      BY <1>6 DEF InferAgain
    <3> QED
      BY <1>0, <3>1, PcQuiet
  <2> QED
    BY <1>0, <1>6, <2>1, QuietKeeps DEF InferAgain
<1>7. CASE DirectRaises(d)
  BY <1>0, <1>1, <1>7, QuietKeeps DEF DirectRaises
<1>8. CASE DirectRefused(d)
  BY <1>0, <1>1, <1>8, QuietKeeps DEF DirectRefused
<1>9. CASE DirectPasses(d)
  BY <1>0, <1>9, PassStep DEF DirectPasses, DirectNoVersion, Rechecks
<1>10. CASE DirectWrite(d)
  BY <1>0, <1>1, <1>10, WriteStep DEF DirectWrite, Inserts, Quiet
<1> QED
  BY <1>2, <1>3, <1>4, <1>5, <1>6, <1>7, <1>8, <1>9, <1>10 DEF DirectStep

LEMMA NextKeeps == IInv /\ [Next]_vars => IInv'
<1> SUFFICES ASSUME IInv, [Next]_vars PROVE IInv'
  OBVIOUS
<1>1. ASSUME NEW r \in Runs, StartRun(r) \/ RunStep(r) PROVE IInv'
  BY <1>1, RunKeeps
<1>2. ASSUME NEW d \in Directs, StartExtract(d) \/ StartEmbed(d) \/ DirectStep(d) PROVE IInv'
  BY <1>2, DirectKeeps
<1>3. CASE Delete \/ Upload \/ \E p \in 1..NPaths : Repoint(p)
  BY <1>3, OutsideStep DEF Delete, Upload, Repoint
<1>4. CASE UNCHANGED vars
  <2>1. job' = job /\ lock' = lock /\ UNCHANGED <<evidence, versions>>
    BY <1>4 DEF vars, evidence, versions
  <2>2. JobsTyped'
    BY <2>1 DEF IInv, JobsTyped
  <2>3. WritesCurrent'
    <3> SUFFICES ASSUME NEW i \in Jobs, job'[i].pc = "write"
                 PROVE  /\ lock' = i
                        /\ IF i \in Runs
                             THEN /\ Tracked(job[i].doc)'
                                  /\ Extracts(i)' =>
                                       ~Done(History(job[i].stage), job[i].doc)'
                             ELSE Unchanged(i)'
                        /\ ~Extracts(i)' =>
                             /\ (job[i].plan \notin vectors)'
                             /\ IF i \in Runs THEN PlanCurrent(i)'
                                              ELSE (Effective = job[i].plan)'
      BY DEF WritesCurrent
    <3>1. job'[i] = job[i]
      BY <2>1
    <3> QED
      BY <2>1, <3>1, SameRows DEF IInv, WritesCurrent
  <2> QED
    BY <2>2, <2>3 DEF IInv
<1> QED
  BY <1>1, <1>2, <1>3, <1>4 DEF Next

\* Whatever a folder run or a direct request commits is still wanted at the
\* moment of the commit: the document is tracked and the stage open, or nothing
\* of the request's snapshot has changed; and no two of them commit at once.
THEOREM AnalysisWrites == Spec => []WritesCurrent
<1>1. IInv => WritesCurrent
  BY DEF IInv
<1> QED
  BY <1>1, InitIInv, NextKeeps, PTL DEF Spec

----------------------------------------------------------------------------
\* A READY document stays READY through the steps of the folder runs.

\* Attempts of every kind, numbered from 1 without a gap.
IsHistory(h) == h \in Seq({h[n] : n \in DOMAIN h})

Histories == IsHistory(profiles) /\ IsHistory(identities)

LEMMA NewestIsIn ==
    ASSUME NEW n \in Nat, NEW S \in SUBSET (1..n), S # {}
    PROVE  Newest(S) \in S
<1> DEFINE After(k) == {m \in S : k < m}
           T == {After(k) : k \in S}
<1>1. T # {} /\ T \subseteq SUBSET S
  OBVIOUS
<1>2. IsFiniteSet(S) /\ S \subseteq Int
  <2>1. 1 \in Int /\ n \in Int /\ S \subseteq 1..n
    OBVIOUS
  <2>2. IsFiniteSet(1..n)
    BY <2>1, FS_Interval
  <2>3. IsFiniteSet(S)
    BY <2>1, <2>2, FS_Subset
  <2> QED BY <2>1, <2>3
<1>3. IsWellFoundedOn(StrictSubsetOrdering(S), SUBSET S)
  BY <1>2, FS_FiniteSubsetsOfFinite, FS_StrictSubsetOrderingWellFounded
<1>4. PICK U \in T : \A V \in T : <<V, U>> \notin StrictSubsetOrdering(S)
  <2> HIDE DEF T
  <2> QED BY <1>1, <1>3, WFMin
<1>5. PICK k \in S : U = After(k)
  OBVIOUS
<1>6. \A m \in S : m <= k
  <2> SUFFICES ASSUME NEW m \in S, k < m PROVE FALSE
    OBVIOUS
  <2>1. After(m) \subseteq After(k) /\ m \in After(k) /\ m \notin After(m)
    <3>1. \A x \in S : m < x => k < x
      BY <1>2
    <3>2. ~(m < m)
      BY <1>2
    <3> QED BY <3>1, <3>2
  <2>2. <<After(m), U>> \in StrictSubsetOrdering(S)
    BY <2>1, <1>5 DEF StrictSubsetOrdering
  <2> QED BY <2>2, <1>4
<1> QED BY <1>6 DEF Newest

LEMMA HistoryIs ==
    ASSUME NEW h, IsHistory(h)
    PROVE  Len(h) \in Nat /\ DOMAIN h = 1..Len(h)
BY DEF IsHistory

LEMMA LatestIsIn ==
    ASSUME NEW h, IsHistory(h), NEW d, Latest(h, d) # 0
    PROVE  Latest(h, d) \in DOMAIN h /\ h[Latest(h, d)].doc = d
<1> DEFINE S == {n \in DOMAIN h : h[n].doc = d}
<1>1. Len(h) \in Nat /\ S \in SUBSET (1..Len(h))
  BY HistoryIs
<1>2. S # {} /\ Latest(h, d) = Newest(S)
  BY DEF Latest, Newest
<1>3. Newest(S) \in S
  <2> HIDE DEF S
  <2> QED BY <1>1, <1>2, NewestIsIn
<1> QED BY <1>2, <1>3

LEMMA AppendedIs ==
    ASSUME NEW h, IsHistory(h), NEW e, NEW g, g = Append(h, e)
    PROVE  /\ IsHistory(g) /\ DOMAIN g = 1..(Len(h) + 1)
           /\ \A n \in DOMAIN h : n \in DOMAIN g /\ n # Len(h) + 1 /\ g[n] = h[n]
           /\ g[Len(h) + 1] = e
<1> DEFINE S == {h[n] : n \in DOMAIN h} \cup {e}
<1>1. h \in Seq(S) /\ Len(h) \in Nat /\ DOMAIN h = 1..Len(h)
  BY HistoryIs DEF IsHistory
<1>2. /\ g \in Seq(S) /\ Len(g) = Len(h) + 1
      /\ \A n \in 1..Len(h) : g[n] = h[n]
      /\ g[Len(h) + 1] = e
  <2> HIDE DEF S
  <2>1. e \in S
    BY DEF S
  <2> QED BY <1>1, <2>1, AppendProperties
<1>3. DOMAIN g = 1..(Len(h) + 1) /\ Len(g) \in Nat
  BY <1>1, <1>2
<1>4. g \in Seq({g[n] : n \in DOMAIN g})
  <2>1. PICK k \in Nat : g \in [1..k -> S]
    <3>1. g \in UNION {[1..k -> S] : k \in Nat}
      BY <1>2, SeqDef
    <3> QED BY <3>1
  <2>2. g \in [1..k -> {g[n] : n \in DOMAIN g}]
    BY <2>1
  <2> QED BY <2>2, SeqDef
<1> QED BY <1>1, <1>2, <1>3, <1>4 DEF IsHistory

\* An attempt for one document leaves what is newest of another.
LEMMA OthersKeep ==
    ASSUME NEW h, IsHistory(h), NEW e, NEW d, e.doc # d, NEW g, g = Append(h, e)
    PROVE  Latest(g, d) = Latest(h, d) /\ (Done(h, d) => Done(g, d))
<1>1. /\ DOMAIN g = 1..(Len(h) + 1) /\ DOMAIN h = 1..Len(h) /\ Len(h) \in Nat
      /\ \A n \in DOMAIN h : n \in DOMAIN g /\ n # Len(h) + 1 /\ g[n] = h[n]
      /\ g[Len(h) + 1] = e
  BY AppendedIs, HistoryIs
<1>2. {n \in DOMAIN g : g[n].doc = d} = {n \in DOMAIN h : h[n].doc = d}
  BY <1>1
<1>3. Latest(g, d) = Latest(h, d)
  BY <1>2 DEF Latest
<1>4. Done(h, d) => Latest(h, d) \in DOMAIN h
  BY LatestIsIn DEF Done
<1> QED BY <1>1, <1>3, <1>4 DEF Done

LEMMA HistoriesKept == ASSUME Histories, [Next]_vars PROVE Histories'
<1>1. CASE UNCHANGED <<profiles, identities>>
  BY <1>1 DEF Histories
<1>2. CASE Delete
  <2>1. IsHistory(<<>>)
    BY DEF IsHistory
  <2> QED BY <1>2, <2>1 DEF Delete, Histories
<1>3. ASSUME NEW j, Inserts(j) PROVE Histories'
  <2>1. profiles' = profiles \/ profiles' = Append(profiles, [doc |-> job[j].doc, st |-> job[j].out])
    BY <1>3 DEF Inserts, Appended
  <2>2. identities' = identities
        \/ identities' = Append(identities, [doc |-> job[j].doc, st |-> job[j].out])
    BY <1>3 DEF Inserts, Appended
  <2> QED BY <2>1, <2>2, AppendedIs DEF Histories
<1>4. CASE \E r \in Runs : StartRun(r) \/ RunStep(r)
  BY <1>1, <1>3, <1>4 DEF RunStep, StartRun, ReadSuperseded, ReadDone, ReadUnreadable, ReadReused,
     ReadView, Infer, InferRaises, RecheckSuperseded, RecheckDone, RecheckBusy,
     RecheckNoEmbedding, RecheckPasses, Write, versions
<1>5. CASE \E d \in Directs : StartExtract(d) \/ StartEmbed(d) \/ DirectStep(d)
  BY <1>1, <1>3, <1>5 DEF DirectStep, StartExtract, StartEmbed, Starts, Bind, Attempt, Infer,
     InferAgain, DirectRaises, DirectRefused, DirectPasses, DirectWrite, versions
<1>6. CASE Upload \/ \E p \in 1..NPaths : Repoint(p)
  BY <1>1, <1>6 DEF Upload, Repoint, versions
<1>7. CASE UNCHANGED vars
  BY <1>1, <1>7 DEF vars
<1> QED BY <1>2, <1>4, <1>5, <1>6, <1>7 DEF Next

\* A run writes for a document whose stage is open, so for one that is not READY.
LEMMA WriteKeepsReady ==
    ASSUME IInv, Histories, NEW r \in Runs, Write(r), NEW d, Ready(d)
    PROVE  Ready(d)'
<1> DEFINE w == job[r]
           e == [doc |-> w.doc, st |-> w.out]
<1>1. /\ w.pc = "write"
      /\ profiles' = IF w.stage = "profile" THEN Append(profiles, e) ELSE profiles
      /\ identities' = IF w.stage = "identity" THEN Append(identities, e) ELSE identities
      /\ vectors \subseteq vectors'
  BY DEF Write, Inserts, Appended
<1>2. Done(profiles, d) /\ Done(identities, d) /\ Latest(profiles, d) \in vectors
  BY DEF Ready
<1>3. w.stage # "embedding" => ~Done(History(w.stage), w.doc)
  BY <1>1 DEF IInv, WritesCurrent, Extracts, Jobs
<1>4. w.stage \in {"profile", "identity"} => e.doc # d
  BY <1>2, <1>3 DEF History
<1>5. IsHistory(profiles) /\ IsHistory(identities)
  BY DEF Histories
<1> HIDE DEF e, w
<1>6. Done(profiles', d) /\ Latest(profiles', d) = Latest(profiles, d)
  BY <1>1, <1>2, <1>4, <1>5, OthersKeep
<1>7. Done(identities', d)
  BY <1>1, <1>2, <1>4, <1>5, OthersKeep
<1> QED BY <1>1, <1>2, <1>6, <1>7 DEF Ready, Done, Latest

\* Two folder runs at once, or one repeated, never make a READY document
\* not READY: the second look under the Candidate's lock finds the stage done and
\* discards the slower result (_persist_stage's recheck of the authority).
THEOREM AnalysisKeepsReady == Spec => RunsKeepReady
<1>1. Init => Histories
  BY DEF Init, Histories, IsHistory
<1>2. ASSUME IInv, Histories, [Next]_vars, NEW r \in Runs, job'[r] # job[r],
             NEW d \in 1..docs, Ready(d)
      PROVE  Ready(d)'
  <2>1. CASE UNCHANGED versions
    BY <1>2, <2>1 DEF Ready, Done, Latest, versions
  <2>2. ASSUME NEW q \in Runs, Write(q) PROVE Ready(d)'
    BY <1>2, <2>2, WriteKeepsReady
  <2>3. ASSUME NEW q \in Directs, DirectWrite(q) PROVE FALSE
    <3>1. job' = [job EXCEPT ![q] = [NoJob EXCEPT !.pc = "done"]]
      BY <2>3 DEF DirectWrite, DirectEnds, Sets
    <3>2. r # q /\ r \in Jobs
      BY <2>3, AnalysisAssumption DEF Jobs
    <3> QED BY <1>2, <3>1, <3>2 DEF IInv, JobsTyped
  <2>4. CASE Delete \/ UNCHANGED vars
    BY <1>2, <2>4 DEF Delete, vars
  <2>5. CASE \E q \in Runs : StartRun(q) \/ RunStep(q)
    BY <2>1, <2>2, <2>5 DEF RunStep, StartRun, ReadSuperseded, ReadDone, ReadUnreadable,
       ReadReused, ReadView, Infer, InferRaises, RecheckSuperseded, RecheckDone, RecheckBusy,
       RecheckNoEmbedding, RecheckPasses
  <2>6. CASE \E q \in Directs : StartExtract(q) \/ StartEmbed(q) \/ DirectStep(q)
    BY <2>1, <2>3, <2>6 DEF DirectStep, StartExtract, StartEmbed, Starts, Bind, Attempt, Infer,
       InferAgain, DirectRaises, DirectRefused, DirectPasses
  <2>7. CASE Upload \/ \E p \in 1..NPaths : Repoint(p)
    BY <2>1, <2>7 DEF Upload, Repoint
  <2> QED BY <1>2, <2>4, <2>5, <2>6, <2>7 DEF Next
<1>3. IInv /\ Histories /\ [Next]_vars =>
        [(\E r \in Runs : job'[r] # job[r]) => \A d \in 1..docs : Ready(d) => Ready(d)']_vars
  BY <1>2
<1>4. IInv /\ Histories /\ [Next]_vars => (IInv /\ Histories)'
  BY NextKeeps, HistoriesKept
<1> QED BY <1>1, <1>3, <1>4, InitIInv, PTL DEF Spec, RunsKeepReady

-----------------------------------------------------------------------------
(* Result sets.                                                            *)

\* The table is a sequence of rows, and the plan in flight a record.
SetsTyped ==
    /\ \E S : sets \in Seq(S)
    /\ turn = [f \in {"pc", "plan", "step", "base", "work", "made"} |-> turn[f]]

\* The pointer names a row; a sweep only has rows that were there when it
\* selected them.
PointerHeld ==
    /\ active # NoSet => InTable(active)
    /\ sweep \subseteq 1..Len(sets)

\* The plan in flight reads the set its context points at, or the one it made
\* last, which is the newest of all: too new for a sweep to have selected it.
\* It comes to its commit with a set of its own only past its last step.
WorkHeld ==
    turn.pc # "idle" =>
        /\ turn.base = active
        /\ turn.made = NoSet => turn.work = active
        /\ turn.made # NoSet =>
              turn.work = turn.made /\ turn.made = Len(sets) /\ active < turn.made
        /\ ~ended /\ turn.work # NoSet => InTable(turn.work)
        /\ ~ended /\ turn.work # active => turn.work \notin sweep
        /\ turn.pc = "commit" => turn.work = active \/ turn.step > Len(turn.plan)

SetsInv == SetsTyped /\ PointerHeld /\ WorkHeld

LEMMA SetsInitInv == SetsInit => SetsInv
<1> SUFFICES ASSUME SetsInit PROVE SetsInv
  OBVIOUS
<1>1. sets \in Seq({})
  BY DEF SetsInit
<1>2. turn = [f \in {"pc", "plan", "step", "base", "work", "made"} |-> turn[f]] /\ turn.pc = "idle"
  BY DEF SetsInit, Idle
<1> QED
  BY <1>1, <1>2 DEF SetsInit, SetsInv, SetsTyped, PointerHeld, WorkHeld

LEMMA IdleTyped ==
    /\ Idle = [f \in {"pc", "plan", "step", "base", "work", "made"} |-> Idle[f]]
    /\ Idle.pc = "idle"
BY DEF Idle

LEMMA RowsNumbered ==
    ASSUME SetsInv
    PROVE  Len(sets) \in Nat /\ DOMAIN sets = 1..Len(sets) /\ Ids = 1..Len(sets)
BY DEF SetsInv, SetsTyped, Ids

\* What a pass of the retention takes is in the table, is not what a session
\* points at and is not what its caller keeps.
LEMMA BatchesSpare ==
    ASSUME NEW keep, NEW slots, NEW B \in Batches(keep, slots)
    PROVE  /\ B \subseteq Unprotected(keep)
           /\ active \notin B
           /\ B \cap keep = {}
           /\ AfterDelete(active, B) = active
BY DEF Batches, Excess, Unprotected, AfterDelete

\* While the sets are unexpired the newest row is never in excess.
LEMMA NewestSpared ==
    ASSUME SetsInv, NEW keep, NEW slots \in Nat \ {0}, NEW B \in Batches(keep, slots), ~ended
    PROVE  Len(sets) \notin B
<1> SUFFICES ASSUME Len(sets) \in B PROVE FALSE
  OBVIOUS
<1>1. Len(sets) \in Excess(Unprotected(keep), slots)
  BY DEF Batches
<1>2. Cardinality({j \in Unprotected(keep) : j > Len(sets)}) >= slots
  BY <1>1 DEF Excess
<1>3. {j \in Unprotected(keep) : j > Len(sets)} = {}
  BY RowsNumbered DEF Unprotected
<1>4. Cardinality({j \in Unprotected(keep) : j > Len(sets)}) = 0
  BY <1>3, FS_EmptySet
<1> QED
  BY <1>2, <1>4

\* Retirement empties rows and moves none.
LEMMA RetiredRows ==
    ASSUME SetsInv, NEW B
    PROVE  /\ \E S : Retired(sets, B) \in Seq(S)
           /\ Len(Retired(sets, B)) = Len(sets)
           /\ \A i \in Ids : i \notin B => Retired(sets, B)[i] = sets[i]
<1>1. PICK S : sets \in Seq(S)
  BY DEF SetsInv, SetsTyped
<1>2. Retired(sets, B) \in Seq(S \cup {Gone})
  BY <1>1 DEF Retired
<1>3. Len(Retired(sets, B)) = Len(sets)
  BY <1>1 DEF Retired
<1> QED
  BY <1>2, <1>3 DEF Retired, Ids
LEMMA CreatedRows ==
    ASSUME SetsInv, NEW B, NEW row, sets' = Append(Retired(sets, B), row)
    PROVE  /\ \E S : sets' \in Seq(S)
           /\ Len(sets') = Len(sets) + 1
           /\ Ids' = 1..(Len(sets) + 1)
           /\ sets'[Len(sets) + 1] = row
           /\ \A i \in Ids : i \notin B => sets'[i] = sets[i]
<1>1. PICK S : Retired(sets, B) \in Seq(S)
  BY RetiredRows
<1>2. Retired(sets, B) \in Seq(S \cup {row})
  BY <1>1
<1>3. Len(Retired(sets, B)) = Len(sets) /\ \A i \in Ids : i \notin B => Retired(sets, B)[i] = sets[i]
  BY RetiredRows
<1>4. /\ sets' \in Seq(S \cup {row}) /\ Len(sets') = Len(sets) + 1
      /\ sets'[Len(sets) + 1] = row
      /\ \A i \in Ids : i \notin B => sets'[i] = sets[i]
  BY <1>2, <1>3, RowsNumbered
<1> QED
  BY <1>4 DEF Ids

\* A step that leaves the rows and the sweep alone and either ends the turn,
\* moves its control on, or restores the pointer it began with.
LEMMA ControlStep ==
    ASSUME SetsInv, NEW pc, NEW step, NEW plan,
           turn' = [turn EXCEPT !.pc = pc, !.step = step],
           turn.pc # "idle", pc = "commit" => step > Len(turn.plan),
           UNCHANGED <<sets, active, sweep, ended>>
    PROVE  SetsInv'
<1>1. /\ turn'.base = turn.base /\ turn'.work = turn.work /\ turn'.made = turn.made
      /\ turn'.plan = turn.plan /\ turn'.step = step /\ turn'.pc = pc
      /\ turn' = [f \in {"pc", "plan", "step", "base", "work", "made"} |-> turn'[f]]
  BY DEF SetsInv, SetsTyped
<1> QED
  BY <1>1 DEF SetsInv, SetsTyped, PointerHeld, WorkHeld, InTable, Ids

\* stop() goes back to the set the plan began with.
LEMMA StopStep ==
    ASSUME SetsInv, Stop, turn.pc # "idle", UNCHANGED <<sets, active, sweep, ended>>
    PROVE  SetsInv'
<1>1. /\ turn'.base = turn.base /\ turn'.work = turn.base /\ turn'.made = NoSet
      /\ turn' = [f \in {"pc", "plan", "step", "base", "work", "made"} |-> turn'[f]]
  BY DEF SetsInv, SetsTyped, Stop
<1> QED
  BY <1>1 DEF SetsInv, SetsTyped, PointerHeld, WorkHeld, InTable, Ids

LEMMA EndStep ==
    ASSUME SetsInv, turn' = Idle,
           active' # active => active' = turn.work /\ (turn.work # NoSet => InTable(turn.work)),
           UNCHANGED <<sets, sweep, ended>>
    PROVE  SetsInv'
BY IdleTyped DEF SetsInv, SetsTyped, PointerHeld, WorkHeld, InTable, Ids

\* Creating a set takes rows nobody is using and puts the new one last.
LEMMA CreateStep ==
    ASSUME SetsInv, turn.pc # "idle", ReservedPointer, NEW members, Create(members, turn.work),
           UNCHANGED <<sweep, ended>>
    PROVE  SetsInv' /\ active' = active
<1> DEFINE new == Len(sets) + 1
           row == [row |-> "present", members |-> members]
<1>1. PICK B \in Batches({turn.work}, MaxInactive - 1) :
         /\ sets' = Append(Retired(sets, B), row)
         /\ active' = AfterDelete(active, B)
  BY DEF Create
<1>2. turn' = [turn EXCEPT !.pc = "step", !.step = @ + 1, !.work = new, !.made = new]
  BY DEF Create
<1>3. active' = active /\ active \notin B
  BY <1>1, BatchesSpare
<1>7. /\ \E S : sets' \in Seq(S)
      /\ Len(sets') = new /\ sets'[new] = row
      /\ \A i \in Ids : i \notin B => sets'[i] = sets[i]
  BY <1>1, CreatedRows
<1>8. /\ turn'.base = turn.base /\ turn'.work = new /\ turn'.made = new /\ turn'.pc = "step"
      /\ turn' = [f \in {"pc", "plan", "step", "base", "work", "made"} |-> turn'[f]]
  BY <1>2 DEF SetsInv, SetsTyped
<1>9. Ids' = 1..new /\ Ids = 1..Len(sets) /\ Len(sets) \in Nat
  BY <1>7, RowsNumbered DEF Ids
<1>10. PointerHeld'
  BY <1>3, <1>7, <1>9 DEF SetsInv, PointerHeld, InTable
<1>11. WorkHeld'
  <2>1. new \in Ids' /\ sets'[new].row = "present"
    BY <1>7, <1>9
  <2>2. active < new
    BY <1>9 DEF SetsInv, PointerHeld, InTable, NoSet
  <2>3. new \notin sweep
    BY <1>9 DEF SetsInv, PointerHeld
  <2> QED
    BY <1>3, <1>7, <1>8, <1>9, <2>1, <2>2, <2>3 DEF SetsInv, WorkHeld, NoSet, InTable
<1> QED
  BY <1>3, <1>7, <1>8, <1>10, <1>11 DEF SetsInv, SetsTyped

LEMMA SweepSelectStep ==
    ASSUME SetsInv, SweepSelect
    PROVE  SetsInv'
<1>1. sweep' \in Batches({}, MaxInactive)
  BY DEF SweepSelect
<1>2. sweep' \subseteq Unprotected({}) /\ active \notin sweep'
  BY <1>1 DEF Batches, Excess, Unprotected
<1>3. ~ended => Len(sets) \notin sweep'
  BY <1>1, NewestSpared, ResultSetAssumption
<1>4. sweep' \subseteq 1..Len(sets)
  BY <1>2, RowsNumbered DEF Unprotected
<1> QED
  BY <1>3, <1>4 DEF SweepSelect, SetsInv, SetsTyped, PointerHeld, WorkHeld, InTable, Ids

LEMMA SweepDeleteStep ==
    ASSUME SetsInv, SweepDelete
    PROVE  SetsInv' /\ active' = active
<1> DEFINE B == sweep \cap Unprotected({})
<1>1. sets' = Retired(sets, B) /\ active' = AfterDelete(active, B) /\ sweep' = {}
      /\ UNCHANGED <<turn, ended>>
  BY DEF SweepDelete
<1>2. active \notin B
  BY DEF Unprotected
<1>3. active' = active
  BY <1>1, <1>2 DEF AfterDelete
<1>4. /\ \E S : sets' \in Seq(S)
      /\ Len(sets') = Len(sets)
      /\ \A i \in Ids : i \notin B => sets'[i] = sets[i]
  BY <1>1, RetiredRows
<1>5. Ids' = Ids
  BY <1>4, RowsNumbered DEF Ids
<1>6. turn.pc # "idle" /\ ~ended /\ turn.work # active => turn.work \notin B
  BY DEF SetsInv, WorkHeld
<1> HIDE DEF B
<1> QED
  BY <1>1, <1>2, <1>3, <1>4, <1>5, <1>6 DEF SetsInv, SetsTyped, PointerHeld, WorkHeld, InTable

LEMMA SetsStep ==
    ASSUME SetsInv, [SetsNext]_setVars
    PROVE  /\ SetsInv'
           /\ active' # active => turn.step > Len(turn.plan) /\ active' = turn.made /\ active' > active
<1> USE DEF SetsNext, setVars
<1>1. CASE Propose
  BY <1>1 DEF Propose, SetsInv, SetsTyped, PointerHeld, WorkHeld, InTable, Ids
<1>2. CASE StartStep
  <2>1. turn.pc = "step" /\ UNCHANGED <<sets, active, sweep, ended>>
    BY <1>2 DEF StartStep, Running
  <2>2. CASE turn' = [turn EXCEPT !.pc = "planner"]
    <3>1. turn' = [turn EXCEPT !.pc = "planner", !.step = turn.step]
      BY <2>2 DEF SetsInv, SetsTyped
    <3> QED
      BY <2>1, <3>1, ControlStep
  <2>3. CASE Stop
    BY <2>1, <2>3, StopStep
  <2> QED
    BY <1>2, <2>1, <2>2, <2>3 DEF StartStep
<1>3. CASE PlannerDeclines
  BY <1>3, StopStep DEF PlannerDeclines
<1>4. CASE SearchStep
  BY <1>4, CreateStep DEF SearchStep
<1>5. CASE RefineStep
  BY <1>5, CreateStep, StopStep DEF RefineStep
<1>6. CASE ProfileStep
  <2>1. turn.pc = "step" /\ UNCHANGED <<sets, active, sweep, ended>>
    BY <1>6 DEF ProfileStep, Running
  <2>2. CASE turn' = [turn EXCEPT !.step = @ + 1]
    <3>1. turn' = [turn EXCEPT !.pc = "step", !.step = turn.step + 1]
      BY <2>1, <2>2 DEF SetsInv, SetsTyped
    <3> QED
      BY <2>1, <3>1, ControlStep
  <2>3. CASE Stop
    BY <2>1, <2>3, StopStep
  <2> QED
    BY <1>6, <2>1, <2>2, <2>3 DEF ProfileStep
<1>7. CASE AllDone
  <2>1. turn' = [turn EXCEPT !.pc = "commit", !.step = turn.step]
    BY <1>7 DEF AllDone, SetsInv, SetsTyped
  <2> QED
    BY <1>7, <2>1, ControlStep DEF AllDone
<1>8. CASE CommitTurn
  <2>1. (turn.work # NoSet => InTable(turn.work)) /\ active' = turn.work
    BY <1>8 DEF CommitTurn, Principal, SetsInv, WorkHeld
  <2>2. active' # active => turn.step > Len(turn.plan) /\ active' = turn.made /\ active' > active
    BY <1>8, <2>1 DEF CommitTurn, SetsInv, WorkHeld
  <2> QED
    BY <1>8, <2>1, <2>2, EndStep DEF CommitTurn
<1>9. CASE Abandon
  BY <1>9, EndStep DEF Abandon
<1>10. CASE SweepSelect
  BY <1>10, SweepSelectStep DEF SweepSelect
<1>11. CASE SweepDelete
  BY <1>11, SweepDeleteStep
<1>12. CASE \E c \in Cands : ProfileMoves(c)
  BY <1>12 DEF ProfileMoves, SetsInv, SetsTyped, PointerHeld, WorkHeld, InTable, Ids
<1>13. CASE SessionEnds
  BY <1>13 DEF SessionEnds, SetsInv, SetsTyped, PointerHeld, WorkHeld, InTable, Ids
<1>14. CASE UNCHANGED setVars
  BY <1>14 DEF SetsInv, SetsTyped, PointerHeld, WorkHeld, InTable, Ids
<1> QED
  BY <1>1, <1>2, <1>3, <1>4, <1>5, <1>6, <1>7, <1>8, <1>9, <1>10, <1>11, <1>12, <1>13, <1>14

LEMMA InactiveFinite ==
    ASSUME SetsInv
    PROVE  IsFiniteSet(Inactive) /\ Cardinality(Inactive) \in Nat
<1>1. Len(sets) \in Nat /\ Inactive \subseteq 1..Len(sets)
  BY RowsNumbered DEF Inactive, InTable
<1>2. IsFiniteSet(1..Len(sets))
  BY <1>1, FS_Interval
<1> QED
  BY <1>1, <1>2, FS_Subset, FS_CardinalityType

LEMMA LeastNatural ==
    ASSUME NEW S \in SUBSET Nat, S # {}
    PROVE  \E i \in S : \A j \in S : i <= j
<1>1. PICK i \in S : \A j \in S : ~(<<j, i>> \in OpToRel(<, Nat))
  BY WFMin, NatLessThanWellFounded
<1>2. \A j \in S : ~(j < i)
  BY <1>1 DEF OpToRel
<1> QED
  BY <1>2

LEMMA NumbersFinite ==
    ASSUME NEW n \in Nat, NEW U \in SUBSET (1..n)
    PROVE  IsFiniteSet(U) /\ Cardinality(U) \in Nat
<1>1. 1 \in Int /\ n \in Int
  OBVIOUS
<1>2. IsFiniteSet(1..n)
  BY <1>1, FS_Interval
<1>3. IsFiniteSet(U)
  BY <1>2, FS_Subset
<1> QED
  BY <1>3, FS_CardinalityType

LEMMA OneMore ==
    ASSUME NEW S, NEW x, IsFiniteSet(S)
    PROVE  /\ IsFiniteSet(S \cup {x})
           /\ Cardinality(S \cup {x}) \in Nat
           /\ Cardinality(S \cup {x}) <= Cardinality(S) + 1
<1>1. IsFiniteSet(S \cup {x}) /\ Cardinality(S) \in Nat
  BY FS_AddElement, FS_CardinalityType
<1>2. Cardinality(S \cup {x}) \in Nat
  BY <1>1, FS_CardinalityType
<1>3. CASE x \in S
  <2>1. S \cup {x} = S
    BY <1>3
  <2> QED
    BY <1>1, <2>1
<1>4. CASE x \notin S
  <2>1. Cardinality(S \cup {x}) = Cardinality(S) + 1
    BY <1>4, FS_AddElement
  <2> QED
    BY <1>1, <2>1
<1> QED
  BY <1>3, <1>4

\* Of more rows than the policy leaves room for, some row is in excess: the
\* oldest.
LEMMA SomeExcess ==
    ASSUME NEW n \in Nat, NEW U \in SUBSET (1..n), NEW slots \in Nat, Cardinality(U) > slots
    PROVE  Excess(U, slots) # {}
<1>1. IsFiniteSet(U) /\ Cardinality(U) \in Nat
  BY NumbersFinite
<1>2. U # {}
  BY FS_EmptySet
<1>3. PICK i \in U : \A j \in U : i <= j
  <2>1. U \subseteq Nat
    OBVIOUS
  <2> QED
    BY <1>2, <2>1, LeastNatural
<1>4. {j \in U : j > i} = U \ {i}
  <2>1. \A j \in U : j \in Nat /\ i <= j
    BY <1>3
  <2>2. \A j \in U : j > i <=> j # i
    BY <2>1
  <2> QED
    BY <2>2
<1>5. Cardinality(U \ {i}) = Cardinality(U) - 1
  BY <1>1, <1>3, FS_RemoveElement
<1>6. Cardinality({j \in U : j > i}) >= slots
  BY <1>1, <1>4, <1>5
<1> QED
  BY <1>3, <1>6 DEF Excess

LEMMA RetentionInit == SetsInit => RetentionOneOver
<1> SUFFICES ASSUME SetsInit PROVE RetentionOneOver
  OBVIOUS
<1>1. Inactive = {}
  BY DEF SetsInit, Inactive, InTable, Ids
<1> QED
  BY <1>1, FS_EmptySet, ResultSetAssumption DEF RetentionOneOver

LEMMA CreateRetains ==
    ASSUME SetsInv, RetentionOneOver, turn.pc # "idle", ReservedPointer, Principal,
           NEW members, Create(members, turn.work)
    PROVE  RetentionOneOver'
<1> DEFINE new == Len(sets) + 1
           U == Unprotected({turn.work})
<1>1. PICK B \in Batches({turn.work}, MaxInactive - 1) :
         /\ sets' = Append(Retired(sets, B), [row |-> "present", members |-> members])
         /\ active' = AfterDelete(active, B)
  BY DEF Create
<1>2. active' = active /\ B \subseteq U
  BY <1>1, BatchesSpare
<1>3. Len(sets) \in Nat /\ Ids = 1..Len(sets) /\ U \in SUBSET (1..Len(sets))
  BY RowsNumbered DEF Unprotected
<1>4. IsFiniteSet(U) /\ Cardinality(U) \in Nat
  BY <1>3, NumbersFinite
<1>5. IsFiniteSet(Inactive) /\ Cardinality(Inactive) \in Nat
  BY InactiveFinite
<1>6. Inactive' = (Inactive \ B) \cup {new}
  <2>1. \A i \in B : sets'[i].row = "retired" /\ i \in 1..Len(sets)
    <3>1. PICK S : Retired(sets, B) \in Seq(S)
      BY RetiredRows
    <3>2. Len(Retired(sets, B)) = Len(sets)
      BY RetiredRows
    <3>3. \A i \in B : i \in 1..Len(sets) /\ Retired(sets, B)[i] = Gone
      BY <1>2, <1>3, RowsNumbered DEF Retired
    <3>4. \A i \in 1..Len(sets) : sets'[i] = Retired(sets, B)[i]
      BY <1>1, <1>3, <3>1, <3>2
    <3> QED
      BY <3>3, <3>4 DEF Gone
  <2>2. /\ Ids' = 1..new /\ sets'[new].row = "present"
        /\ \A i \in Ids : i \notin B => sets'[i] = sets[i]
    <3> DEFINE row == [row |-> "present", members |-> members]
    <3>1. row.row = "present"
      OBVIOUS
    <3> HIDE DEF row
    <3> QED
      BY <1>1, <3>1, CreatedRows DEF row
  <2>3. active \in 0..Len(sets)
    BY <1>3 DEF SetsInv, PointerHeld, InTable, NoSet
  <2> QED
    BY <1>2, <1>3, <2>1, <2>2, <2>3 DEF Inactive, InTable
<1>7. Cardinality(Inactive') = Cardinality(Inactive \ B) + 1
  <2>1. new \notin Inactive \ B
    BY <1>3 DEF Inactive, InTable
  <2>2. IsFiniteSet(Inactive \ B)
    BY <1>5, FS_Subset
  <2> QED
    BY <1>6, <2>1, <2>2, FS_AddElement
<1>8. Cardinality(Inactive \ B) \in Nat /\ Cardinality(Inactive \ B) <= Cardinality(Inactive)
  BY <1>5, FS_Subset, FS_CardinalityType
<1>9. CASE B = {}
  <2>1. Cardinality(U) <= MaxInactive - 1
    <3> SUFFICES ASSUME Cardinality(U) > MaxInactive - 1 PROVE FALSE
      BY <1>4, ResultSetAssumption
    <3>1. MaxInactive - 1 \in Nat
      BY ResultSetAssumption
    <3>2. Excess(U, MaxInactive - 1) # {}
      BY <1>3, <3>1, SomeExcess
    <3>3. Cardinality(B) = 0
      BY <1>9, FS_EmptySet
    <3> QED
      BY <1>1, <1>9, <3>2, <3>3, ResultSetAssumption DEF Batches
  <2>2. Inactive \subseteq U \cup {turn.work}
    BY DEF Inactive, Unprotected
  <2>3. /\ IsFiniteSet(U \cup {turn.work}) /\ Cardinality(U \cup {turn.work}) \in Nat
        /\ Cardinality(U \cup {turn.work}) <= Cardinality(U) + 1
    BY <1>4, OneMore
  <2>5. Cardinality(Inactive) <= Cardinality(U \cup {turn.work})
    BY <2>2, <2>3, FS_Subset
  <2>6. Cardinality(Inactive) <= MaxInactive
    BY <1>4, <1>5, <2>1, <2>3, <2>5, ResultSetAssumption
  <2> QED
    BY <1>5, <1>7, <1>8, <2>6, ResultSetAssumption DEF RetentionOneOver
<1>10. CASE B # {}
  <2>1. PICK b \in B : b \in Inactive
    BY <1>2, <1>10 DEF Inactive, Unprotected
  <2>2. Cardinality(Inactive \ {b}) = Cardinality(Inactive) - 1 /\ IsFiniteSet(Inactive \ {b})
    BY <1>5, <2>1, FS_RemoveElement
  <2>3. Cardinality(Inactive \ B) <= Cardinality(Inactive \ {b})
    BY <2>1, <2>2, FS_Subset
  <2> QED
    BY <1>5, <1>7, <1>8, <2>2, <2>3, ResultSetAssumption DEF RetentionOneOver
<1> QED
  BY <1>9, <1>10

\* The pointer trades places with the set the plan made.
LEMMA CommitRetains ==
    ASSUME SetsInv, RetentionOneOver, CommitTurn
    PROVE  RetentionOneOver'
<1>1. IsFiniteSet(Inactive) /\ Cardinality(Inactive) \in Nat
  BY InactiveFinite
<1>2. CASE turn.work = active
  <2>1. Inactive' = Inactive
    BY <1>2 DEF CommitTurn, Inactive, InTable, Ids
  <2> QED
    BY <2>1 DEF RetentionOneOver
<1>3. CASE turn.work # active
  <2>1. turn.work \in Inactive
    BY <1>3 DEF CommitTurn, Principal, SetsInv, WorkHeld, Inactive, InTable
  <2>2. Inactive' \subseteq (Inactive \ {turn.work}) \cup {active}
    BY DEF CommitTurn, Inactive, InTable, Ids
  <2>3. IsFiniteSet(Inactive \ {turn.work}) /\ Cardinality(Inactive \ {turn.work}) = Cardinality(Inactive) - 1
    BY <1>1, <2>1, FS_RemoveElement
  <2>4. /\ IsFiniteSet((Inactive \ {turn.work}) \cup {active})
        /\ Cardinality((Inactive \ {turn.work}) \cup {active}) \in Nat
        /\ Cardinality((Inactive \ {turn.work}) \cup {active}) <= Cardinality(Inactive)
    <3> DEFINE W == Inactive \ {turn.work}
    <3>1. IsFiniteSet(W) /\ Cardinality(W) = Cardinality(Inactive) - 1
      BY <2>3
    <3> HIDE DEF W
    <3>2. /\ IsFiniteSet(W \cup {active}) /\ Cardinality(W \cup {active}) \in Nat
          /\ Cardinality(W \cup {active}) <= Cardinality(W) + 1
      BY <3>1, OneMore
    <3>3. Cardinality(W \cup {active}) <= Cardinality(Inactive)
      BY <1>1, <3>1, <3>2
    <3> QED
      BY <3>2, <3>3 DEF W
  <2>6. IsFiniteSet(Inactive') /\ Cardinality(Inactive') <= Cardinality((Inactive \ {turn.work}) \cup {active})
    BY <2>2, <2>4, FS_Subset
  <2>7. Cardinality(Inactive') \in Nat
    BY <2>6, FS_CardinalityType
  <2> QED
    BY <1>1, <2>4, <2>6, <2>7, ResultSetAssumption DEF RetentionOneOver
<1> QED
  BY <1>2, <1>3

LEMMA SweepRetains ==
    ASSUME SetsInv, RetentionOneOver, SweepDelete
    PROVE  RetentionOneOver'
<1>1. active' = active
  BY SweepDeleteStep
<1>2. Inactive' \subseteq Inactive
  BY <1>1, RowsNumbered DEF SweepDelete, Retired, Gone, Inactive, InTable, Ids
<1>3. IsFiniteSet(Inactive) /\ Cardinality(Inactive) \in Nat
  BY InactiveFinite
<1>4. IsFiniteSet(Inactive') /\ Cardinality(Inactive') <= Cardinality(Inactive)
  BY <1>2, <1>3, FS_Subset
<1>5. Cardinality(Inactive') \in Nat
  BY <1>4, FS_CardinalityType
<1> QED
  BY <1>3, <1>4, <1>5, ResultSetAssumption DEF RetentionOneOver

LEMMA RetentionStep ==
    ASSUME SetsInv, RetentionOneOver, [SetsNext]_setVars
    PROVE  RetentionOneOver'
<1>1. CASE UNCHANGED <<sets, active>>
  BY <1>1 DEF RetentionOneOver, Inactive, InTable, Ids
<1>2. CASE SearchStep
  BY <1>2, CreateRetains DEF SearchStep
<1>3. CASE RefineStep
  BY <1>1, <1>3, CreateRetains DEF RefineStep
<1>4. CASE CommitTurn
  BY <1>4, CommitRetains
<1>5. CASE SweepDelete
  BY <1>5, SweepRetains
<1> QED
  BY <1>1, <1>2, <1>3, <1>4, <1>5
     DEF SetsNext, setVars, Propose, StartStep, PlannerDeclines, ProfileStep, AllDone, Abandon,
         SweepSelect, ProfileMoves, SessionEnds

LEMMA SetsInvariant == SetsSpec => []SetsInv
<1>1. SetsInv /\ [SetsNext]_setVars => SetsInv'
  BY SetsStep
<1> QED
  BY SetsInitInv, <1>1, PTL DEF SetsSpec

\* RetentionOneOver: whatever mixture of plans, abandoned turns, sweeps and
\* expiry a scope has seen, and however small a batch is, the rows the retention
\* leaves behind are at most one more than the policy allows: a pass that takes
\* nothing found no more than fit beside the set it keeps, and any other pass
\* takes as much as its turn adds.
THEOREM RetentionAtMostOneOver == SetsSpec => []RetentionOneOver
<1>1. SetsInv /\ RetentionOneOver /\ [SetsNext]_setVars => RetentionOneOver'
  BY RetentionStep
<1> QED
  BY SetsInvariant, RetentionInit, <1>1, PTL DEF SetsSpec

\* LiveSetsKept: neither a pass inside a turn nor the sweep of the command line,
\* however long ago it selected its rows, deletes the set the session points at
\* or the one the plan in flight works on.
THEOREM LiveSetsAlwaysKept == SetsSpec => []LiveSetsKept
<1>1. SetsInv => LiveSetsKept
  BY DEF SetsInv, PointerHeld, WorkHeld, LiveSetsKept
<1> QED
  BY SetsInvariant, <1>1, PTL

\* A refinement that creates a set read its source after the planner answered,
\* and keeps of it what it keeps in order; no other step of a refinement adds a
\* set.
LEMMA RefinementStep ==
    ASSUME SetsInv, [SetsNext]_setVars
    PROVE  RefinementNarrows
<1> SUFFICES ASSUME Len(sets') > Len(sets), Step = "refine"
             PROVE  LET new == sets'[Len(sets')]
                        old == sets[turn.work].members
                    IN /\ \A k \in DOMAIN new.members : Fresh(new.members[k])
                       /\ \E where \in [DOMAIN new.members -> DOMAIN old] :
                            /\ \A k \in DOMAIN where : new.members[k] = old[where[k]]
                            /\ \A k, l \in DOMAIN where : k < l => where[k] < where[l]
  BY DEF RefinementNarrows
<1> DEFINE old == sets[turn.work].members
<1>1. RefineStep
  <2>1. sets' # sets
    BY RowsNumbered
  <2>2. ~SweepDelete
    BY RetiredRows, RowsNumbered DEF SweepDelete
  <2>3. ~SearchStep
    BY DEF SearchStep
  <2> QED
    BY <2>1, <2>2, <2>3
       DEF SetsNext, setVars, Propose, StartStep, PlannerDeclines, ProfileStep, AllDone, CommitTurn,
           Abandon, SweepSelect, ProfileMoves, SessionEnds
<1>2. /\ SourceStillValid
      /\ \E members \in Narrowed(old) : Create(members, turn.work)
  BY <1>1, RowsNumbered DEF RefineStep
<1>3. PICK members \in Narrowed(old) : Create(members, turn.work)
  BY <1>2
<1>4. PICK n \in 0..Len(old) :
        \E kept \in [1..n -> DOMAIN old] :
          /\ \A k, l \in 1..n : k < l => kept[k] < kept[l]
          /\ members = [k \in 1..n |-> old[kept[k]]]
  BY <1>3 DEF Narrowed
<1>5. PICK kept \in [1..n -> DOMAIN old] :
        /\ \A k, l \in 1..n : k < l => kept[k] < kept[l]
        /\ members = [k \in 1..n |-> old[kept[k]]]
  BY <1>4
<1>6. DOMAIN members = 1..n /\ \A k \in 1..n : members[k] = old[kept[k]]
  BY <1>5
<1>7. \A k \in DOMAIN old : Fresh(old[k])
  BY <1>2 DEF SourceStillValid, Snapshot
<1>8. sets'[Len(sets')].members = members
  <2> DEFINE row == [row |-> "present", members |-> members]
  <2>1. row.members = members
    OBVIOUS
  <2>2. \E B : sets' = Append(Retired(sets, B), row)
    BY <1>3 DEF Create
  <2> HIDE DEF row
  <2>3. sets'[Len(sets')] = row
    BY <2>2, CreatedRows
  <2> QED
    BY <2>1, <2>3
<1>9. \A k \in DOMAIN members : Fresh(members[k])
  BY <1>5, <1>6, <1>7
<1>10. \E where \in [DOMAIN members -> DOMAIN old] :
         /\ \A k \in DOMAIN where : members[k] = old[where[k]]
         /\ \A k, l \in DOMAIN where : k < l => where[k] < where[l]
  <2>1. kept \in [DOMAIN members -> DOMAIN old] /\ DOMAIN kept = 1..n
    BY <1>5, <1>6
  <2> QED
    BY <1>5, <1>6, <2>1
<1> QED
  BY <1>8, <1>9, <1>10

\* PlansHold: the pointer moves only when every step of a plan is done, and only
\* to the last set the plan made; and a refinement leaves a part of what the plan
\* was working on, in its order and with no snapshot that moved while the planner
\* answered.
THEOREM PlansAlwaysHold == SetsSpec => PlansHold
<1>1. SetsInv /\ [SetsNext]_setVars => WholePlanOrNothing /\ RefinementNarrows
  BY SetsStep, RefinementStep DEF WholePlanOrNothing
<1> QED
  BY SetsInvariant, <1>1, PTL DEF SetsSpec, PlansHold

\* PointerNeverDropped: no deletion sets the pointer to NULL, and no plan moves
\* it back to an older set.
THEOREM PointerOnlyForward == SetsSpec => PointerNeverDropped
<1>1. SetsInv /\ [SetsNext]_setVars => [active' = active \/ active' > active]_setVars
  BY SetsStep
<1> QED
  BY SetsInvariant, <1>1, PTL DEF SetsSpec, PointerNeverDropped

-----------------------------------------------------------------------------
(* Vacancies and evaluations.                                              *)

RequestFields ==
    {"pc", "job", "version", "signature", "todo", "mine", "found", "single", "answer", "result"}
VacancyFields == {"status", "signature", "versions", "by", "archivedBy"}

IsRequest(w) == w = [f \in RequestFields |-> w[f]]
IsVacancy(v) == v = [f \in VacancyFields |-> v[f]] /\ v.status \in {"ACTIVE", "ARCHIVED"}

RequestsTyped ==
    /\ req = [r \in Requests |-> req[r]]
    /\ \A r \in Requests : IsRequest(req[r])
    /\ \A r \in Requests : req[r].pc = "idle" => req[r] = NewRequest

VacanciesTyped ==
    /\ \E S : jobs \in Seq(S)
    /\ \A j \in DOMAIN jobs : IsVacancy(jobs[j])

OneActive ==
    \A i, j \in DOMAIN jobs :
        i # j /\ jobs[i].signature = jobs[j].signature /\ jobs[i].signature # NoValue
        => ~(jobs[i].status = "ACTIVE" /\ jobs[j].status = "ACTIVE")

\* What the index lets an uncommitted insert assume.
InsertsAlone ==
    \A r \in Requests :
        req[r].pc = "created" /\ req[r].signature # NoValue =>
            /\ ~ActiveDuplicate(req[r].signature)
            /\ \A o \in Others(r, "created") : req[o].signature # req[r].signature

AnswersTrue ==
    \A r \in Requests :
        /\ req[r].answer \in {"created", "duplicate"} => req[r].pc = "done"
        /\ req[r].answer = "created" <=> \E j \in DOMAIN jobs : jobs[j].by = r
        /\ req[r].answer = "duplicate" /\ req[r].signature # NoValue
           => \E j \in DOMAIN jobs : jobs[j].by # r /\ jobs[j].signature = req[r].signature

VacancyInv == VacanciesTyped /\ OneActive /\ InsertsAlone /\ AnswersTrue

LEMMA RequestMoves ==
    ASSUME RequestsTyped, NEW r \in Requests, NEW w, IsRequest(w), w.pc # "idle", Becomes(r, w)
    PROVE  RequestsTyped' /\ req'[r] = w /\ \A o \in Requests \ {r} : req'[o] = req[o]
BY DEF RequestsTyped, Becomes

\* A request that has not answered goes on without touching the vacancies.
LEMMA VacanciesStay ==
    ASSUME RequestsTyped, VacancyInv, UNCHANGED jobs,
           NEW r \in Requests, NEW w, IsRequest(w), w.pc # "idle", Becomes(r, w),
           req[r].pc # "done",
           w.pc = "created" /\ w.signature # NoValue =>
               /\ ~ActiveDuplicate(w.signature)
               /\ \A o \in Others(r, "created") : req[o].signature # w.signature,
           w.answer # "created",
           w.answer = "duplicate" =>
               /\ w.pc = "done"
               /\ w.signature # NoValue =>
                     \E j \in DOMAIN jobs : jobs[j].by # r /\ jobs[j].signature = w.signature
    PROVE  VacancyInv'
<1>1. req'[r] = w /\ \A o \in Requests \ {r} : req'[o] = req[o]
  BY RequestMoves
<1>2. VacanciesTyped' /\ OneActive'
  BY DEF VacancyInv, VacanciesTyped, OneActive
<1>3. InsertsAlone'
  <2> SUFFICES ASSUME NEW s \in Requests, req'[s].pc = "created", req'[s].signature # NoValue
               PROVE  /\ ~ActiveDuplicate(req'[s].signature)
                      /\ \A o \in Others(s, "created")' : req'[o].signature # req'[s].signature
    BY DEF InsertsAlone, ActiveDuplicate
  <2>1. CASE s = r
    BY <1>1, <2>1 DEF Others
  <2>2. CASE s # r
    <3>1. req'[s] = req[s]
      BY <1>1, <2>2
    <3>2. ~ActiveDuplicate(req[s].signature) /\ \A o \in Others(s, "created") : req[o].signature # req[s].signature
      BY <3>1 DEF VacancyInv, InsertsAlone
    <3>3. w.pc = "created" => w.signature # req[s].signature
      BY <2>2, <3>1 DEF Others
    <3>4. ASSUME NEW o \in Others(s, "created")' PROVE req'[o].signature # req[s].signature
      BY <1>1, <2>2, <3>2, <3>3, <3>4 DEF Others
    <3> QED
      BY <3>1, <3>2, <3>4
  <2> QED
    BY <2>1, <2>2
<1>4. AnswersTrue'
  <2> SUFFICES ASSUME NEW s \in Requests
               PROVE  /\ req'[s].answer \in {"created", "duplicate"} => req'[s].pc = "done"
                      /\ req'[s].answer = "created" <=> \E j \in DOMAIN jobs : jobs[j].by = s
                      /\ req'[s].answer = "duplicate" /\ req'[s].signature # NoValue
                         => \E j \in DOMAIN jobs : jobs[j].by # s /\ jobs[j].signature = req'[s].signature
    BY DEF AnswersTrue
  <2>1. CASE s = r
    BY <1>1, <2>1 DEF VacancyInv, AnswersTrue
  <2>2. CASE s # r
    BY <1>1, <2>2 DEF VacancyInv, AnswersTrue
  <2> QED
    BY <2>1, <2>2
<1> QED
  BY <1>2, <1>3, <1>4 DEF VacancyInv

LEMMA VacanciesNumbered ==
    ASSUME VacanciesTyped
    PROVE  Len(jobs) \in Nat /\ DOMAIN jobs = 1..Len(jobs)
BY DEF VacanciesTyped

LEMMA CreateVacancy ==
    ASSUME RequestsTyped, VacancyInv, NEW r \in Requests, CreateCommit(r)
    PROVE  VacancyInv'
<1> DEFINE w == [req[r] EXCEPT !.pc = "done", !.answer = "created", !.mine = {}, !.todo = <<>>]
           new == [status |-> "ACTIVE", signature |-> req[r].signature, versions |-> 1,
                   by |-> r, archivedBy |-> {}]
           n == Len(jobs) + 1
<1>1. IsRequest(w) /\ w.pc = "done" /\ w.answer = "created" /\ w.signature = req[r].signature
  BY DEF RequestsTyped, IsRequest, RequestFields
<1>2. Becomes(r, w) /\ jobs' = Append(jobs, new) /\ req[r].pc = "created"
  BY DEF CreateCommit, Answers
<1>3. IsVacancy(new) /\ new.status = "ACTIVE" /\ new.signature = req[r].signature /\ new.by = r
  BY DEF IsVacancy, VacancyFields
<1> HIDE DEF w, new
<1>4. req'[r] = w /\ \A o \in Requests \ {r} : req'[o] = req[o]
  BY <1>1, <1>2, RequestMoves
<1>5. PICK S : jobs \in Seq(S)
  BY DEF VacancyInv, VacanciesTyped
<1>6. /\ jobs' \in Seq(S \cup {new}) /\ DOMAIN jobs' = 1..n /\ Len(jobs) \in Nat
      /\ DOMAIN jobs = 1..Len(jobs)
      /\ jobs'[n] = new /\ \A j \in 1..Len(jobs) : jobs'[j] = jobs[j]
  BY <1>2, <1>5
<1>7. VacanciesTyped'
  BY <1>3, <1>6 DEF VacancyInv, VacanciesTyped
<1>8. \A j \in DOMAIN jobs : jobs[j].status = "ACTIVE" /\ jobs[j].signature = req[r].signature
                             => req[r].signature = NoValue
  BY <1>2 DEF VacancyInv, InsertsAlone, ActiveDuplicate
<1>9. OneActive'
  <2> SUFFICES ASSUME NEW i \in 1..n, NEW j \in 1..n, i # j,
                      jobs'[i].signature = jobs'[j].signature, jobs'[i].signature # NoValue,
                      jobs'[i].status = "ACTIVE", jobs'[j].status = "ACTIVE"
               PROVE  FALSE
    BY <1>6 DEF OneActive
  <2>1. CASE i = n
    BY <1>3, <1>6, <1>8, <2>1
  <2>2. CASE j = n
    BY <1>3, <1>6, <1>8, <2>2
  <2>3. CASE i # n /\ j # n
    BY <1>6, <2>3 DEF VacancyInv, OneActive
  <2> QED
    BY <2>1, <2>2, <2>3
<1>10. InsertsAlone'
  <2> SUFFICES ASSUME NEW s \in Requests, req'[s].pc = "created", req'[s].signature # NoValue
               PROVE  /\ \A j \in 1..n : jobs'[j].status = "ACTIVE" => jobs'[j].signature # req'[s].signature
                      /\ \A o \in Others(s, "created")' : req'[o].signature # req'[s].signature
    BY <1>6 DEF InsertsAlone, ActiveDuplicate
  <2>1. s # r /\ req'[s] = req[s]
    BY <1>1, <1>4
  <2>2. /\ \A j \in DOMAIN jobs : jobs[j].status = "ACTIVE" => jobs[j].signature # req[s].signature
        /\ \A o \in Others(s, "created") : req[o].signature # req[s].signature
    BY <2>1 DEF VacancyInv, InsertsAlone, ActiveDuplicate
  <2>3. req[r].signature # req[s].signature
    BY <1>2, <2>1, <2>2 DEF Others
  <2>4. ASSUME NEW o \in Others(s, "created")' PROVE req'[o].signature # req'[s].signature
    <3>1. o # r /\ o \in Requests \ {s} /\ req'[o].pc = "created"
      BY <1>1, <1>4 DEF Others
    <3>2. o \in Others(s, "created")
      BY <1>4, <3>1 DEF Others
    <3> QED
      BY <1>4, <2>1, <2>2, <3>1, <3>2
  <2>5. ASSUME NEW j \in 1..n, jobs'[j].status = "ACTIVE" PROVE jobs'[j].signature # req'[s].signature
    BY <1>3, <1>6, <2>1, <2>2, <2>3, <2>5
  <2> QED
    BY <2>4, <2>5
<1>11. AnswersTrue'
  <2> SUFFICES ASSUME NEW s \in Requests
               PROVE  /\ req'[s].answer \in {"created", "duplicate"} => req'[s].pc = "done"
                      /\ req'[s].answer = "created" <=> \E j \in DOMAIN jobs' : jobs'[j].by = s
                      /\ req'[s].answer = "duplicate" /\ req'[s].signature # NoValue
                         => \E j \in DOMAIN jobs' : jobs'[j].by # s /\ jobs'[j].signature = req'[s].signature
    BY DEF AnswersTrue
  <2>1. CASE s = r
    <3>1. jobs'[n].by = s /\ n \in DOMAIN jobs'
      BY <1>3, <1>6, <2>1
    <3> QED
      BY <1>1, <1>4, <2>1, <3>1
  <2>2. CASE s # r
    <3>1. req'[s] = req[s]
      BY <1>4, <2>2
    <3>2. /\ req[s].answer \in {"created", "duplicate"} => req[s].pc = "done"
          /\ req[s].answer = "created" <=> \E j \in DOMAIN jobs : jobs[j].by = s
          /\ req[s].answer = "duplicate" /\ req[s].signature # NoValue
             => \E j \in DOMAIN jobs : jobs[j].by # s /\ jobs[j].signature = req[s].signature
      BY DEF VacancyInv, AnswersTrue
    <3>3. (\E j \in DOMAIN jobs : jobs[j].by = s) <=> \E j \in DOMAIN jobs' : jobs'[j].by = s
      <4>1. ASSUME NEW j \in DOMAIN jobs, jobs[j].by = s PROVE \E k \in DOMAIN jobs' : jobs'[k].by = s
        <5>1. j \in DOMAIN jobs' /\ jobs'[j] = jobs[j]
          BY <1>6
        <5> QED
          BY <4>1, <5>1
      <4>2. ASSUME NEW j \in DOMAIN jobs', jobs'[j].by = s PROVE \E k \in DOMAIN jobs : jobs[k].by = s
        <5>1. j # n
          BY <1>3, <1>6, <2>2, <4>2
        <5>2. j \in DOMAIN jobs /\ jobs'[j] = jobs[j]
          BY <1>6, <5>1
        <5> QED
          BY <4>2, <5>2
      <4> QED
        BY <4>1, <4>2
    <3>4. ASSUME NEW j \in DOMAIN jobs, jobs[j].by # s, jobs[j].signature = req[s].signature
          PROVE  \E k \in DOMAIN jobs' : jobs'[k].by # s /\ jobs'[k].signature = req[s].signature
      <4>1. j \in DOMAIN jobs' /\ jobs'[j] = jobs[j]
        BY <1>6
      <4> QED
        BY <3>4, <4>1
    <3> QED
      BY <3>1, <3>2, <3>3, <3>4
  <2> QED
    BY <2>1, <2>2
<1> QED
  BY <1>7, <1>9, <1>10, <1>11 DEF VacancyInv

\* Appending a criteria version and archiving leave who created a vacancy and
\* its signature, and make none active.
LEMMA VacanciesKeep ==
    ASSUME RequestsTyped, VacancyInv,
           NEW r \in Requests, NEW w, IsRequest(w), w.pc = "done", Becomes(r, w), req[r].pc # "done",
           w.answer \notin {"created", "duplicate"},
           VacanciesTyped', DOMAIN jobs' = DOMAIN jobs,
           \A j \in DOMAIN jobs :
               /\ jobs'[j].signature = jobs[j].signature /\ jobs'[j].by = jobs[j].by
               /\ jobs'[j].status = "ACTIVE" => jobs[j].status = "ACTIVE"
    PROVE  VacancyInv'
<1>1. req'[r] = w /\ \A o \in Requests \ {r} : req'[o] = req[o]
  BY RequestMoves
<1>2. OneActive'
  BY DEF VacancyInv, OneActive
<1>3. InsertsAlone'
  <2> SUFFICES ASSUME NEW s \in Requests, req'[s].pc = "created", req'[s].signature # NoValue
               PROVE  /\ \A j \in DOMAIN jobs' : jobs'[j].status = "ACTIVE" => jobs'[j].signature # req'[s].signature
                      /\ \A o \in Others(s, "created")' : req'[o].signature # req'[s].signature
    BY DEF InsertsAlone, ActiveDuplicate
  <2>1. s # r /\ req'[s] = req[s]
    BY <1>1
  <2>2. /\ \A j \in DOMAIN jobs : jobs[j].status = "ACTIVE" => jobs[j].signature # req[s].signature
        /\ \A o \in Others(s, "created") : req[o].signature # req[s].signature
    BY <2>1 DEF VacancyInv, InsertsAlone, ActiveDuplicate
  <2>3. ASSUME NEW o \in Others(s, "created")' PROVE req'[o].signature # req'[s].signature
    BY <1>1, <2>1, <2>2 DEF Others
  <2> QED
    BY <2>1, <2>2, <2>3
<1>4. AnswersTrue'
  <2> SUFFICES ASSUME NEW s \in Requests
               PROVE  /\ req'[s].answer \in {"created", "duplicate"} => req'[s].pc = "done"
                      /\ req'[s].answer = "created" <=> \E j \in DOMAIN jobs' : jobs'[j].by = s
                      /\ req'[s].answer = "duplicate" /\ req'[s].signature # NoValue
                         => \E j \in DOMAIN jobs' : jobs'[j].by # s /\ jobs'[j].signature = req'[s].signature
    BY DEF AnswersTrue
  <2>1. CASE s = r
    <3>1. req[s].answer # "created"
      BY <2>1 DEF VacancyInv, AnswersTrue
    <3>2. ~ \E j \in DOMAIN jobs : jobs[j].by = s
      BY <3>1 DEF VacancyInv, AnswersTrue
    <3> QED
      BY <1>1, <2>1, <3>2
  <2>2. CASE s # r
    BY <1>1, <2>2 DEF VacancyInv, AnswersTrue
  <2> QED
    BY <2>1, <2>2
<1> QED
  BY <1>2, <1>3, <1>4 DEF VacancyInv

LEMMA AnsweredRequest ==
    ASSUME RequestsTyped, NEW r \in Requests, NEW answer, Answers(r, answer)
    PROVE  \E w : /\ IsRequest(w) /\ w.pc = "done" /\ w.answer = answer /\ w.mine = {}
                  /\ w.signature = req[r].signature /\ w.result = req[r].result
                  /\ Becomes(r, w)
<1> DEFINE w == [req[r] EXCEPT !.pc = "done", !.answer = answer, !.mine = {}, !.todo = <<>>]
<1>1. /\ IsRequest(w) /\ w.pc = "done" /\ w.answer = answer /\ w.mine = {}
      /\ w.signature = req[r].signature /\ w.result = req[r].result
  BY DEF RequestsTyped, IsRequest, RequestFields
<1>2. Becomes(r, w)
  BY DEF Answers
<1> HIDE DEF w
<1> QED
  BY <1>1, <1>2

LEMMA NumberedIsSequence ==
    ASSUME NEW n \in Nat, NEW f, f = [i \in 1..n |-> f[i]]
    PROVE  \E S : f \in Seq(S)
<1>1. f \in [1..n -> {f[i] : i \in 1..n}]
  OBVIOUS
<1>2. f \in Seq({f[i] : i \in 1..n})
  BY <1>1
<1> QED
  BY <1>2

LEMMA VacanciesKept ==
    ASSUME RequestsTyped, VacancyInv, NEW r \in Requests, NEW answer, Answers(r, answer),
           req[r].pc # "done", answer \notin {"created", "duplicate"},
           jobs' = [j \in DOMAIN jobs |-> jobs'[j]],
           \A j \in DOMAIN jobs :
               /\ IsVacancy(jobs'[j])
               /\ jobs'[j].signature = jobs[j].signature /\ jobs'[j].by = jobs[j].by
               /\ jobs'[j].status = "ACTIVE" => jobs[j].status = "ACTIVE"
    PROVE  VacancyInv'
<1>1. PICK w : /\ IsRequest(w) /\ w.pc = "done" /\ w.answer = answer /\ Becomes(r, w)
  BY AnsweredRequest
<1>2. Len(jobs) \in Nat /\ DOMAIN jobs = 1..Len(jobs)
  BY VacanciesNumbered DEF VacancyInv
<1>3. jobs' = [j \in 1..Len(jobs) |-> jobs'[j]]
  BY <1>2
<1>4. \E S : jobs' \in Seq(S)
  BY <1>2, <1>3, NumberedIsSequence
<1>6. DOMAIN jobs' = DOMAIN jobs
  BY <1>2, <1>3
<1>5. VacanciesTyped'
  BY <1>4, <1>6 DEF VacanciesTyped
<1> QED
  BY <1>1, <1>5, <1>6, VacanciesKeep

LEMMA AppendVersion ==
    ASSUME RequestsTyped, VacancyInv, NEW r \in Requests, AppendCommit(r)
    PROVE  VacancyInv'
<1>1. jobs' = [jobs EXCEPT ![req[r].job].versions = req[r].version] /\ Answers(r, "appended")
      /\ req[r].pc = "appended"
  BY DEF AppendCommit
<1>4. ASSUME NEW j \in DOMAIN jobs
      PROVE  /\ IsVacancy(jobs'[j])
             /\ jobs'[j].signature = jobs[j].signature /\ jobs'[j].by = jobs[j].by
             /\ jobs'[j].status = jobs[j].status
  <2>1. IsVacancy(jobs[j])
    BY DEF VacancyInv, VacanciesTyped
  <2>2. CASE j = req[r].job
    <3>1. jobs'[j] = [jobs[j] EXCEPT !.versions = req[r].version]
      BY <1>1, <2>2
    <3> QED
      BY <2>1, <3>1 DEF IsVacancy, VacancyFields
  <2>3. CASE j # req[r].job
    BY <1>1, <2>1, <2>3
  <2> QED
    BY <2>2, <2>3
<1>5. jobs' = [j \in DOMAIN jobs |-> jobs'[j]]
  BY <1>1
<1>6. Answers(r, "appended") /\ req[r].pc # "done"
  BY <1>1
<1> QED
  BY <1>4, <1>5, <1>6, VacanciesKept

LEMMA ArchiveVacancy ==
    ASSUME RequestsTyped, VacancyInv, NEW r \in Requests, ArchiveCommit(r)
    PROVE  VacancyInv'
<1> DEFINE k == req[r].job
<1>1. /\ jobs' = [jobs EXCEPT ![k].status = "ARCHIVED", ![k].archivedBy = @ \cup {r}]
      /\ Answers(r, "archived") /\ req[r].pc = "archived"
  BY DEF ArchiveCommit
<1>4. ASSUME NEW j \in DOMAIN jobs
      PROVE  /\ IsVacancy(jobs'[j])
             /\ jobs'[j].signature = jobs[j].signature /\ jobs'[j].by = jobs[j].by
             /\ jobs'[j].status = "ACTIVE" => jobs[j].status = "ACTIVE"
  <2>1. IsVacancy(jobs[j])
    BY DEF VacancyInv, VacanciesTyped
  <2>2. CASE j = k
    <3>1. PICK x : jobs'[j] = [jobs[j] EXCEPT !.status = "ARCHIVED", !.archivedBy = x]
      BY <1>1, <2>1, <2>2 DEF IsVacancy, VacancyFields
    <3> QED
      BY <2>1, <3>1 DEF IsVacancy, VacancyFields
  <2>3. CASE j # k
    BY <1>1, <2>1, <2>3
  <2> QED
    BY <2>2, <2>3
<1>5. jobs' = [j \in DOMAIN jobs |-> jobs'[j]]
  BY <1>1
<1>6. Answers(r, "archived") /\ req[r].pc # "done"
  BY <1>1
<1> QED
  BY <1>4, <1>5, <1>6, VacanciesKept
\* Rows that stand for one score are one row: committed, or of one request that
\* has not committed.
OneScore ==
    /\ \A e, f \in evaluations : SameProvenance(e, f) => e = f
    /\ \A r \in Requests : \A e \in req[r].mine : \A f \in evaluations : ~SameProvenance(e, f)
    /\ \A r, o \in Requests : \A e \in req[r].mine, f \in req[o].mine :
          SameProvenance(e, f) => r = o /\ e = f

Deleted(e) == e.candidate \in Candidates /\ profile[e.candidate] = NoCandidate

\* What a request answered, or found and may still answer.
NamedHeld ==
    \A r \in Requests :
        /\ \A e \in req[r].result : e \in evaluations \/ Deleted(e)
        /\ req[r].pc = "evaluate" =>
              \A e \in req[r].found : e \in Visible(r) \/ Deleted(e)

CandidatesTyped ==
    /\ profile = [c \in Candidates |-> profile[c]]
    /\ \A r \in Requests : req[r].pc = "deleting" => req[r].todo[1][1] \in Candidates

ScoresInv == OneScore /\ NamedHeld /\ CandidatesTyped

\* A request goes on without touching the candidates and the evaluations, and
\* inserts nothing.
LEMMA ScoresStay ==
    ASSUME RequestsTyped, ScoresInv, UNCHANGED <<profile, evaluations>>,
           NEW r \in Requests, NEW w, IsRequest(w), w.pc # "idle", Becomes(r, w),
           w.result = req[r].result, w.mine \subseteq req[r].mine,
           w.pc = "deleting" => w.todo[1][1] \in Candidates,
           w.pc = "evaluate" => \A e \in w.found : e \in evaluations \cup w.mine \/ Deleted(e)
    PROVE  ScoresInv'
<1>1. req'[r] = w /\ \A o \in Requests \ {r} : req'[o] = req[o]
  BY RequestMoves
<1>2. \A e, f : SameProvenance(e, f)' <=> SameProvenance(e, f)
  BY DEF SameProvenance
<1>3. \A s \in Requests : req'[s].mine \subseteq req[s].mine
  BY <1>1
<1>4. OneScore'
  BY <1>3 DEF ScoresInv, OneScore, SameProvenance
<1>5. NamedHeld'
  <2> SUFFICES ASSUME NEW s \in Requests
               PROVE  /\ \A e \in req'[s].result : e \in evaluations \/ Deleted(e)
                      /\ req'[s].pc = "evaluate" =>
                            \A e \in req'[s].found : e \in evaluations \cup req'[s].mine \/ Deleted(e)
    BY DEF NamedHeld, Visible, Deleted
  <2>1. CASE s = r
    BY <1>1, <2>1 DEF ScoresInv, NamedHeld
  <2>2. CASE s # r
    BY <1>1, <2>2 DEF ScoresInv, NamedHeld, Visible
  <2> QED
    BY <2>1, <2>2
<1>6. CandidatesTyped'
  BY <1>1 DEF ScoresInv, CandidatesTyped
<1> QED
  BY <1>4, <1>5, <1>6 DEF ScoresInv

\* Only for a row that neither its own transaction nor a committed one shows,
\* and that nobody else has written, is there an insert.
LEMMA InsertScore ==
    ASSUME RequestsTyped, ScoresInv, NEW r \in Requests, Insert(r)
    PROVE  /\ ScoresInv'
           /\ \E w : /\ IsRequest(w) /\ Becomes(r, w) /\ w.pc = "evaluate"
                     /\ w.answer = req[r].answer /\ w.signature = req[r].signature
<1>1. PICK row :
         /\ ~ \E e \in Visible(r) : SameProvenance(e, row)
         /\ ~EvaluationBlocked(r, row)
         /\ Becomes(r, [req[r] EXCEPT !.todo = Tail(@), !.mine = @ \cup {row}])
  BY DEF Insert
<1>2. req[r].pc = "evaluate" /\ UNCHANGED <<jobs, profile, evaluations>>
  BY DEF Insert, NothingCommitted
<1> DEFINE w == [req[r] EXCEPT !.todo = Tail(@), !.mine = @ \cup {row}]
<1>3. /\ IsRequest(w) /\ w.pc = "evaluate" /\ w.mine = req[r].mine \cup {row}
      /\ w.found = req[r].found /\ w.result = req[r].result
      /\ w.answer = req[r].answer /\ w.signature = req[r].signature
  BY <1>2 DEF RequestsTyped, IsRequest, RequestFields
<1>4. Becomes(r, w)
  BY <1>1
<1> HIDE DEF w
<1>5. req'[r] = w /\ \A o \in Requests \ {r} : req'[o] = req[o]
  BY <1>3, <1>4, RequestMoves
<1>6. \A e, f : SameProvenance(e, f) => SameProvenance(f, e)
  BY DEF SameProvenance
<1>7. \A e \in evaluations \cup req[r].mine : ~SameProvenance(e, row) /\ ~SameProvenance(row, e)
  BY <1>1, <1>6 DEF Visible
<1>8. \A o \in Requests \ {r} : \A e \in req[o].mine : ~SameProvenance(e, row) /\ ~SameProvenance(row, e)
  BY <1>1, <1>6 DEF EvaluationBlocked
<1>9. OneScore'
  <2>1. \A e, f \in evaluations' : SameProvenance(e, f) => e = f
    BY <1>2 DEF ScoresInv, OneScore
  <2>2. ASSUME NEW s \in Requests, NEW e \in req'[s].mine, NEW f \in evaluations
        PROVE  ~SameProvenance(e, f)
    <3>1. CASE e \in req[s].mine
      BY <3>1 DEF ScoresInv, OneScore
    <3>2. CASE e \notin req[s].mine
      <4>1. e = row
        BY <1>3, <1>5, <3>2
      <4> QED
        BY <1>7, <4>1
    <3> QED
      BY <3>1, <3>2
  <2>3. ASSUME NEW s \in Requests, NEW o \in Requests, NEW e \in req'[s].mine, NEW f \in req'[o].mine,
               SameProvenance(e, f)
        PROVE  s = o /\ e = f
    <3>1. CASE e \in req[s].mine /\ f \in req[o].mine
      BY <2>3, <3>1 DEF ScoresInv, OneScore
    <3>2. CASE e \notin req[s].mine
      <4>1. s = r /\ e = row
        BY <1>3, <1>5, <3>2
      <4>2. CASE o = r
        BY <1>3, <1>5, <1>7, <2>3, <4>1, <4>2
      <4>3. CASE o # r
        BY <1>5, <1>8, <2>3, <4>1, <4>3
      <4> QED
        BY <4>2, <4>3
    <3>3. CASE f \notin req[o].mine
      <4>1. o = r /\ f = row
        BY <1>3, <1>5, <3>3
      <4>2. CASE s = r
        BY <1>3, <1>5, <1>7, <2>3, <4>1, <4>2
      <4>3. CASE s # r
        BY <1>5, <1>8, <2>3, <4>1, <4>3
      <4> QED
        BY <4>2, <4>3
    <3> QED
      BY <3>1, <3>2, <3>3
  <2> QED
    BY <1>2, <2>1, <2>2, <2>3 DEF OneScore, SameProvenance
<1>10. NamedHeld'
  <2> SUFFICES ASSUME NEW s \in Requests
               PROVE  /\ \A e \in req'[s].result : e \in evaluations \/ Deleted(e)
                      /\ req'[s].pc = "evaluate" =>
                            \A e \in req'[s].found : e \in evaluations \cup req'[s].mine \/ Deleted(e)
    BY <1>2 DEF NamedHeld, Visible, Deleted
  <2>1. CASE s = r
    BY <1>2, <1>3, <1>5, <2>1 DEF ScoresInv, NamedHeld, Visible
  <2>2. CASE s # r
    BY <1>5, <2>2 DEF ScoresInv, NamedHeld, Visible
  <2> QED
    BY <2>1, <2>2
<1>11. CandidatesTyped'
  BY <1>2, <1>3, <1>5 DEF ScoresInv, CandidatesTyped
<1> QED
  BY <1>3, <1>4, <1>9, <1>10, <1>11 DEF ScoresInv

\* A commit makes the rows of one request everybody's.
LEMMA CommitScores ==
    ASSUME RequestsTyped, ScoresInv, NEW r \in Requests, EvaluateCommit(r)
    PROVE  /\ ScoresInv'
           /\ \E w : /\ IsRequest(w) /\ Becomes(r, w) /\ w.pc = "done"
                     /\ w.answer \notin {"created", "duplicate"}
<1> DEFINE w == [req[r] EXCEPT !.pc = "done", !.mine = {}, !.result = Scored(r),
                    !.answer = IF req[r].single /\ Scored(r) = {} THEN "unscorable" ELSE "ranked"]
<1>1. /\ req[r].pc = "evaluate" /\ evaluations' = evaluations \cup req[r].mine
      /\ Becomes(r, w) /\ profile' = profile
  BY DEF EvaluateCommit
<1>2. /\ IsRequest(w) /\ w.pc = "done" /\ w.mine = {} /\ w.result = Scored(r)
      /\ w.answer \in {"unscorable", "ranked"}
  BY DEF RequestsTyped, IsRequest, RequestFields
<1> HIDE DEF w
<1>3. req'[r] = w /\ \A o \in Requests \ {r} : req'[o] = req[o]
  BY <1>1, <1>2, RequestMoves
<1>4. \A e, f : SameProvenance(e, f) => SameProvenance(f, e)
  BY DEF SameProvenance
<1>5. OneScore'
  <2>1. ASSUME NEW e \in evaluations', NEW f \in evaluations', SameProvenance(e, f) PROVE e = f
    BY <1>1, <1>4, <2>1 DEF ScoresInv, OneScore
  <2>2. ASSUME NEW s \in Requests, NEW e \in req'[s].mine, NEW f \in evaluations'
        PROVE  ~SameProvenance(e, f)
    <3>1. s # r /\ e \in req[s].mine
      BY <1>2, <1>3
    <3> QED
      BY <1>1, <3>1 DEF ScoresInv, OneScore
  <2>3. \A s \in Requests : req'[s].mine \subseteq req[s].mine
    BY <1>2, <1>3
  <2> QED
    BY <2>1, <2>2, <2>3 DEF ScoresInv, OneScore, SameProvenance
<1>6. NamedHeld'
  <2> SUFFICES ASSUME NEW s \in Requests
               PROVE  /\ \A e \in req'[s].result : e \in evaluations' \/ Deleted(e)
                      /\ req'[s].pc = "evaluate" =>
                            \A e \in req'[s].found : e \in evaluations' \cup req'[s].mine \/ Deleted(e)
    BY <1>1 DEF NamedHeld, Visible, Deleted
  <2>1. CASE s = r
    <3>1. \A e \in Scored(r) : e \in req[r].mine \/ e \in req[r].found
      BY DEF Scored
    <3>2. \A e \in Scored(r) : e \in evaluations' \/ Deleted(e)
      BY <1>1, <3>1 DEF ScoresInv, NamedHeld, Visible
    <3> QED
      BY <1>2, <1>3, <2>1, <3>2
  <2>2. CASE s # r
    BY <1>1, <1>3, <2>2 DEF ScoresInv, NamedHeld, Visible
  <2> QED
    BY <2>1, <2>2
<1>7. CandidatesTyped'
  BY <1>1, <1>2, <1>3 DEF ScoresInv, CandidatesTyped
<1> QED
  BY <1>1, <1>2, <1>5, <1>6, <1>7 DEF ScoresInv

\* A deletion takes the rows of its candidate, who is gone then.
LEMMA DeleteScores ==
    ASSUME RequestsTyped, ScoresInv, NEW r \in Requests, DeleteCommit(r)
    PROVE  ScoresInv'
<1> DEFINE c == req[r].todo[1][1]
<1>1. /\ req[r].pc = "deleting" /\ profile' = [profile EXCEPT ![c] = NoCandidate]
      /\ evaluations' = {e \in evaluations : e.candidate # c}
      /\ Answers(r, "deleted")
  BY DEF DeleteCommit
<1>2. c \in Candidates
  BY <1>1 DEF ScoresInv, CandidatesTyped
<1>3. PICK w : /\ IsRequest(w) /\ w.pc = "done" /\ w.mine = {} /\ w.result = req[r].result
               /\ Becomes(r, w)
  BY <1>1, AnsweredRequest
<1>4. req'[r] = w /\ \A o \in Requests \ {r} : req'[o] = req[o]
  BY <1>3, RequestMoves
<1> HIDE DEF c
<1>5. evaluations' \subseteq evaluations /\ \A s \in Requests : req'[s].mine \subseteq req[s].mine
  BY <1>1, <1>3, <1>4
<1>6. OneScore'
  BY <1>5 DEF ScoresInv, OneScore, SameProvenance
<1>7. profile' = [x \in Candidates |-> IF x = c THEN NoCandidate ELSE profile[x]]
  BY <1>1, <1>2 DEF ScoresInv, CandidatesTyped
<1>8. \A e : Deleted(e) \/ e \in evaluations => e \in evaluations' \/ Deleted(e)'
  BY <1>1, <1>2, <1>7 DEF Deleted
<1>9. NamedHeld'
  <2> SUFFICES ASSUME NEW s \in Requests
               PROVE  /\ \A e \in req'[s].result : e \in evaluations' \/ Deleted(e)'
                      /\ req'[s].pc = "evaluate" =>
                            \A e \in req'[s].found : e \in evaluations' \cup req'[s].mine \/ Deleted(e)'
    BY DEF NamedHeld, Visible
  <2>1. CASE s = r
    BY <1>3, <1>4, <1>8, <2>1 DEF ScoresInv, NamedHeld
  <2>2. CASE s # r
    <3>1. req'[s] = req[s]
      BY <1>4, <2>2
    <3>2. \A e \in req[s].result : e \in evaluations' \/ Deleted(e)'
      BY <1>8 DEF ScoresInv, NamedHeld
    <3>3. req[s].pc = "evaluate" => \A e \in req[s].found : e \in evaluations' \cup req[s].mine \/ Deleted(e)'
      BY <1>8 DEF ScoresInv, NamedHeld, Visible
    <3> QED
      BY <3>1, <3>2, <3>3
  <2> QED
    BY <2>1, <2>2
<1>10. CandidatesTyped'
  BY <1>3, <1>4, <1>7 DEF ScoresInv, CandidatesTyped
<1> QED
  BY <1>6, <1>9, <1>10 DEF ScoresInv

\* An analysis brings nobody back.
LEMMA AnalysedScores ==
    ASSUME ScoresInv, NEW c \in Candidates, Analysed(c)
    PROVE  ScoresInv'
<1>1. /\ profile[c] # NoCandidate /\ profile' = [profile EXCEPT ![c] = @ + 1]
      /\ UNCHANGED <<evaluations, req>>
  BY HiringAssumption DEF Analysed, NoCandidate
<1>2. profile' = [x \in Candidates |-> IF x = c THEN profile[c] + 1 ELSE profile[x]]
  BY <1>1 DEF ScoresInv, CandidatesTyped
<1>3. \A e : Deleted(e) => Deleted(e)'
  BY <1>1, <1>2 DEF Deleted
<1>4. OneScore' /\ CandidatesTyped'
  BY <1>1, <1>2 DEF ScoresInv, OneScore, SameProvenance, CandidatesTyped
<1>5. NamedHeld'
  BY <1>1, <1>3 DEF ScoresInv, NamedHeld, Visible
<1> QED
  BY <1>4, <1>5 DEF ScoresInv

HiringInv == RequestsTyped /\ VacancyInv /\ ScoresInv

LEMMA HiringInitInv == HiringInit => HiringInv
<1> SUFFICES ASSUME HiringInit PROVE HiringInv
  OBVIOUS
<1>1. IsRequest(NewRequest)
  BY DEF IsRequest, RequestFields, NewRequest
<1>2. /\ NewRequest.pc = "idle" /\ NewRequest.answer = NoValue /\ NewRequest.mine = {}
      /\ NewRequest.found = {} /\ NewRequest.result = {} /\ NewRequest.signature = NoValue
  BY DEF NewRequest
<1>3. RequestsTyped /\ \A r \in Requests : req[r] = NewRequest
  BY <1>1 DEF HiringInit, RequestsTyped
<1> DEFINE sig == CHOOSE s \in Signatures : TRUE
           first == [status |-> "ACTIVE", signature |-> sig, versions |-> 1, by |-> NoValue,
                     archivedBy |-> {}]
<1>5. jobs = <<first>>
  BY DEF HiringInit
<1> HIDE DEF sig
<1>4. IsVacancy(first) /\ first.by = NoValue
  BY DEF IsVacancy, VacancyFields
<1> HIDE DEF first
<1>6. jobs \in Seq({first}) /\ DOMAIN jobs = {1} /\ jobs[1] = first
  BY <1>5
<1>7. VacanciesTyped
  BY <1>4, <1>6 DEF VacanciesTyped
<1>8. OneActive
  BY <1>6 DEF OneActive
<1>9. InsertsAlone
  BY <1>2, <1>3 DEF InsertsAlone
<1>10. AnswersTrue
  BY <1>2, <1>3, <1>4, <1>6, HiringAssumption DEF AnswersTrue
<1>11. evaluations = {} /\ profile = [c \in Candidates |-> IF c \in Unanalysed THEN 0 ELSE 1]
  BY DEF HiringInit
<1>12. ScoresInv
  BY <1>2, <1>3, <1>11 DEF ScoresInv, OneScore, NamedHeld, CandidatesTyped
<1> QED
  BY <1>3, <1>7, <1>8, <1>9, <1>10, <1>12 DEF HiringInv, VacancyInv

\* A request that only reads, waits or remembers.
LEMMA QuietRequest ==
    ASSUME HiringInv, NothingCommitted, NEW r \in Requests, NEW w, IsRequest(w), Becomes(r, w),
           req[r].pc # "done", w.pc \notin {"idle", "created", "deleting"},
           w.result = req[r].result, w.mine \subseteq req[r].mine,
           w.pc = "evaluate" => \A e \in w.found : e \in evaluations \cup w.mine \/ Deleted(e),
           w.answer # "created",
           w.answer = "duplicate" =>
               /\ w.pc = "done"
               /\ w.signature # NoValue =>
                     \E j \in DOMAIN jobs : jobs[j].by # r /\ jobs[j].signature = w.signature
    PROVE  HiringInv'
<1>1. RequestsTyped'
  BY RequestMoves DEF HiringInv
<1>2. VacancyInv'
  BY VacanciesStay DEF HiringInv, NothingCommitted
<1>3. ScoresInv'
  BY ScoresStay DEF HiringInv, NothingCommitted
<1> QED
  BY <1>1, <1>2, <1>3 DEF HiringInv

LEMMA QuietAnswer ==
    ASSUME HiringInv, NothingCommitted, NEW r \in Requests, NEW answer, Answers(r, answer),
           req[r].pc # "done", answer # "created",
           answer = "duplicate" /\ req[r].signature # NoValue =>
               \E j \in DOMAIN jobs : jobs[j].by # r /\ jobs[j].signature = req[r].signature
    PROVE  HiringInv'
<1>1. PICK w : /\ IsRequest(w) /\ w.pc = "done" /\ w.answer = answer /\ w.mine = {}
               /\ w.signature = req[r].signature /\ w.result = req[r].result
               /\ Becomes(r, w)
  BY AnsweredRequest DEF HiringInv
<1> QED
  BY <1>1, QuietRequest

LEMMA NoAnswerYet ==
    ASSUME HiringInv, NEW r \in Requests, req[r].pc # "done"
    PROVE  /\ IsRequest(req[r])
           /\ req[r].answer \notin {"created", "duplicate"}
           /\ ~ \E j \in DOMAIN jobs : jobs[j].by = r
           /\ req[r].pc = "idle" => /\ req[r].signature = NoValue
                                    /\ req[r].found = {}
BY DEF HiringInv, VacancyInv, AnswersTrue, RequestsTyped, NewRequest

LEMMA MovesQuietly ==
    ASSUME HiringInv, NothingCommitted, NEW r \in Requests, NEW pc, MovesTo(r, pc),
           req[r].pc # "done", pc \notin {"idle", "created", "deleting", "evaluate"}
    PROVE  HiringInv'
<1> DEFINE w == [req[r] EXCEPT !.pc = pc]
<1>1. IsRequest(req[r]) /\ req[r].answer \notin {"created", "duplicate"}
  BY NoAnswerYet
<1>2. IsRequest(w) /\ w.pc = pc /\ w.mine = req[r].mine /\ w.result = req[r].result
      /\ w.answer = req[r].answer
  BY <1>1 DEF IsRequest, RequestFields
<1>3. Becomes(r, w)
  BY DEF MovesTo
<1> HIDE DEF w
<1> QED
  BY <1>1, <1>2, <1>3, QuietRequest

LEMMA ArriveStep ==
    ASSUME HiringInv, NEW r \in Requests, Arrive(r)
    PROVE  HiringInv'
<1>1. req[r].pc = "idle" /\ NothingCommitted
  BY DEF Arrive, CreateChecked, CreateByMachine, AppendRead, ArchiveRead, RankStart, ScoreStart,
         DeleteLock
<1>2. /\ IsRequest(req[r]) /\ req[r].answer \notin {"created", "duplicate"}
      /\ req[r].signature = NoValue /\ req[r].found = {}
  BY <1>1, NoAnswerYet
<1>3. ASSUME NEW s, CreateChecked(r, s) PROVE HiringInv'
  <2>1. CASE Answers(r, "duplicate")
    BY <1>1, <1>2, <2>1, QuietAnswer
  <2>2. CASE Becomes(r, [req[r] EXCEPT !.pc = "create", !.signature = s])
    <3> DEFINE w == [req[r] EXCEPT !.pc = "create", !.signature = s]
    <3>1. IsRequest(w) /\ w.pc = "create" /\ w.mine = req[r].mine /\ w.result = req[r].result
          /\ w.answer = req[r].answer
      BY <1>2 DEF IsRequest, RequestFields
    <3>2. Becomes(r, w)
      BY <2>2
    <3> HIDE DEF w
    <3> QED
      BY <1>1, <1>2, <3>1, <3>2, QuietRequest
  <2> QED
    BY <1>3, <2>1, <2>2 DEF CreateChecked
<1>4. CASE CreateByMachine(r)
  BY <1>1, <1>4, MovesQuietly DEF CreateByMachine
<1>5. ASSUME NEW j, AppendRead(r, j) PROVE HiringInv'
  <2> DEFINE w == [req[r] EXCEPT !.pc = "append", !.job = j, !.version = jobs[j].versions + 1]
  <2>1. IsRequest(w) /\ w.pc = "append" /\ w.mine = req[r].mine /\ w.result = req[r].result
        /\ w.answer = req[r].answer
    BY <1>2 DEF IsRequest, RequestFields
  <2>2. Becomes(r, w)
    BY <1>5 DEF AppendRead
  <2> HIDE DEF w
  <2> QED
    BY <1>1, <1>2, <2>1, <2>2, QuietRequest
<1>6. ASSUME NEW j, ArchiveRead(r, j) PROVE HiringInv'
  <2>1. CASE Answers(r, "already_archived")
    BY <1>1, <2>1, QuietAnswer
  <2>2. CASE Becomes(r, [req[r] EXCEPT !.pc = "archive", !.job = j])
    <3> DEFINE w == [req[r] EXCEPT !.pc = "archive", !.job = j]
    <3>1. IsRequest(w) /\ w.pc = "archive" /\ w.mine = req[r].mine /\ w.result = req[r].result
          /\ w.answer = req[r].answer
      BY <1>2 DEF IsRequest, RequestFields
    <3>2. Becomes(r, w)
      BY <2>2
    <3> HIDE DEF w
    <3> QED
      BY <1>1, <1>2, <3>1, <3>2, QuietRequest
  <2> QED
    BY <1>6, <2>1, <2>2 DEF ArchiveRead
<1>7. ASSUME NEW j, NEW v, RankStart(r, j, v) PROVE HiringInv'
  <2>1. CASE Answers(r, "JOB_ARCHIVED")
    BY <1>1, <2>1, QuietAnswer
  <2>2. CASE Becomes(r, [req[r] EXCEPT !.pc = "evaluate", !.job = j, !.version = v, !.todo = Library])
    <3> DEFINE w == [req[r] EXCEPT !.pc = "evaluate", !.job = j, !.version = v, !.todo = Library]
    <3>1. IsRequest(w) /\ w.pc = "evaluate" /\ w.mine = req[r].mine /\ w.result = req[r].result
          /\ w.answer = req[r].answer /\ w.found = req[r].found
      BY <1>2 DEF IsRequest, RequestFields
    <3>2. Becomes(r, w)
      BY <2>2
    <3> HIDE DEF w
    <3> QED
      BY <1>1, <1>2, <3>1, <3>2, QuietRequest
  <2> QED
    BY <1>7, <2>1, <2>2 DEF RankStart
<1>8. ASSUME NEW c, NEW p, NEW j, NEW v, ScoreStart(r, c, p, j, v) PROVE HiringInv'
  <2>1. CASE Answers(r, "PROFILE_NOT_FOUND")
    BY <1>1, <2>1, QuietAnswer
  <2>2. CASE p \in 1..profile[c]
    <3> DEFINE w == [req[r] EXCEPT !.pc = "evaluate", !.job = j, !.version = v, !.single = TRUE,
                                   !.todo = <<<<c, p>>>>]
    <3>1. IsRequest(w) /\ w.pc = "evaluate" /\ w.mine = req[r].mine /\ w.result = req[r].result
          /\ w.answer = req[r].answer /\ w.found = req[r].found
      BY <1>2 DEF IsRequest, RequestFields
    <3>2. Becomes(r, w)
      BY <1>8, <2>2 DEF ScoreStart
    <3> HIDE DEF w
    <3> QED
      BY <1>1, <1>2, <3>1, <3>2, QuietRequest
  <2> QED
    BY <1>8, <2>1, <2>2 DEF ScoreStart
<1>9. ASSUME NEW c \in Candidates, DeleteLock(r, c) PROVE HiringInv'
  <2> DEFINE w == [req[r] EXCEPT !.pc = "deleting", !.todo = <<<<c, profile[c]>>>>]
  <2>1. IsRequest(w) /\ w.pc = "deleting" /\ w.mine = req[r].mine /\ w.result = req[r].result
        /\ w.answer = req[r].answer /\ w.todo[1][1] = c
    BY <1>2 DEF IsRequest, RequestFields
  <2>2. Becomes(r, w)
    BY <1>9 DEF DeleteLock
  <2> HIDE DEF w
  <2>3. RequestsTyped'
    BY <2>1, <2>2, RequestMoves DEF HiringInv
  <2>4. VacancyInv'
    BY <1>1, <1>2, <2>1, <2>2, VacanciesStay DEF HiringInv, NothingCommitted
  <2>5. ScoresInv'
    BY <1>1, <1>2, <2>1, <2>2, ScoresStay DEF HiringInv, NothingCommitted
  <2> QED
    BY <2>3, <2>4, <2>5 DEF HiringInv
<1> QED
  BY <1>3, <1>4, <1>5, <1>6, <1>7, <1>8, <1>9 DEF Arrive

LEMMA CreateInsertStep ==
    ASSUME HiringInv, NEW r \in Requests, CreateInsert(r)
    PROVE  HiringInv'
<1>1. req[r].pc = "create" /\ NothingCommitted /\ ~InsertBlocked(r, req[r].signature)
  BY DEF CreateInsert
<1>2. /\ IsRequest(req[r]) /\ req[r].answer \notin {"created", "duplicate"}
      /\ ~ \E j \in DOMAIN jobs : jobs[j].by = r
  BY <1>1, NoAnswerYet
<1>3. CASE RefusedByIndex(req[r].signature)
  <2>1. Answers(r, "duplicate")
    BY <1>3 DEF CreateInsert
  <2>2. \E j \in DOMAIN jobs : jobs[j].by # r /\ jobs[j].signature = req[r].signature
    BY <1>2, <1>3 DEF RefusedByIndex, ActiveDuplicate
  <2> QED
    BY <1>1, <2>1, <2>2, QuietAnswer
<1>4. CASE ~RefusedByIndex(req[r].signature)
  <2> DEFINE w == [req[r] EXCEPT !.pc = "created"]
  <2>1. IsRequest(w) /\ w.pc = "created" /\ w.mine = req[r].mine /\ w.result = req[r].result
        /\ w.answer = req[r].answer /\ w.signature = req[r].signature
    BY <1>2 DEF IsRequest, RequestFields
  <2>2. Becomes(r, w)
    BY <1>4 DEF CreateInsert, MovesTo
  <2> HIDE DEF w
  <2>3. RequestsTyped'
    BY <2>1, <2>2, RequestMoves DEF HiringInv
  <2>4. w.signature # NoValue =>
            /\ ~ActiveDuplicate(w.signature)
            /\ \A o \in Others(r, "created") : req[o].signature # w.signature
    BY <1>1, <1>4, <2>1 DEF RefusedByIndex, InsertBlocked
  <2>5. VacancyInv'
    BY <1>1, <1>2, <2>1, <2>2, <2>4, VacanciesStay DEF HiringInv, NothingCommitted
  <2>6. ScoresInv'
    BY <1>1, <1>2, <2>1, <2>2, ScoresStay DEF HiringInv, NothingCommitted
  <2> QED
    BY <2>3, <2>5, <2>6 DEF HiringInv
<1> QED
  BY <1>3, <1>4

LEMMA ReuseStep ==
    ASSUME HiringInv, NEW r \in Requests, Reuse(r)
    PROVE  HiringInv'
<1>1. req[r].pc = "evaluate" /\ NothingCommitted
  BY DEF Reuse
<1>2. IsRequest(req[r]) /\ req[r].answer \notin {"created", "duplicate"}
  BY <1>1, NoAnswerYet
<1>3. PICK e \in Visible(r) : Becomes(r, [req[r] EXCEPT !.todo = Tail(@), !.found = @ \cup {e}])
  BY DEF Reuse
<1> DEFINE w == [req[r] EXCEPT !.todo = Tail(@), !.found = @ \cup {e}]
<1>4. IsRequest(w) /\ w.pc = "evaluate" /\ w.mine = req[r].mine /\ w.result = req[r].result
      /\ w.answer = req[r].answer /\ w.found = req[r].found \cup {e}
  BY <1>1, <1>2 DEF IsRequest, RequestFields
<1>5. Becomes(r, w)
  BY <1>3
<1> HIDE DEF w
<1>6. \A f \in w.found : f \in evaluations \cup w.mine \/ Deleted(f)
  BY <1>1, <1>4 DEF HiringInv, ScoresInv, NamedHeld, Visible
<1> QED
  BY <1>1, <1>2, <1>4, <1>5, <1>6, QuietRequest

\* What a commit of the vacancies leaves of the evaluations.
LEMMA AnswerKeepsScores ==
    ASSUME HiringInv, UNCHANGED <<profile, evaluations>>, NEW r \in Requests, NEW answer,
           Answers(r, answer)
    PROVE  RequestsTyped' /\ ScoresInv'
<1>1. PICK w : /\ IsRequest(w) /\ w.pc = "done" /\ w.mine = {} /\ w.result = req[r].result
               /\ Becomes(r, w)
  BY AnsweredRequest DEF HiringInv
<1>2. RequestsTyped'
  BY <1>1, RequestMoves DEF HiringInv
<1>3. ScoresInv'
  BY <1>1, ScoresStay DEF HiringInv
<1> QED
  BY <1>2, <1>3

LEMMA WorkStep ==
    ASSUME HiringInv, NEW r \in Requests, Work(r)
    PROVE  HiringInv'
<1>1. CASE CreateInsert(r)
  BY <1>1, CreateInsertStep
<1>2. CASE CreateCommit(r)
  <2>1. VacancyInv'
    BY <1>2, CreateVacancy DEF HiringInv
  <2> QED
    BY <1>2, <2>1, AnswerKeepsScores DEF CreateCommit, HiringInv
<1>3. CASE AppendInsert(r)
  <2>1. req[r].pc = "append" /\ NothingCommitted
    BY <1>3 DEF AppendInsert
  <2>2. CASE Answers(r, "error")
    BY <2>1, <2>2, QuietAnswer
  <2>3. CASE MovesTo(r, "appended")
    BY <2>1, <2>3, MovesQuietly
  <2> QED
    BY <1>3, <2>2, <2>3 DEF AppendInsert
<1>4. CASE AppendCommit(r)
  <2>1. VacancyInv'
    BY <1>4, AppendVersion DEF HiringInv
  <2> QED
    BY <1>4, <2>1, AnswerKeepsScores DEF AppendCommit, HiringInv
<1>5. CASE ArchiveUpdate(r)
  BY <1>5, MovesQuietly DEF ArchiveUpdate
<1>6. CASE ArchiveCommit(r)
  <2>1. VacancyInv'
    BY <1>6, ArchiveVacancy DEF HiringInv
  <2> QED
    BY <1>6, <2>1, AnswerKeepsScores DEF ArchiveCommit, HiringInv
<1>7. CASE Reuse(r)
  BY <1>7, ReuseStep
<1>8. CASE Insert(r)
  <2>1. req[r].pc = "evaluate" /\ NothingCommitted
    BY <1>8 DEF Insert
  <2>2. PICK w : /\ IsRequest(w) /\ Becomes(r, w) /\ w.pc = "evaluate"
                 /\ w.answer = req[r].answer /\ w.signature = req[r].signature
    BY <1>8, InsertScore DEF HiringInv
  <2>3. ScoresInv'
    BY <1>8, InsertScore DEF HiringInv
  <2>4. req[r].answer \notin {"created", "duplicate"}
    BY <2>1, NoAnswerYet
  <2>5. VacancyInv'
    BY <2>1, <2>2, <2>4, VacanciesStay DEF HiringInv, NothingCommitted
  <2>6. RequestsTyped'
    BY <2>2, RequestMoves DEF HiringInv
  <2> QED
    BY <2>3, <2>5, <2>6 DEF HiringInv
<1>9. CASE CandidateGone(r)
  BY <1>9, QuietAnswer DEF CandidateGone
<1>10. CASE EvaluateCommit(r)
  <2>1. req[r].pc = "evaluate" /\ UNCHANGED jobs
    BY <1>10 DEF EvaluateCommit
  <2>2. PICK w : IsRequest(w) /\ Becomes(r, w) /\ w.pc = "done" /\ w.answer \notin {"created", "duplicate"}
    BY <1>10, CommitScores DEF HiringInv
  <2>3. ScoresInv'
    BY <1>10, CommitScores DEF HiringInv
  <2>4. VacancyInv'
    BY <2>1, <2>2, VacanciesStay DEF HiringInv
  <2>5. RequestsTyped'
    BY <2>2, RequestMoves DEF HiringInv
  <2> QED
    BY <2>3, <2>4, <2>5 DEF HiringInv
<1>11. CASE DeleteCommit(r)
  <2>1. req[r].pc = "deleting" /\ UNCHANGED jobs /\ Answers(r, "deleted")
    BY <1>11 DEF DeleteCommit
  <2>2. PICK w : IsRequest(w) /\ Becomes(r, w) /\ w.pc = "done" /\ w.answer = "deleted"
    BY <2>1, AnsweredRequest DEF HiringInv
  <2>3. ScoresInv'
    BY <1>11, DeleteScores DEF HiringInv
  <2>4. VacancyInv'
    BY <2>1, <2>2, VacanciesStay DEF HiringInv
  <2>5. RequestsTyped'
    BY <2>2, RequestMoves DEF HiringInv
  <2> QED
    BY <2>3, <2>4, <2>5 DEF HiringInv
<1> QED
  BY <1>1, <1>2, <1>3, <1>4, <1>5, <1>6, <1>7, <1>8, <1>9, <1>10, <1>11 DEF Work

LEMMA HiringStep == HiringInv /\ [HiringNext]_hiringVars => HiringInv'
<1> SUFFICES ASSUME HiringInv, [HiringNext]_hiringVars PROVE HiringInv'
  OBVIOUS
<1>1. ASSUME NEW r \in Requests, Arrive(r) PROVE HiringInv'
  BY <1>1, ArriveStep
<1>2. ASSUME NEW r \in Requests, Work(r) PROVE HiringInv'
  BY <1>2, WorkStep
<1>3. ASSUME NEW r \in Requests, Fail(r) PROVE HiringInv'
  BY <1>3, QuietAnswer DEF Fail
<1>4. ASSUME NEW c \in Candidates, Analysed(c) PROVE HiringInv'
  <2>1. ScoresInv'
    BY <1>4, AnalysedScores DEF HiringInv
  <2>2. UNCHANGED <<jobs, req>>
    BY <1>4 DEF Analysed
  <2>3. RequestsTyped' /\ VacancyInv'
    BY <2>2 DEF HiringInv, RequestsTyped, VacancyInv, VacanciesTyped, OneActive, InsertsAlone,
                AnswersTrue, ActiveDuplicate, Others
  <2> QED
    BY <2>1, <2>3 DEF HiringInv
<1>5. CASE UNCHANGED hiringVars
  BY <1>5 DEF hiringVars, HiringInv, RequestsTyped, VacancyInv, VacanciesTyped, OneActive,
              InsertsAlone, AnswersTrue, ActiveDuplicate, Others, ScoresInv, OneScore,
              SameProvenance, NamedHeld, CandidatesTyped, Visible, Deleted
<1> QED
  BY <1>1, <1>2, <1>3, <1>4, <1>5 DEF HiringNext

LEMMA HiringInvariant == HiringSpec => []HiringInv
BY HiringInitInv, HiringStep, PTL DEF HiringSpec

\* VacancyOnce: whatever confirmations, machine requests, archives and failures
\* overlap, one signature has at most one active vacancy, exactly the requests
\* that are told "created" have created one, and one that is told "duplicate" of
\* its vacancy can point at that of somebody else.
THEOREM VacanciesCreatedOnce == HiringSpec => []VacancyOnce
<1>1. HiringInv => VacancyOnce
  BY DEF HiringInv, VacancyInv, VacanciesTyped, IsVacancy, OneActive, AnswersTrue, VacancyOnce
<1> QED
  BY HiringInvariant, <1>1, PTL

\* AnswersAgree: rankings, scorings, deletions and new analyses may overlap in
\* any way, and still one provenance has one evaluation, and what an answer
\* names is in the table unless its candidate was deleted.
THEOREM AnswersAlwaysAgree == HiringSpec => []AnswersAgree
<1>1. HiringInv => AnswersAgree
  BY DEF HiringInv, ScoresInv, OneScore, NamedHeld, Deleted, AnswersAgree
<1> QED
  BY HiringInvariant, <1>1, PTL

-----------------------------------------------------------------------------
(* Sets in order.                                                          *)

\* R puts every two members of S in one order.
Orders(R, S) ==
    /\ \A x \in S : <<x, x>> \notin R
    /\ \A x, y, z \in S : <<x, y>> \in R /\ <<y, z>> \in R => <<x, z>> \in R
    /\ \A x, y \in S : x # y => <<x, y>> \in R \/ <<y, x>> \in R

\* What comes first has fewer before it, and no member has all the others and
\* itself before it.
LEMMA PrecedingCounts ==
    ASSUME NEW S, NEW R, IsFiniteSet(S), Orders(R, S)
    PROVE  /\ \A x \in S : Cardinality(Preceding(x, S, R)) \in 0..(Cardinality(S) - 1)
           /\ \A x, y \in S : <<x, y>> \in R =>
                 Cardinality(Preceding(x, S, R)) < Cardinality(Preceding(y, S, R))
<1>1. \A x \in S : Preceding(x, S, R) \subseteq S \ {x}
  BY DEF Preceding, Orders
<1>2. ASSUME NEW x \in S
      PROVE  /\ IsFiniteSet(Preceding(x, S, R))
             /\ Cardinality(Preceding(x, S, R)) \in 0..(Cardinality(S) - 1)
  <2>1. IsFiniteSet(S \ {x}) /\ Cardinality(S \ {x}) = Cardinality(S) - 1
    BY FS_RemoveElement
  <2>2. IsFiniteSet(Preceding(x, S, R)) /\ Cardinality(Preceding(x, S, R)) <= Cardinality(S \ {x})
    BY <1>1, <2>1, FS_Subset
  <2>3. Cardinality(Preceding(x, S, R)) \in Nat /\ Cardinality(S) \in Nat
    BY <2>2, FS_CardinalityType
  <2> QED
    BY <2>1, <2>2, <2>3
<1>3. ASSUME NEW x \in S, NEW y \in S, <<x, y>> \in R
      PROVE  Cardinality(Preceding(x, S, R)) < Cardinality(Preceding(y, S, R))
  <2>1. Preceding(x, S, R) \subseteq Preceding(y, S, R) \ {x}
    BY <1>3 DEF Preceding, Orders
  <2>2. x \in Preceding(y, S, R)
    BY <1>3 DEF Preceding
  <2>3. /\ IsFiniteSet(Preceding(y, S, R) \ {x})
        /\ Cardinality(Preceding(y, S, R) \ {x}) = Cardinality(Preceding(y, S, R)) - 1
    BY <1>2, <2>2, FS_RemoveElement
  <2>4. Cardinality(Preceding(x, S, R)) <= Cardinality(Preceding(y, S, R) \ {x})
    BY <2>1, <2>3, FS_Subset
  <2>5. Cardinality(Preceding(x, S, R)) \in Nat /\ Cardinality(Preceding(y, S, R)) \in Nat
    BY <1>2, FS_CardinalityType
  <2> QED
    BY <2>3, <2>4, <2>5
<1> QED
  BY <1>2, <1>3

\* InOrder lists every member of a finite set once, each after those before it:
\* the counts are different, so that they are all the numbers there are.
LEMMA OrderedOnce ==
    ASSUME NEW S, NEW R, IsFiniteSet(S), Orders(R, S)
    PROVE  /\ Cardinality(S) \in Nat
           /\ InOrder(S, R) \in [1..Cardinality(S) -> S]
           /\ \A x \in S : \E k \in 1..Cardinality(S) : InOrder(S, R)[k] = x
           /\ \A i, j \in 1..Cardinality(S) :
                i < j => <<InOrder(S, R)[i], InOrder(S, R)[j]>> \in R
<1> DEFINE n == Cardinality(S)
           place == [x \in S |-> Cardinality(Preceding(x, S, R)) + 1]
<1>1. n \in Nat
  BY FS_CardinalityType
<1>2. /\ \A x \in S : Cardinality(Preceding(x, S, R)) \in 0..(n - 1)
      /\ \A x, y \in S : <<x, y>> \in R =>
            Cardinality(Preceding(x, S, R)) < Cardinality(Preceding(y, S, R))
  BY PrecedingCounts
<1>3. place \in [S -> 1..n]
  BY <1>1, <1>2
<1>4. \A x, y \in S : <<x, y>> \in R => place[x] < place[y]
  BY <1>2
<1>5. \A x, y \in S : place[x] = place[y] => x = y
  <2> SUFFICES ASSUME NEW x \in S, NEW y \in S, place[x] = place[y], x # y PROVE FALSE
    OBVIOUS
  <2>1. place[x] < place[y] \/ place[y] < place[x]
    BY <1>4 DEF Orders
  <2>2. place[x] \in Nat /\ place[y] \in Nat
    BY <1>1, <1>3
  <2> QED
    BY <2>1, <2>2
<1>6. \A k \in 1..n : \E x \in S : place[x] = k
  <2>1. place \in Injection(S, 1..n)
    BY <1>3, <1>5 DEF Injection, IsInjective
  <2>2. IsFiniteSet(1..n) /\ Cardinality(1..n) = n
    <3>1. 1 \in Int /\ n \in Int
      BY <1>1
    <3>2. IsFiniteSet(1..n) /\ Cardinality(1..n) = IF 1 > n THEN 0 ELSE n - 1 + 1
      BY <3>1, FS_Interval
    <3> QED
      BY <1>1, <3>2
  <2>3. place \in Surjection(S, 1..n)
    BY <2>1, <2>2, FS_Injection
  <2> QED
    BY <2>3 DEF Surjection
<1> DEFINE list == InOrder(S, R)
<1>7. \A k \in 1..n : list[k] \in S /\ place[list[k]] = k
  <2> SUFFICES ASSUME NEW k \in 1..n PROVE list[k] \in S /\ place[list[k]] = k
    OBVIOUS
  <2>1. PICK x \in S : place[x] = k
    BY <1>6
  <2>2. Cardinality(Preceding(x, S, R)) = k - 1
    BY <1>1, <1>2, <2>1
  <2>3. list[k] = CHOOSE y \in S : Cardinality(Preceding(y, S, R)) = k - 1
    BY DEF InOrder
  <2>4. list[k] \in S /\ Cardinality(Preceding(list[k], S, R)) = k - 1
    BY <2>2, <2>3
  <2> QED
    BY <1>1, <2>4
<1>8. list \in [1..n -> S]
  <2>1. DOMAIN list = 1..n /\ list = [k \in 1..n |-> list[k]]
    BY DEF InOrder
  <2> QED
    BY <1>7, <2>1
<1>9. \A x \in S : \E k \in 1..n : list[k] = x
  BY <1>3, <1>5, <1>7
<1>10. \A i, j \in 1..n : i < j => <<list[i], list[j]>> \in R
  <2> SUFFICES ASSUME NEW i \in 1..n, NEW j \in 1..n, i < j PROVE <<list[i], list[j]>> \in R
    OBVIOUS
  <2>1. list[i] \in S /\ list[j] \in S /\ place[list[i]] = i /\ place[list[j]] = j
    BY <1>7
  <2>2. list[i] # list[j]
    BY <1>1, <2>1
  <2>3. ~(<<list[j], list[i]>> \in R)
    BY <1>1, <1>4, <2>1
  <2> QED
    BY <2>1, <2>2, <2>3 DEF Orders
<1> HIDE DEF n, place, list
<1> QED
  BY <1>1, <1>8, <1>9, <1>10 DEF n, list

-----------------------------------------------------------------------------
(* Searches.                                                               *)

\* The values of a function on a finite set are finitely many.
LEMMA ImageFinite ==
    ASSUME NEW S, IsFiniteSet(S), NEW f, DOMAIN f = S
    PROVE  IsFiniteSet({f[x] : x \in S})
<1> DEFINE T == {f[x] : x \in S}
           g == [x \in S |-> f[x]]
<1>1. g \in Surjection(S, T)
  BY DEF Surjection
<1> QED
  BY <1>1, FS_Surjection

LEMMA FewConditions ==
    ASSUME NEW f, FiniteFilters(f)
    PROVE  IsFiniteSet(Conditions(f)) /\ Cardinality(Conditions(f)) \in Nat
<1>1. IsFiniteSet({<<"term", t, 0>> : t \in f.terms})
  <2> DEFINE g == [t \in f.terms |-> <<"term", t, 0>>]
  <2>1. IsFiniteSet({g[t] : t \in f.terms})
    BY ImageFinite DEF FiniteFilters
  <2> QED
    BY <2>1
<1>2. IsFiniteSet({<<"timed", x[1], x[2]>> : x \in f.timed})
  <2> DEFINE g == [x \in f.timed |-> <<"timed", x[1], x[2]>>]
  <2>1. IsFiniteSet({g[x] : x \in f.timed})
    BY ImageFinite DEF FiniteFilters
  <2> QED
    BY <2>1
<1>3. IsFiniteSet({<<"total", Absent, y>> : y \in f.totals})
  <2> DEFINE g == [y \in f.totals |-> <<"total", Absent, y>>]
  <2>1. IsFiniteSet({g[y] : y \in f.totals})
    BY ImageFinite DEF FiniteFilters
  <2> QED
    BY <2>1
<1>4. IsFiniteSet(Conditions(f))
  BY <1>1, <1>2, <1>3, FS_Union DEF Conditions
<1> QED
  BY <1>4, FS_CardinalityType

\* The filters of finitely many requirements.
LEMMA FewFilters ==
    ASSUME NEW items, IsFiniteSet(items)
    PROVE  FiniteFilters(Filters(items))
<1> DEFINE terms == {x \in items : x.kind = "term"}
           timed == {x \in items : x.kind = "timed"}
           totals == {x \in items : x.kind = "total"}
<1>1. IsFiniteSet(terms) /\ IsFiniteSet(timed) /\ IsFiniteSet(totals)
  BY FS_Subset
<1> HIDE DEF terms, timed, totals
<1>2. IsFiniteSet({r.subject : r \in terms})
  <2> DEFINE g == [r \in terms |-> r.subject]
  <2>1. IsFiniteSet({g[r] : r \in terms})
    BY <1>1, ImageFinite
  <2> QED
    BY <2>1
<1>3. IsFiniteSet({<<r.subject, r.years>> : r \in timed})
  <2> DEFINE g == [r \in timed |-> <<r.subject, r.years>>]
  <2>1. IsFiniteSet({g[r] : r \in timed})
    BY <1>1, ImageFinite
  <2> QED
    BY <2>1
<1>4. IsFiniteSet({r.years : r \in totals})
  <2> DEFINE g == [r \in totals |-> r.years]
  <2>1. IsFiniteSet({g[r] : r \in totals})
    BY <1>1, ImageFinite
  <2> QED
    BY <2>1
<1> QED
  BY <1>2, <1>3, <1>4 DEF FiniteFilters, Filters, terms, timed, totals

LEMMA MembersFew ==
    ASSUME NEW s, IsFiniteSet(DOMAIN s)
    PROVE  IsFiniteSet(ToSet(s))
BY ImageFinite DEF ToSet

\* What the planner hands to the search keeps every requirement it can score,
\* looks for something and shows at least one.
Executable(p) ==
    /\ Complete(p)
    /\ FiniteFilters(p.required) /\ FiniteFilters(p.preferred)
    /\ p.mode \in {"STRUCTURED_ONLY", "SEMANTIC_ONLY", "HYBRID"}
    /\ p.limit \in Nat \ {0}

\* A requirement that is preserved is a condition of the search.
LEMMA PreservedIsCondition ==
    ASSUME NEW r, NEW p, Preserved(r, p)
    PROVE  /\ r.type \in {"MUST_HAVE", "PREFERRED"}
           /\ Conditions(Filters({r})) # {}
           /\ r.type = "MUST_HAVE" => Conditions(Filters({r})) \subseteq Conditions(p.required)
           /\ r.type = "PREFERRED" => Conditions(Filters({r})) \subseteq Conditions(p.preferred)
<1> DEFINE f == IF r.type = "MUST_HAVE" THEN p.required ELSE p.preferred
<1>1. r.type \in {"MUST_HAVE", "PREFERRED"}
  BY DEF Preserved
<1>2. CASE r.kind = "term"
  <2>1. r.subject \in f.terms
    BY <1>2 DEF Preserved
  <2>2. Conditions(Filters({r})) = {<<"term", r.subject, 0>>}
    BY <1>2 DEF Conditions, Filters
  <2> QED
    BY <1>1, <2>1, <2>2 DEF Conditions
<1>3. CASE r.kind = "timed"
  <2>1. <<r.subject, r.years>> \in f.timed
    BY <1>3 DEF Preserved
  <2>2. Conditions(Filters({r})) = {<<"timed", r.subject, r.years>>}
    <3>1. /\ Filters({r}).terms = {} /\ Filters({r}).totals = {}
          /\ Filters({r}).timed = {<<r.subject, r.years>>}
      BY <1>3 DEF Filters
    <3>2. \A g : g.terms = {} /\ g.totals = {} /\ g.timed = {<<r.subject, r.years>>} =>
                   Conditions(g) = {<<"timed", r.subject, r.years>>}
      BY DEF Conditions
    <3> QED
      BY <3>1, <3>2
  <2>3. \A g : <<r.subject, r.years>> \in g.timed =>
                 <<"timed", r.subject, r.years>> \in Conditions(g)
    BY DEF Conditions
  <2> QED
    BY <1>1, <2>1, <2>2, <2>3
<1>4. CASE r.kind = "total"
  <2>1. r.years \in f.totals
    BY <1>4 DEF Preserved
  <2>2. Conditions(Filters({r})) = {<<"total", Absent, r.years>>}
    BY <1>4 DEF Conditions, Filters
  <2> QED
    BY <1>1, <2>1, <2>2 DEF Conditions
<1> QED
  BY <1>2, <1>3, <1>4 DEF Preserved

LEMMA SearchFields ==
    ASSUME NEW required, NEW preferred, NEW query, NEW limit
    PROVE  LET p == Search(required, preferred, query, limit) IN
           /\ p.required = required /\ p.preferred = preferred
           /\ p.mode = Mode(required, preferred, query) /\ p.limit = limit
BY DEF Search

LEMMA Modes ==
    ASSUME NEW required, NEW preferred, NEW query
    PROVE  /\ Mode(required, preferred, query) # Absent =>
                Mode(required, preferred, query) \in {"STRUCTURED_ONLY", "SEMANTIC_ONLY", "HYBRID"}
           /\ query = Absent /\ (HasFilters(required) \/ HasFilters(preferred)) =>
                Mode(required, preferred, query) = "STRUCTURED_ONLY"
BY DEF Mode

\* A check that refuses a draft says why; a draft that passes them all has a
\* mode.
LEMMA DraftChecks ==
    ASSUME NEW d
    PROVE  /\ DraftRefusal(d) # "EXECUTABLE" \/ DraftRefusal(d) = Absent
           /\ DraftRefusal(d) = Absent => Mode(d.required, d.preferred, d.query) # Absent
<1> DEFINE mode == IF Mode(d.required, d.preferred, d.query) = Absent
                   THEN "AMBIGUOUS_REQUEST" ELSE Absent
           checks == <<ProtectedRefusal(d), QueryRefusal(d), FilterRefusal(d),
                       ExperienceRefusal(d), LimitRefusal(d), mode>>
           failed == {i \in DOMAIN checks : checks[i] # Absent}
           first == IF failed = {} THEN Absent ELSE checks[Min(failed)]
           Reasons == {Absent, "VALIDATION_FAILURE", "UNSUPPORTED_SEMANTICS",
                       "PROHIBITED_REQUEST", "AMBIGUOUS_REQUEST"}
<1>1. \/ DraftRefusal(d) \in {"VALIDATION_FAILURE", "UNSUPPORTED_SEMANTICS"}
      \/ DraftRefusal(d) = first
  BY DEF DraftRefusal
<1>2. failed # {} => Min(failed) \in failed
  <2> SUFFICES ASSUME failed # {} PROVE Min(failed) \in failed
    OBVIOUS
  <2>1. failed \in SUBSET Nat
    OBVIOUS
  <2>2. \E i \in failed : \A j \in failed : i <= j
    BY <2>1, LeastNatural
  <2> HIDE DEF failed
  <2> QED
    BY <2>2 DEF Min
<1>3. checks[6] = mode /\ 6 \in DOMAIN checks
  OBVIOUS
<1>4. \A i \in DOMAIN checks : checks[i] \in Reasons
  <2>1. ProtectedRefusal(d) \in Reasons
    BY DEF ProtectedRefusal
  <2>2. QueryRefusal(d) \in Reasons
    BY DEF QueryRefusal
  <2>3. FilterRefusal(d) \in Reasons
    BY DEF FilterRefusal
  <2>4. ExperienceRefusal(d) \in Reasons
    BY DEF ExperienceRefusal
  <2>5. LimitRefusal(d) \in Reasons
    BY DEF LimitRefusal
  <2> QED
    BY <2>1, <2>2, <2>3, <2>4, <2>5
<1>5. first \in Reasons
  <2> HIDE DEF checks
  <2> QED
    BY <1>2, <1>4
<1>6. first = Absent => mode = Absent
  <2>1. failed # {} => checks[Min(failed)] # Absent
    BY <1>2
  <2> HIDE DEF mode, checks
  <2> QED
    BY <1>3, <2>1
<1> HIDE DEF checks, failed, first
<1> QED
  BY <1>1, <1>5, <1>6, SearchAssumption

\* A draft that passes and keeps everything converts to a search that can run.
LEMMA ConvertedIsExecutable ==
    ASSUME NEW d, DraftRefusal(d) = Absent, Complete(Converted(d)),
           FiniteFilters(d.required), FiniteFilters(d.preferred),
           d.limit = Absent \/ d.limit \in Nat \ {0}
    PROVE  Executable(Converted(d))
<1>1. Mode(d.required, d.preferred, d.query) \in {"STRUCTURED_ONLY", "SEMANTIC_ONLY", "HYBRID"}
  BY DraftChecks, Modes
<1>2. /\ Converted(d).required = d.required /\ Converted(d).preferred = d.preferred
      /\ Converted(d).mode = Mode(d.required, d.preferred, d.query)
      /\ Converted(d).limit = IF d.limit = Absent THEN DefaultLimit ELSE d.limit
  BY SearchFields DEF Converted
<1>3. Converted(d).limit \in Nat \ {0}
  BY <1>2, SearchAssumption
<1> QED
  BY <1>1, <1>2, <1>3 DEF Executable

LEMMA SentencesAreExecutable ==
    ASSUME request \in Texts, ParsedPlan
    PROVE  Executable(Converted(SentenceDraft))
<1>1. IsFiniteSet(ToSet(request.clauses))
  BY MembersFew, SearchAssumption
<1>2. FiniteFilters(Filters(ToSet(request.clauses)))
  BY <1>1, FewFilters
<1>3. /\ FiniteFilters(SentenceDraft.required) /\ FiniteFilters(SentenceDraft.preferred)
      /\ SentenceDraft.limit = Absent
  BY <1>2, FS_EmptySet DEF SentenceDraft, NoFilters, FiniteFilters
<1> QED
  BY <1>3, ConvertedIsExecutable DEF ParsedPlan

LEMMA GatheredIsFinite ==
    ASSUME request \in Texts, NEW type
    PROVE  FiniteFilters(Gathered(type))
<1>1. IsFiniteSet(Requirements)
  BY MembersFew, SearchAssumption DEF Requirements
<1>2. IsFiniteSet({r \in Requirements : r.type = type /\ r.kind # "total"})
  BY <1>1, FS_Subset
<1>3. IsFiniteSet(LastTotal(type))
  BY FS_EmptySet, FS_Singleton DEF LastTotal
<1>4. IsFiniteSet({r \in Requirements : r.type = type /\ r.kind # "total"} \cup LastTotal(type))
  BY <1>2, <1>3, FS_Union
<1> QED
  BY <1>4, FewFilters DEF Gathered

LEMMA RulesAreExecutable ==
    ASSUME request \in Texts, AllScorable, NEW p,
           p = Search(Gathered("MUST_HAVE"), Gathered("PREFERRED"), Absent, request.count),
           Complete(p)
    PROVE  Executable(p)
<1>1. /\ p.required = Gathered("MUST_HAVE") /\ p.preferred = Gathered("PREFERRED")
      /\ p.mode = Mode(p.required, p.preferred, Absent) /\ p.limit = request.count
  BY SearchFields
<1>2. PICK r \in Requirements : Preserved(r, p)
  BY DEF AllScorable, Complete
<1>3. HasFilters(p.required) \/ HasFilters(p.preferred)
  BY <1>2, PreservedIsCondition DEF HasFilters
<1>4. p.mode = "STRUCTURED_ONLY"
  BY <1>1, <1>3, Modes
<1> QED
  BY <1>1, <1>4, GatheredIsFinite, SearchAssumption DEF Executable

-----------------------------------------------------------------------------
\* What the search read: profiles of candidates, each meeting what is required.
EligibleHold ==
    /\ DOMAIN eligible \subseteq CandidateIds
    /\ \A c \in DOMAIN eligible :
          eligible[c].content \in Profiles /\ Satisfies(eligible[c].content, searchRequest.required)

\* Scores are numbers, so that every two candidates are in one order.
LEMMA AheadOrders ==
    ASSUME Executable(searchRequest), EligibleHold, NEW S \in SUBSET (DOMAIN eligible)
    PROVE  Orders({x \in S \X S : Ahead(x[1], x[2], searchRequest)}, S)
<1> DEFINE p == searchRequest
<1>1. ASSUME NEW c \in S PROVE Score(c, p) \in Int
  <2> DEFINE met == Met(eligible[c].content, p.preferred)
  <2>1. /\ IsFiniteSet(Conditions(p.preferred)) /\ Cardinality(Conditions(p.preferred)) \in Nat
    BY FewConditions DEF Executable
  <2>2. met \subseteq Conditions(p.preferred)
    BY DEF Met
  <2>3. Cardinality(met) \in Nat
    BY <2>1, <2>2, FS_Subset, FS_CardinalityType
  <2>4. eligible[c].content.fit \in Nat /\ BestFit \in Nat
    BY SearchAssumption DEF EligibleHold
  <2> DEFINE total == Cardinality(Conditions(p.preferred))
             structured == Cardinality(met) * BestFit
             semantic == eligible[c].content.fit * (IF total = 0 THEN 1 ELSE total)
  <2>5. structured \in Nat
    <3> DEFINE k == Cardinality(met)
    <3>1. k \in Nat
      BY <2>3
    <3> HIDE DEF k
    <3>2. k * BestFit \in Nat
      BY <2>4, <3>1
    <3> QED
      BY <3>2 DEF k
  <2>6. semantic \in Nat
    <3> DEFINE k == eligible[c].content.fit
               t == IF total = 0 THEN 1 ELSE total
    <3>1. k \in Nat /\ t \in Nat
      BY <2>1, <2>4
    <3> HIDE DEF k, t
    <3>2. k * t \in Nat
      BY <3>1
    <3> QED
      BY <3>2 DEF k, t
  <2>7. Score(c, p) = CASE p.mode = "STRUCTURED_ONLY" -> structured
                        [] p.mode = "SEMANTIC_ONLY"   -> semantic
                        [] p.mode = "HYBRID"          -> structured + semantic
    BY DEF Score
  <2> HIDE DEF structured, semantic
  <2> QED
    BY <2>5, <2>6, <2>7 DEF Executable
<1>2. \A c \in S : c \in Nat
  BY SearchAssumption DEF EligibleHold
<1>3. \A a, b \in S : <<a, b>> \in {x \in S \X S : Ahead(x[1], x[2], p)} <=>
        \/ Score(a, p) > Score(b, p)
        \/ Score(a, p) = Score(b, p) /\ a < b
  BY DEF Ahead
<1> HIDE DEF p
<1> DEFINE R == {x \in S \X S : Ahead(x[1], x[2], p)}
<1>4. Orders(R, S)
  <2> HIDE DEF R
  <2>1. \A a, b \in S : <<a, b>> \in R <=>
          \/ Score(a, p) > Score(b, p)
          \/ Score(a, p) = Score(b, p) /\ a < b
    BY <1>3 DEF R
  <2>2. \A x \in S : <<x, x>> \notin R
    BY <1>1, <1>2, <2>1
  <2>3. \A x, y, z \in S : <<x, y>> \in R /\ <<y, z>> \in R => <<x, z>> \in R
    BY <1>1, <1>2, <2>1
  <2>4. \A x, y \in S : x # y => <<x, y>> \in R \/ <<y, x>> \in R
    BY <1>1, <1>2, <2>1
  <2> QED
    BY <2>2, <2>3, <2>4 DEF Orders
<1> QED
  BY <1>4 DEF p

\* A list cut at n has its first n members.
LEMMA CutIs ==
    ASSUME NEW S, NEW s \in Seq(S), NEW n \in Nat
    PROVE  LET m == IF Len(s) < n THEN Len(s) ELSE n IN
           Len(Cut(s, n)) = m /\ DOMAIN Cut(s, n) = 1..m /\ \A k \in 1..m : Cut(s, n)[k] = s[k]
<1> DEFINE m == IF Len(s) < n THEN Len(s) ELSE n
<1>1. m \in Nat /\ m <= Len(s) /\ Len(s) \in Nat
  OBVIOUS
<1>2. Cut(s, n) = SubSeq(s, 1, m)
  BY DEF Cut
<1> HIDE DEF m
<1>3. Len(SubSeq(s, 1, m)) = m /\ \A k \in 1..m : SubSeq(s, 1, m)[k] = s[k]
  BY <1>1
<1>4. DOMAIN SubSeq(s, 1, m) = 1..m
  BY <1>1
<1> QED
  BY <1>2, <1>3, <1>4 DEF m

\* The ranked list is the best of what it is made from.
LEMMA RankedIsBest ==
    ASSUME Executable(searchRequest), EligibleHold, NEW S \in SUBSET (DOMAIN eligible),
           NEW list, list = Ranked(S, searchRequest)
    PROVE  /\ ToSet(list) \subseteq S
           /\ ToSet(list) # S => Len(list) = searchRequest.limit
           /\ \A c \in ToSet(list), d \in S \ ToSet(list) : ~Ahead(d, c, searchRequest)
<1> DEFINE R == {x \in S \X S : Ahead(x[1], x[2], searchRequest)}
           n == Cardinality(S)
           all == InOrder(S, R)
           limit == searchRequest.limit
           m == IF n < limit THEN n ELSE limit
<1>1. Orders(R, S) /\ IsFiniteSet(S)
  BY AheadOrders, FS_Subset, SearchAssumption DEF EligibleHold
<1>2. \A a, b \in S : Ahead(a, b, searchRequest) => <<a, b>> \in R
  OBVIOUS
<1>3. list = Cut(all, limit)
  BY DEF Ranked
<1>4. limit \in Nat
  BY DEF Executable
<1> HIDE DEF R
<1>5. /\ n \in Nat /\ all \in [1..n -> S]
      /\ \A x \in S : \E k \in 1..n : all[k] = x
      /\ \A i, j \in 1..n : i < j => <<all[i], all[j]>> \in R
  BY <1>1, OrderedOnce
<1> HIDE DEF n, all, limit
<1>6. all \in Seq(S) /\ Len(all) = n
  BY <1>5
<1>7. Len(list) = m /\ DOMAIN list = 1..m /\ \A k \in 1..m : list[k] = all[k]
  BY <1>3, <1>4, <1>6, CutIs
<1>8. ToSet(list) = {all[k] : k \in 1..m}
  BY <1>7 DEF ToSet
<1>9. m \in Nat /\ m <= n
  BY <1>4, <1>5
<1>10. ToSet(list) \subseteq S
  BY <1>5, <1>8, <1>9
<1>11. ToSet(list) # S => Len(list) = limit
  <2> SUFFICES ASSUME m # limit PROVE ToSet(list) = S
    BY <1>7
  <2>1. m = n
    BY <1>4, <1>5
  <2> QED
    BY <1>5, <1>8, <1>10, <2>1
<1>12. \A c \in ToSet(list), d \in S \ ToSet(list) : ~Ahead(d, c, searchRequest)
  <2> SUFFICES ASSUME NEW c \in ToSet(list), NEW d \in S \ ToSet(list), Ahead(d, c, searchRequest)
               PROVE FALSE
    OBVIOUS
  <2>1. PICK i \in 1..m : c = all[i]
    BY <1>8
  <2>2. PICK j \in 1..n : d = all[j]
    BY <1>5
  <2>3. ~(j \in 1..m)
    BY <1>8, <2>2
  <2>4. i < j /\ i \in 1..n
    BY <1>5, <1>9, <2>3
  <2>5. <<c, d>> \in R /\ <<d, c>> \in R
    BY <1>2, <1>5, <1>10, <2>1, <2>2, <2>4
  <2> QED
    BY <1>1, <1>10, <2>5 DEF Orders
<1> QED
  BY <1>10, <1>11, <1>12 DEF limit

-----------------------------------------------------------------------------
SearchInv ==
    /\ request \in Texts
    /\ effective \in [CandidateIds -> {Absent} \cup [version : Nat, content : Profiles]]
    /\ searchStage \in {"planned", "embed", "rank"} \/ SearchAnswered => Executable(searchRequest)
    /\ searchStage \in {"embed", "rank"} \/ SearchAnswered => EligibleHold
    /\ BestFirst

LEMMA SearchInitInv == SearchInit => SearchInv
<1> SUFFICES ASSUME SearchInit PROVE SearchInv
  OBVIOUS
<1>1. PICK content \in Corpora :
        effective = [c \in CandidateIds |->
                       IF content[c] = Absent THEN Absent ELSE [version |-> 1, content |-> content[c]]]
  BY DEF SearchInit
<1>2. \A c \in CandidateIds : content[c] = Absent \/ content[c] \in Profiles
  BY SearchAssumption
<1>3. effective \in [CandidateIds -> {Absent} \cup [version : Nat, content : Profiles]]
  BY <1>1, <1>2
<1> QED
  BY <1>3 DEF SearchInit, SearchInv, SearchAnswered, BestFirst

\* A step that answers nothing and plans nothing new.
LEMMA PlainStep ==
    ASSUME SearchInv, searchStage # "done",
           UNCHANGED <<request, searchRequest, eligible>>,
           effective' \in [CandidateIds -> {Absent} \cup [version : Nat, content : Profiles]],
           ~SearchAnswered',
           searchStage' \in {"planned", "embed", "rank"} =>
               searchStage \in {"planned", "embed", "rank"},
           searchStage' \in {"embed", "rank"} => searchStage \in {"embed", "rank"}
    PROVE  SearchInv'
BY DEF SearchInv, Executable, EligibleHold, BestFirst, Complete, Preserved, Requirements

LEMMA PlanStep ==
    ASSUME SearchInv, NEW p, Executable(p), Planned(p)
    PROVE  SearchInv'
<1>1. Executable(searchRequest)'
  BY DEF Planned, Executable, Complete, Preserved, Requirements
<1> QED
  BY <1>1 DEF Planned, SearchInv, SearchAnswered, BestFirst, corpus

LEMMA RefuseStep ==
    ASSUME SearchInv, searchStage # "done", NEW why, Refused(why), why # "EXECUTABLE"
    PROVE  SearchInv'
BY PlainStep DEF Refused, SearchAnswered, corpus, SearchInv

LEMMA CorpusStep ==
    ASSUME SearchInv, Change, UNCHANGED <<request, searchStage, searchRequest, eligible>>,
           effective' \in [CandidateIds -> {Absent} \cup [version : Nat, content : Profiles]]
    PROVE  SearchInv'
BY PlainStep DEF Change, SearchAnswered

LEMMA SearchKeeps ==
    ASSUME SearchInv, [SearchNext]_searchVars
    PROVE  SearchInv'
<1>1. CASE RefuseText
  BY <1>1, RefuseStep, SearchAssumption DEF RefuseText, SearchInv
<1>2. CASE PlanFromRequirements
  <2> DEFINE p == Search(Gathered("MUST_HAVE"), Gathered("PREFERRED"), Absent, request.count)
  <2>1. IF Complete(p) THEN Planned(p) ELSE Refused("VALIDATION_FAILURE")
    BY <1>2 DEF PlanFromRequirements
  <2>2. searchStage = "text" /\ AllScorable /\ request \in Texts
    BY <1>2 DEF PlanFromRequirements, SearchInv
  <2>3. CASE Complete(p)
    BY <2>1, <2>2, <2>3, RulesAreExecutable, PlanStep
  <2>4. CASE ~Complete(p)
    BY <2>1, <2>2, <2>4, RefuseStep
  <2> QED
    BY <2>3, <2>4
<1>3. CASE PlanFromSentences
  BY <1>3, SentencesAreExecutable, PlanStep DEF PlanFromSentences, SearchInv
<1>4. CASE AskModel
  BY <1>4, PlainStep DEF AskModel, SearchAnswered, corpus, SearchInv
<1>5. CASE ModelDrafts
  <2>1. searchStage = "model"
    BY <1>5 DEF ModelDrafts
  <2>2. PICK d \in PlannerDrafts :
          IF DraftRefusal(d) # Absent THEN Refused(DraftRefusal(d))
          ELSE IF Complete(Converted(d)) THEN Planned(Converted(d))
          ELSE Refused("VALIDATION_FAILURE")
    BY <1>5 DEF ModelDrafts
  <2>3. CASE DraftRefusal(d) # Absent
    BY <2>1, <2>2, <2>3, DraftChecks, RefuseStep
  <2>4. CASE DraftRefusal(d) = Absent /\ Complete(Converted(d))
    <3>1. Executable(Converted(d))
      BY <2>4, ConvertedIsExecutable, SearchAssumption
    <3> QED
      BY <2>2, <2>4, <3>1, PlanStep
  <2>5. CASE DraftRefusal(d) = Absent /\ ~Complete(Converted(d))
    BY <2>1, <2>2, <2>5, RefuseStep
  <2> QED
    BY <2>3, <2>4, <2>5
<1>6. CASE ModelBreaksSchema
  BY <1>6, PlainStep DEF ModelBreaksSchema, SearchAnswered, corpus, SearchInv
<1>7. CASE ModelFails
  BY <1>7, RefuseStep DEF ModelFails
<1>8. CASE ReadProfiles
  <2>1. /\ searchStage = "planned" /\ searchStage' \in {"rank", "embed"}
        /\ UNCHANGED <<request, searchRequest, effective>>
        /\ DOMAIN eligible' = {c \in Profiled : Satisfies(effective[c].content, searchRequest.required)}
        /\ \A c \in DOMAIN eligible' : eligible'[c] = effective[c]
    BY <1>8 DEF ReadProfiles, corpus
  <2>2. \A c \in Profiled : c \in CandidateIds /\ effective[c] \in [version : Nat, content : Profiles]
    BY DEF Profiled, SearchInv
  <2>3. EligibleHold'
    <3>1. \A c \in DOMAIN eligible' :
            /\ c \in CandidateIds /\ eligible'[c].content \in Profiles
            /\ Satisfies(eligible'[c].content, searchRequest'.required)
      BY <2>1, <2>2
    <3> QED
      BY <3>1 DEF EligibleHold
  <2>4. Executable(searchRequest)'
    BY <2>1 DEF SearchInv, Executable, Complete, Preserved, Requirements
  <2> QED
    BY <2>1, <2>3, <2>4 DEF SearchInv, SearchAnswered, BestFirst
<1>9. CASE Embed
  BY <1>9, PlainStep DEF Embed, SearchAnswered, corpus, SearchInv
<1>10. CASE EmbedFails
  BY <1>10, PlainStep DEF EmbedFails, SearchAnswered, corpus, SearchInv
<1>11. CASE Answer
  <2>1. /\ searchStage = "rank" /\ response' = Ranked(Comparable, searchRequest)
        /\ UNCHANGED <<request, searchRequest, eligible, effective, embeddings>>
    BY <1>11 DEF Answer, corpus
  <2>2. Executable(searchRequest) /\ EligibleHold
    BY <2>1 DEF SearchInv
  <2>3. Executable(searchRequest)' /\ EligibleHold'
    BY <2>1, <2>2 DEF Executable, EligibleHold, Complete, Preserved, Requirements
  <2>4. BestFirst'
    <3>1. Comparable \in SUBSET (DOMAIN eligible)
      BY DEF Comparable
    <3>2. /\ ToSet(response') \subseteq Comparable
          /\ ToSet(response') # Comparable => Len(response') = searchRequest.limit
          /\ \A c \in ToSet(response'), d \in Comparable \ ToSet(response') :
                ~Ahead(d, c, searchRequest)
      BY <2>1, <2>2, <3>1, RankedIsBest
    <3>3. \A c, d : Ahead(d, c, searchRequest)' <=> Ahead(d, c, searchRequest)
      BY <2>1 DEF Ahead, Score
    <3>4. Comparable' = Comparable
      BY <2>1 DEF Comparable
    <3> QED
      BY <2>1, <3>2, <3>3, <3>4 DEF BestFirst, Comparable
  <2> QED
    BY <2>1, <2>3, <2>4 DEF SearchInv
<1>12. CASE Suspended
  BY <1>12, PlainStep DEF Suspended, SearchAnswered, corpus, SearchInv
<1>13. CASE \E c \in CandidateIds : Reanalysed(c)
  BY <1>13, CorpusStep DEF Reanalysed, SearchInv
<1>14. CASE \E c \in CandidateIds : Embedded(c)
  BY <1>14, CorpusStep DEF Embedded, SearchInv
<1>15. CASE \E c \in CandidateIds : Removed(c)
  BY <1>15, CorpusStep DEF Removed, SearchInv
<1>16. CASE Suspend
  BY <1>16, CorpusStep DEF Suspend, SearchInv
<1>17. CASE UNCHANGED searchVars
  BY <1>17 DEF searchVars, SearchInv, SearchAnswered, Executable, EligibleHold, BestFirst,
     Complete, Preserved, Requirements, Ahead, Score
<1> QED
  BY <1>1, <1>2, <1>3, <1>4, <1>5, <1>6, <1>7, <1>8, <1>9, <1>10, <1>11, <1>12, <1>13, <1>14,
     <1>15, <1>16, <1>17 DEF SearchNext

\* SearchHolds: whoever planned the search, the rules, the parser of sentences
\* or the model, and however the profiles, their vectors and the tenant change
\* while it runs, its answer meets every mandatory requirement of the text that
\* was understood and leaves out nobody who ranks before somebody in it.
THEOREM SearchesAlwaysHold == SearchSpec => []SearchHolds
<1>1. SearchInv => SearchHolds
  <2> SUFFICES ASSUME SearchInv, SearchAnswered PROVE MustHavesHold
    BY DEF SearchHolds, SearchInv, MustHavesHold
  <2>1. ToSet(response) \subseteq DOMAIN eligible
    BY DEF SearchInv, BestFirst
  <2>2. ASSUME NEW r \in Requirements, Scorable(r)
        PROVE  IF r.type = "PREFERRED"
                 THEN Conditions(Filters({r})) \subseteq Conditions(searchRequest.preferred)
                 ELSE \A c \in ToSet(response) : Satisfies(eligible[c].content, Filters({r}))
    <3>1. Preserved(r, searchRequest)
      BY <2>2 DEF SearchInv, Executable, Complete
    <3>2. /\ r.type \in {"MUST_HAVE", "PREFERRED"}
          /\ r.type = "MUST_HAVE" =>
               Conditions(Filters({r})) \subseteq Conditions(searchRequest.required)
          /\ r.type = "PREFERRED" =>
               Conditions(Filters({r})) \subseteq Conditions(searchRequest.preferred)
      BY <3>1, PreservedIsCondition
    <3>3. \A c \in ToSet(response) : Satisfies(eligible[c].content, searchRequest.required)
      BY <2>1 DEF SearchInv, EligibleHold
    <3> QED
      BY <3>2, <3>3 DEF Satisfies, Met
  <2> QED
    BY <2>2 DEF MustHavesHold
<1>2. SearchInv /\ [SearchNext]_searchVars => SearchInv'
  BY SearchKeeps
<1> QED
  BY SearchInitInv, <1>1, <1>2, PTL DEF SearchSpec
-----------------------------------------------------------------------------
(* Durations: what a recursive function computes step by step.             *)

\* f is what n steps lead to, in S, from x0.
Follows(f, S, x0, n, step) ==
    f \in [0..n -> S] /\ f[0] = x0 /\ \A k \in 1..n : f[k] = step[<<k, f[k - 1]>>]

LEMMA StepsCompose ==
    ASSUME NEW S, NEW x0 \in S, NEW n \in Nat, NEW step, step \in [(1..n) \X S -> S]
    PROVE  \E f : Follows(f, S, x0, n, step)
<1> DEFINE Reached(m) == \E f \in [0..m -> S] :
                            f[0] = x0 /\ \A k \in 1..m : f[k] = step[<<k, f[k - 1]>>]
           bad == {m \in 0..n : ~Reached(m)}
<1>1. Reached(0)
  <2> DEFINE f == [i \in 0..0 |-> x0]
  <2>1. f \in [0..0 -> S] /\ f[0] = x0 /\ 1..0 = {}
    OBVIOUS
  <2> QED
    BY <2>1
<1>2. ASSUME NEW m \in 1..n, Reached(m - 1) PROVE Reached(m)
  <2>1. m \in Nat /\ m - 1 \in Nat /\ 1..(m - 1) \subseteq 1..n /\ m \in 1..n
    OBVIOUS
  <2>2. PICK f \in [0..(m - 1) -> S] :
           f[0] = x0 /\ \A k \in 1..(m - 1) : f[k] = step[<<k, f[k - 1]>>]
    BY <1>2
  <2> DEFINE last == step[<<m, f[m - 1]>>]
             g == [i \in 0..m |-> IF i = m THEN last ELSE f[i]]
  <2>3. f[m - 1] \in S
    BY <2>1
  <2>4. last \in S
    BY <2>1, <2>3
  <2>5. \A i \in 0..m : i # m => i \in 0..(m - 1)
    BY <2>1
  <2>6. g \in [0..m -> S]
    BY <2>4, <2>5
  <2>7. g[0] = x0
    BY <2>1, <2>2
  <2>8. ASSUME NEW k \in 1..m PROVE g[k] = step[<<k, g[k - 1]>>]
    <3>1. k \in 0..m /\ k - 1 \in 0..m /\ k - 1 # m
      BY <2>1
    <3>2. g[k - 1] = f[k - 1]
      BY <3>1
    <3>3. CASE k = m
      BY <3>1, <3>2, <3>3
    <3>4. CASE k # m
      <4>1. k \in 1..(m - 1)
        BY <2>1, <3>4
      <4>2. g[k] = f[k]
        BY <3>1, <3>4
      <4> QED
        BY <2>2, <3>2, <4>1, <4>2
    <3> QED
      BY <3>3, <3>4
  <2> HIDE DEF g
  <2> QED
    BY <2>6, <2>7, <2>8
<1> HIDE DEF Reached
<1>3. bad = {}
  <2> SUFFICES ASSUME bad # {} PROVE FALSE
    OBVIOUS
  <2>1. bad \in SUBSET Nat
    OBVIOUS
  <2>2. PICK m \in bad : \A j \in bad : m <= j
    BY <2>1, LeastNatural
  <2>3. m \in 1..n /\ m - 1 \in 0..n
    BY <1>1, <2>2
  <2>4. Reached(m - 1)
    BY <2>2, <2>3
  <2> QED
    BY <1>2, <2>2, <2>3, <2>4
<1>4. Reached(n)
  BY <1>3
<1> QED
  BY <1>4 DEF Reached, Follows

\* A partial sum follows from the one before.
Sums(w, sum) == sum[0] = 0 /\ \A k \in 1..Len(w) : sum[k] = sum[k - 1] + w[k]

LEMMA SumIs ==
    ASSUME NEW w \in Seq(Int)
    PROVE  \E sum \in [0..Len(w) -> Int] : Sums(w, sum) /\ SumOf(w) = sum[Len(w)]
<1> DEFINE n == Len(w)
           step == [x \in (1..n) \X Int |-> x[2] + w[x[1]]]
<1>1. n \in Nat /\ \A k \in 1..n : w[k] \in Int
  OBVIOUS
<1>2. step \in [(1..n) \X Int -> Int]
  BY <1>1
<1>3. PICK f \in [0..n -> Int] : f[0] = 0 /\ \A k \in 1..n : f[k] = step[<<k, f[k - 1]>>]
  <2>1. 0 \in Int
    OBVIOUS
  <2>2. \E f : Follows(f, Int, 0, n, step)
    <3> HIDE DEF step, n
    <3> QED
      BY <1>1, <1>2, <2>1, StepsCompose
  <2> HIDE DEF step
  <2> QED
    BY <2>2 DEF Follows
<1>4. \A k \in 1..n : f[k] = f[k - 1] + w[k]
  <2> TAKE k \in 1..n
  <2>1. k - 1 \in 0..n
    BY <1>1
  <2>2. <<k, f[k - 1]>> \in (1..n) \X Int
    BY <2>1
  <2> QED
    BY <1>3, <2>2
<1>5. f = [k \in 0..n |-> IF k = 0 THEN 0 ELSE f[k - 1] + w[k]]
  <2>1. \A k \in 0..n : k # 0 => k \in 1..n
    BY <1>1
  <2> QED
    BY <1>3, <1>4, <2>1
<1> DEFINE sum == CHOOSE g : g = [k \in 0..n |-> IF k = 0 THEN 0 ELSE g[k - 1] + w[k]]
<1>6. sum = [k \in 0..n |-> IF k = 0 THEN 0 ELSE sum[k - 1] + w[k]]
  BY <1>5
<1>7. SumOf(w) = sum[n]
  BY DEF SumOf
<1>8. SumOf(w) = sum[n] /\ sum[0] = 0 /\ \A k \in 1..n : sum[k] = sum[k - 1] + w[k]
  <2> HIDE DEF sum
  <2>1. sum[0] = 0
    BY <1>1, <1>6
  <2>2. ASSUME NEW k \in 1..n PROVE sum[k] = sum[k - 1] + w[k]
    <3>1. k \in 0..n /\ k # 0
      BY <1>1
    <3> QED
      BY <1>6, <3>1
  <2> QED
    BY <1>7, <2>1, <2>2
<1>9. sum = [k \in 0..n |-> sum[k]]
  <2> HIDE DEF sum
  <2> QED
    BY <1>6
<1> HIDE DEF sum, step
<1> DEFINE bad == {k \in 0..n : sum[k] \notin Int}
<1>10. bad = {}
  <2> SUFFICES ASSUME bad # {} PROVE FALSE
    OBVIOUS
  <2>1. PICK m \in bad : \A j \in bad : m <= j
    <3>1. bad \in SUBSET Nat
      OBVIOUS
    <3> QED
      BY <3>1, LeastNatural
  <2>2. m \in 1..n /\ m - 1 \in 0..n
    BY <1>1, <1>8, <2>1
  <2>3. sum[m - 1] \in Int
    BY <2>1, <2>2
  <2>4. sum[m] = sum[m - 1] + w[m]
    BY <1>8, <2>2
  <2> QED
    BY <1>1, <2>1, <2>2, <2>3, <2>4
<1>11. sum \in [0..n -> Int]
  BY <1>9, <1>10
<1> QED
  BY <1>8, <1>11 DEF Sums

LEMMA SumsAgree ==
    ASSUME NEW v \in Seq(Int), NEW w \in Seq(Int), Len(v) <= Len(w),
           \A k \in 1..Len(v) : v[k] = w[k],
           NEW f, NEW g, Sums(v, f), Sums(w, g)
    PROVE  f[Len(v)] = g[Len(v)]
<1> DEFINE n == Len(v)
           bad == {k \in 0..n : f[k] # g[k]}
<1>1. n \in Nat /\ Len(w) \in Nat /\ 1..n \subseteq 1..Len(w)
  OBVIOUS
<1>2. bad = {}
  <2> SUFFICES ASSUME bad # {} PROVE FALSE
    OBVIOUS
  <2>1. PICK m \in bad : \A j \in bad : m <= j
    <3>1. bad \in SUBSET Nat
      OBVIOUS
    <3> QED
      BY <3>1, LeastNatural
  <2>2. m \in 1..n /\ m - 1 \in 0..n
    BY <1>1, <2>1 DEF Sums
  <2>3. f[m - 1] = g[m - 1]
    BY <2>1, <2>2
  <2>4. f[m] = f[m - 1] + v[m] /\ g[m] = g[m - 1] + w[m] /\ v[m] = w[m]
    BY <1>1, <2>2 DEF Sums
  <2> QED
    BY <2>1, <2>3, <2>4
<1> QED
  BY <1>1, <1>2

LEMMA SumAppend ==
    ASSUME NEW v \in Seq(Int), NEW x \in Int
    PROVE  SumOf(v) \in Int /\ SumOf(Append(v, x)) = SumOf(v) + x
<1> DEFINE w == Append(v, x)
<1>1. /\ w \in Seq(Int) /\ Len(w) = Len(v) + 1 /\ Len(v) \in Nat /\ w[Len(w)] = x
      /\ \A k \in 1..Len(v) : v[k] = w[k]
  OBVIOUS
<1> HIDE DEF w
<1>2. PICK f \in [0..Len(v) -> Int] : Sums(v, f) /\ SumOf(v) = f[Len(v)]
  BY SumIs
<1>3. PICK g \in [0..Len(w) -> Int] : Sums(w, g) /\ SumOf(w) = g[Len(w)]
  BY <1>1, SumIs
<1>4. f[Len(v)] = g[Len(v)]
  <2>1. Len(v) <= Len(w)
    BY <1>1
  <2> QED
    BY <1>1, <1>2, <1>3, <2>1, SumsAgree
<1>5. g[Len(w)] = g[Len(v)] + x
  <2>1. Len(w) \in 1..Len(w) /\ Len(w) - 1 = Len(v)
    BY <1>1
  <2>2. g[Len(w)] = g[Len(w) - 1] + w[Len(w)]
    BY <1>3, <2>1 DEF Sums
  <2> QED
    BY <1>1, <2>1, <2>2
<1>6. SumOf(v) \in Int
  <2>1. Len(v) \in 0..Len(v)
    BY <1>1
  <2>2. f[Len(v)] \in Int
    BY <1>2, <2>1
  <2> QED
    BY <1>2, <2>2
<1> QED
  BY <1>2, <1>3, <1>4, <1>5, <1>6 DEF w

LEMMA SumPositive ==
    ASSUME NEW w \in Seq(Nat), NEW i \in 1..Len(w)
    PROVE  SumOf(w) \in Int /\ SumOf(w) >= w[i]
<1>1. w \in Seq(Int) /\ Len(w) \in Nat /\ \A k \in 1..Len(w) : w[k] \in Nat
  OBVIOUS
<1>2. PICK f \in [0..Len(w) -> Int] : Sums(w, f) /\ SumOf(w) = f[Len(w)]
  BY <1>1, SumIs
<1> DEFINE bad == {k \in 0..Len(w) : ~(f[k] >= 0 /\ (k >= i => f[k] >= w[i]))}
<1>3. bad = {}
  <2> SUFFICES ASSUME bad # {} PROVE FALSE
    OBVIOUS
  <2>1. PICK m \in bad : \A j \in bad : m <= j
    <3>1. bad \in SUBSET Nat
      OBVIOUS
    <3> QED
      BY <3>1, LeastNatural
  <2>2. m \in 1..Len(w) /\ m - 1 \in 0..Len(w)
    BY <1>1, <1>2, <2>1 DEF Sums
  <2>3. f[m - 1] \in Int /\ f[m] \in Int /\ w[m] \in Nat /\ f[m] = f[m - 1] + w[m]
    BY <1>1, <1>2, <2>2 DEF Sums
  <2>4. f[m - 1] >= 0 /\ (m - 1 >= i => f[m - 1] >= w[i])
    BY <2>1, <2>2
  <2>5. f[m] >= 0 /\ (m >= i => f[m] >= w[i])
    BY <1>1, <2>2, <2>3, <2>4
  <2> QED
    BY <2>1, <2>5
<1>4. Len(w) \in 0..Len(w) /\ Len(w) >= i
  BY <1>1
<1> QED
  BY <1>2, <1>3, <1>4

\* What is in a period: its years.
Years(p) == p[1]..(p[2] - 1)

LEMMA YearsOfPeriod ==
    ASSUME NEW p \in Int \X Int
    PROVE  /\ IsFiniteSet(Years(p)) /\ Cardinality(Years(p)) = Span(p)
           /\ Span(p) \in Int /\ Years(p) \in SUBSET Int
<1>1. p[1] \in Int /\ p[2] \in Int /\ p[2] - 1 \in Int
  OBVIOUS
<1> DEFINE a == p[1]
           b == p[2] - 1
<1>2. a \in Int /\ b \in Int
  BY <1>1
<1> HIDE DEF a, b
<1>3. IsFiniteSet(a..b) /\ Cardinality(a..b) = IF a > b THEN 0 ELSE b - a + 1
  BY <1>2, FS_Interval
<1>4. Span(p) = IF p[2] - p[1] > 0 THEN p[2] - p[1] ELSE 0
  BY DEF Span, Longer
<1>5. Cardinality(a..b) = Span(p)
  BY <1>1, <1>3, <1>4 DEF a, b
<1>6. Years(p) = a..b
  BY DEF Years, a, b
<1> QED
  BY <1>1, <1>3, <1>4, <1>5, <1>6

LEMMA SpanAppend ==
    ASSUME NEW m \in Seq(Int \X Int), NEW p \in Int \X Int
    PROVE  TotalSpan(m) \in Int /\ TotalSpan(Append(m, p)) = TotalSpan(m) + Span(p)
<1> DEFINE v == [i \in DOMAIN m |-> Span(m[i])]
           w == [i \in DOMAIN Append(m, p) |-> Span(Append(m, p)[i])]
<1>1. \A i \in DOMAIN m : m[i] \in Int \X Int
  OBVIOUS
<1>2. Len(m) \in Nat /\ DOMAIN m = 1..Len(m)
  OBVIOUS
<1>3. v \in [1..Len(m) -> Int]
  BY <1>1, <1>2, YearsOfPeriod
<1>4. v \in Seq(Int) /\ Len(v) = Len(m)
  BY <1>2, <1>3
<1>5. DOMAIN Append(m, p) = 1..(Len(m) + 1)
      /\ \A i \in 1..Len(m) : Append(m, p)[i] = m[i]
      /\ Append(m, p)[Len(m) + 1] = p
  BY <1>2
<1>6. Span(p) \in Int
  BY YearsOfPeriod
<1>7. w = Append(v, Span(p))
  <2>1. DOMAIN Append(v, Span(p)) = 1..(Len(m) + 1)
        /\ \A i \in 1..Len(m) : Append(v, Span(p))[i] = v[i]
        /\ Append(v, Span(p))[Len(m) + 1] = Span(p)
    <3> HIDE DEF v
    <3> QED
      BY <1>2, <1>4, <1>6
  <2>2. DOMAIN w = 1..(Len(m) + 1)
    BY <1>5
  <2>3. ASSUME NEW i \in 1..(Len(m) + 1) PROVE w[i] = Append(v, Span(p))[i]
    <3>1. CASE i = Len(m) + 1
      BY <1>5, <2>1, <2>2, <3>1
    <3>2. CASE i # Len(m) + 1
      <4>1. i \in 1..Len(m)
        BY <1>2, <3>2
      <4> QED
        BY <1>2, <1>5, <2>1, <2>2, <4>1
    <3> QED
      BY <3>1, <3>2
  <2>4. w = [i \in 1..(Len(m) + 1) |-> w[i]]
    BY <2>2
  <2>5. Append(v, Span(p)) = [i \in 1..(Len(m) + 1) |-> Append(v, Span(p))[i]]
    <3> HIDE DEF v
    <3> DEFINE s == Append(v, Span(p))
    <3>1. s \in Seq(Int)
      BY <1>4, <1>6
    <3>2. DOMAIN s = 1..(Len(m) + 1)
      BY <2>1
    <3> HIDE DEF s
    <3>3. s = [i \in DOMAIN s |-> s[i]]
      BY <3>1
    <3> QED
      BY <3>2, <3>3 DEF s
  <2> HIDE DEF v, w
  <2> QED
    BY <2>3, <2>4, <2>5
<1> HIDE DEF v, w
<1>8. TotalSpan(m) = SumOf(v) /\ TotalSpan(Append(m, p)) = SumOf(w)
  BY DEF TotalSpan, v, w
<1> QED
  BY <1>4, <1>6, <1>7, <1>8, SumAppend

LEMMA NoSpan == TotalSpan(<<>>) = 0
<1> DEFINE v == [i \in DOMAIN <<>> |-> Span(<<>>[i])]
<1>1. v = <<>>
  OBVIOUS
<1>2. <<>> \in Seq(Int) /\ Len(<<>>) = 0
  OBVIOUS
<1>3. PICK sum \in [0..Len(<<>>) -> Int] : Sums(<<>>, sum) /\ SumOf(<<>>) = sum[Len(<<>>)]
  BY <1>2, SumIs
<1>4. SumOf(<<>>) = 0
  BY <1>2, <1>3 DEF Sums
<1> QED
  BY <1>1, <1>4 DEF TotalSpan

LEMMA FrontAndLast ==
    ASSUME NEW S, NEW m \in Seq(S), m # <<>>
    PROVE  Front(m) \in Seq(S) /\ Last(m) \in S /\ m = Append(Front(m), Last(m))
<1>1. Len(m) \in Nat /\ Len(m) > 0 /\ Len(m) - 1 \in Nat
  OBVIOUS
<1> DEFINE n == Len(m) - 1
           f == SubSeq(m, 1, n)
<1>2. f \in Seq(S) /\ Len(f) = n /\ \A i \in 1..n : f[i] = m[i]
  <2>1. n \in Nat /\ n <= Len(m)
    BY <1>1
  <2> HIDE DEF n
  <2> QED
    BY <1>1, <2>1
<1>3. m[Len(m)] \in S
  BY <1>1
<1> DEFINE l == m[Len(m)]
           a == Append(f, l)
<1>4. a \in Seq(S) /\ Len(a) = n + 1 /\ a[n + 1] = l /\ \A i \in 1..n : a[i] = f[i]
  <2> HIDE DEF f, l
  <2>1. f \in Seq(S) /\ Len(f) = n /\ l \in S /\ n \in Nat
    BY <1>1, <1>2, <1>3 DEF l
  <2> HIDE DEF n
  <2> QED
    BY <2>1
<1>5. Len(a) = Len(m)
  BY <1>1, <1>4
<1>6. \A i \in 1..Len(m) : a[i] = m[i]
  <2> TAKE i \in 1..Len(m)
  <2>1. CASE i = n + 1
    BY <1>1, <1>4, <2>1
  <2>2. CASE i # n + 1
    <3>1. i \in 1..n
      BY <1>1, <2>2
    <3> QED
      BY <1>2, <1>4, <3>1
  <2> QED
    BY <2>1, <2>2
<1> HIDE DEF a
<1>7. a = m
  BY <1>4, <1>5, <1>6
<1> QED
  BY <1>2, <1>3, <1>7 DEF Front, Last, a

LEMMA AppendIs ==
    ASSUME NEW S, NEW m \in Seq(S), NEW p \in S
    PROVE  /\ Append(m, p) \in Seq(S) /\ Append(m, p) # <<>>
           /\ Front(Append(m, p)) = m /\ Last(Append(m, p)) = p
<1> DEFINE a == Append(m, p)
           f == SubSeq(a, 1, Len(a) - 1)
<1>1. /\ a \in Seq(S) /\ Len(a) = Len(m) + 1 /\ Len(m) \in Nat /\ a[Len(a)] = p
      /\ \A i \in 1..Len(m) : a[i] = m[i]
  OBVIOUS
<1> HIDE DEF a
<1>2. f \in Seq(S) /\ Len(f) = Len(m) /\ \A i \in 1..Len(m) : f[i] = a[i]
  <2>1. Len(a) - 1 = Len(m)
    BY <1>1
  <2> QED
    BY <1>1, <2>1
<1> HIDE DEF f
<1>3. f = m
  BY <1>1, <1>2
<1>4. a # <<>>
  BY <1>1
<1> QED
  BY <1>1, <1>3, <1>4 DEF Front, Last, a, f

\* What the merge keeps: the years of its last period, and before them as many
\* years as its other periods have, make up the years merged so far.
MergeOf(m, U) ==
    /\ m \in Seq(Int \X Int) /\ m # <<>>
    /\ \E A : /\ IsFiniteSet(A) /\ \A a \in A : a \in Int /\ a < Last(m)[1]
              /\ Cardinality(A) = TotalSpan(Front(m))
              /\ U = A \cup Years(Last(m))

LEMMA MergeCounts ==
    ASSUME NEW m, NEW U, MergeOf(m, U)
    PROVE  IsFiniteSet(U) /\ Cardinality(U) = TotalSpan(m)
<1>1. m \in Seq(Int \X Int) /\ m # <<>>
  BY DEF MergeOf
<1>2. PICK A : /\ IsFiniteSet(A) /\ \A a \in A : a \in Int /\ a < Last(m)[1]
               /\ Cardinality(A) = TotalSpan(Front(m))
               /\ U = A \cup Years(Last(m))
  BY DEF MergeOf
<1> DEFINE l == Last(m)
<1>3. Front(m) \in Seq(Int \X Int) /\ l \in Int \X Int /\ m = Append(Front(m), l)
  BY <1>1, FrontAndLast
<1>4. TotalSpan(m) = TotalSpan(Front(m)) + Span(l)
  <2> HIDE DEF l
  <2> QED
    BY <1>3, SpanAppend
<1>5. IsFiniteSet(Years(l)) /\ Cardinality(Years(l)) = Span(l) /\ Span(l) \in Int
  BY <1>3, YearsOfPeriod
<1>6. A \cap Years(l) = {}
  BY <1>2, <1>3 DEF Years
<1>7. /\ IsFiniteSet(A \cup Years(l))
      /\ Cardinality(A \cup Years(l)) = Cardinality(A) + Cardinality(Years(l)) - Cardinality({})
  <2> DEFINE B == Years(l)
  <2>1. IsFiniteSet(B) /\ A \cap B = {}
    BY <1>5, <1>6
  <2> HIDE DEF B
  <2>2. /\ IsFiniteSet(A \cup B)
        /\ Cardinality(A \cup B) = Cardinality(A) + Cardinality(B) - Cardinality(A \cap B)
    BY <1>2, <2>1, FS_Union
  <2>3. /\ IsFiniteSet(A \cup B)
        /\ Cardinality(A \cup B) = Cardinality(A) + Cardinality(B) - Cardinality({})
    BY <2>1, <2>2
  <2> QED
    BY <2>3 DEF B
<1>8. Cardinality({}) = 0
  BY FS_EmptySet
<1>9. Cardinality(A) \in Nat
  BY <1>2, FS_CardinalityType
<1> QED
  BY <1>2, <1>4, <1>5, <1>7, <1>8, <1>9

LEMMA MergeStarts ==
    ASSUME NEW p \in Int \X Int
    PROVE  MergeOf(MergedInto(<<>>, p), Years(p)) /\ Last(MergedInto(<<>>, p))[1] <= p[1]
<1> DEFINE m == MergedInto(<<>>, p)
<1>1. m = Append(<<>>, p)
  BY DEF MergedInto
<1> DEFINE T == Int \X Int
           e == <<>>
<1>2. e \in Seq(T) /\ p \in T
  OBVIOUS
<1> HIDE DEF e, T
<1>3. m \in Seq(T) /\ m # <<>> /\ Front(m) = e /\ Last(m) = p
  <2>1. Append(e, p) \in Seq(T) /\ Append(e, p) # <<>> /\ Front(Append(e, p)) = e
        /\ Last(Append(e, p)) = p
    BY <1>2, AppendIs
  <2> QED
    BY <1>1, <2>1 DEF e
<1>4. IsFiniteSet({}) /\ Cardinality({}) = TotalSpan(e)
  BY NoSpan, FS_EmptySet DEF e
<1> HIDE DEF m
<1>5. MergeOf(m, Years(p))
  <2> DEFINE A == {}
  <2>1. /\ IsFiniteSet(A) /\ \A a \in A : a \in Int /\ a < Last(m)[1]
        /\ Cardinality(A) = TotalSpan(Front(m))
        /\ Years(p) = A \cup Years(Last(m))
    BY <1>3, <1>4
  <2>2. m \in Seq(Int \X Int) /\ m # <<>>
    BY <1>3 DEF T
  <2> HIDE DEF A
  <2> QED
    BY <2>1, <2>2 DEF MergeOf
<1> QED
  BY <1>3, <1>5 DEF m

LEMMA MergeStep ==
    ASSUME NEW m, NEW U, MergeOf(m, U), NEW p \in Int \X Int, Last(m)[1] <= p[1]
    PROVE  MergeOf(MergedInto(m, p), U \cup Years(p)) /\ Last(MergedInto(m, p))[1] <= p[1]
<1> DEFINE l == Last(m)
           longer == <<l[1], Longer(l[2], p[2])>>
<1>1. m \in Seq(Int \X Int) /\ m # <<>>
  BY DEF MergeOf
<1>2. PICK A : /\ IsFiniteSet(A) /\ \A a \in A : a \in Int /\ a < l[1]
               /\ Cardinality(A) = TotalSpan(Front(m))
               /\ U = A \cup Years(l)
  BY DEF MergeOf
<1>3. Front(m) \in Seq(Int \X Int) /\ l \in Int \X Int
  BY <1>1, FrontAndLast
<1>4. l[1] \in Int /\ l[2] \in Int /\ p[1] \in Int /\ p[2] \in Int /\ l[1] <= p[1]
  BY <1>3
<1>5. CASE p[1] > l[2]
  <2> DEFINE n == Append(m, p)
  <2>1. MergedInto(m, p) = n
    BY <1>5 DEF MergedInto
  <2>2. n \in Seq(Int \X Int) /\ n # <<>> /\ Front(n) = m /\ Last(n) = p
    BY <1>1, AppendIs
  <2>3. IsFiniteSet(U) /\ Cardinality(U) = TotalSpan(m)
    BY MergeCounts
  <2>4. \A a \in U : a \in Int /\ a < p[1]
    BY <1>2, <1>4, <1>5 DEF Years
  <2> HIDE DEF n
  <2>5. MergeOf(n, U \cup Years(p))
    BY <2>2, <2>3, <2>4 DEF MergeOf
  <2> QED
    BY <1>4, <2>1, <2>2, <2>5
<1>6. CASE ~(p[1] > l[2])
  <2> DEFINE n == Append(Front(m), longer)
  <2>1. MergedInto(m, p) = n
    BY <1>1, <1>6 DEF MergedInto
  <2>2. Longer(l[2], p[2]) \in Int /\ longer \in Int \X Int /\ longer[1] = l[1]
        /\ longer[2] = IF l[2] > p[2] THEN l[2] ELSE p[2]
    BY <1>4 DEF Longer
  <2> HIDE DEF longer
  <2>3. n \in Seq(Int \X Int) /\ n # <<>> /\ Front(n) = Front(m) /\ Last(n) = longer
    BY <1>3, <2>2, AppendIs
  <2>4. Years(longer) = Years(l) \cup Years(p)
    BY <1>4, <1>6, <2>2 DEF Years
  <2>5. U \cup Years(p) = A \cup Years(longer)
    BY <1>2, <2>4
  <2> HIDE DEF n
  <2>6. MergeOf(n, U \cup Years(p))
    <3> HIDE DEF l
    <3> QED
      BY <1>2, <2>2, <2>3, <2>5 DEF MergeOf
  <2> QED
    BY <1>4, <2>1, <2>2, <2>3, <2>6
<1> QED
  BY <1>5, <1>6

LEMMA MergedIntoTyped ==
    ASSUME NEW m \in Seq(Int \X Int), NEW p \in Int \X Int
    PROVE  MergedInto(m, p) \in Seq(Int \X Int)
<1>1. CASE m = <<>> \/ p[1] > Last(m)[2]
  BY <1>1, AppendIs DEF MergedInto
<1>2. CASE ~(m = <<>> \/ p[1] > Last(m)[2])
  <2> DEFINE longer == <<Last(m)[1], Longer(Last(m)[2], p[2])>>
  <2>1. Front(m) \in Seq(Int \X Int) /\ Last(m) \in Int \X Int
    BY <1>2, FrontAndLast
  <2>2. longer \in Int \X Int
    BY <2>1 DEF Longer
  <2>3. MergedInto(m, p) = Append(Front(m), longer)
    BY <1>2 DEF MergedInto
  <2> HIDE DEF longer
  <2> QED
    BY <2>1, <2>2, <2>3, AppendIs
<1> QED
  BY <1>1, <1>2

\* Periods in the order of their starts are merged one after the other.
LEMMA MergedIs ==
    ASSUME NEW o \in Seq(Int \X Int)
    PROVE  \E m \in [0..Len(o) -> Seq(Int \X Int)] :
              /\ m[0] = <<>> /\ \A k \in 1..Len(o) : m[k] = MergedInto(m[k - 1], o[k])
              /\ Merged(o) = m[Len(o)]
<1> DEFINE T == Seq(Int \X Int)
           n == Len(o)
           start == <<>>
           step == [x \in (1..n) \X T |-> MergedInto(x[2], o[x[1]])]
<1>1. n \in Nat /\ start \in T /\ \A k \in 1..n : o[k] \in Int \X Int
  OBVIOUS
<1>2. step \in [(1..n) \X T -> T]
  <2> SUFFICES ASSUME NEW k \in 1..n, NEW s \in T PROVE MergedInto(s, o[k]) \in T
    OBVIOUS
  <2> QED
    BY <1>1, MergedIntoTyped
<1>3. PICK f \in [0..n -> T] : f[0] = start /\ \A k \in 1..n : f[k] = step[<<k, f[k - 1]>>]
  <2>1. n \in Nat /\ start \in T
    BY <1>1
  <2> HIDE DEF T, n, start, step
  <2>2. \E f : Follows(f, T, start, n, step)
    BY <1>2, <2>1, StepsCompose
  <2> QED
    BY <2>2 DEF Follows
<1> HIDE DEF T
<1>4. \A k \in 1..n : f[k] = MergedInto(f[k - 1], o[k])
  <2> TAKE k \in 1..n
  <2>1. k - 1 \in 0..n
    BY <1>1
  <2>2. <<k, f[k - 1]>> \in (1..n) \X T
    BY <2>1
  <2> QED
    BY <1>3, <2>2
<1> HIDE DEF step
<1>5. f = [k \in 0..n |-> IF k = 0 THEN <<>> ELSE MergedInto(f[k - 1], o[k])]
  <2>1. \A k \in 0..n : k # 0 => k \in 1..n
    BY <1>1
  <2>2. f = [k \in 0..n |-> f[k]]
    BY <1>3
  <2> QED
    BY <1>3, <1>4, <2>1, <2>2
<1> DEFINE m == CHOOSE g : g = [k \in 0..n |-> IF k = 0 THEN <<>> ELSE MergedInto(g[k - 1], o[k])]
<1>6. m = [k \in 0..n |-> IF k = 0 THEN <<>> ELSE MergedInto(m[k - 1], o[k])]
  BY <1>5
<1>7. Merged(o) = m[n]
  BY DEF Merged
<1> HIDE DEF m
<1>8. m[0] = <<>> /\ \A k \in 1..n : m[k] = MergedInto(m[k - 1], o[k])
  <2>1. m[0] = <<>>
    BY <1>1, <1>6
  <2>2. ASSUME NEW k \in 1..n PROVE m[k] = MergedInto(m[k - 1], o[k])
    <3>1. k \in 0..n /\ k # 0
      BY <1>1
    <3> QED
      BY <1>6, <3>1
  <2> QED
    BY <2>1, <2>2
<1>9. m = [k \in 0..n |-> m[k]]
  BY <1>6
<1> DEFINE bad == {k \in 0..n : m[k] \notin T}
<1>10. bad = {}
  <2> SUFFICES ASSUME bad # {} PROVE FALSE
    OBVIOUS
  <2>1. PICK j \in bad : \A i \in bad : j <= i
    <3>1. bad \in SUBSET Nat
      OBVIOUS
    <3> HIDE DEF bad
    <3> QED
      BY <3>1, LeastNatural
  <2>2. j \in 1..n /\ j - 1 \in 0..n
    <3>1. m[0] \in T
      BY <1>1, <1>8
    <3>2. j \in 0..n /\ j # 0
      BY <2>1, <3>1
    <3> QED
      BY <1>1, <3>2
  <2>3. m[j - 1] \in T
    BY <1>1, <2>1, <2>2
  <2>4. m[j] \in T
    BY <1>1, <1>8, <2>2, <2>3, MergedIntoTyped DEF T
  <2> QED
    BY <2>1, <2>4
<1>11. m \in [0..n -> T]
  BY <1>9, <1>10
<1> QED
  BY <1>7, <1>8, <1>11 DEF T

LEMMA LexicographicOrders ==
    ASSUME NEW S, S \subseteq Nat, NEW a, a \in [S -> Int], NEW b, b \in [S -> Int], NEW R,
           \A i, j \in S : <<i, j>> \in R <=>
              \/ a[i] < a[j]
              \/ a[i] = a[j] /\ b[i] < b[j]
              \/ a[i] = a[j] /\ b[i] = b[j] /\ i < j
    PROVE  Orders(R, S)
<1>1. \A x \in S : a[x] \in Int /\ b[x] \in Int /\ x \in Int
  OBVIOUS
<1>2. ASSUME NEW x \in S PROVE <<x, x>> \notin R
  BY <1>1
<1>3. ASSUME NEW x \in S, NEW y \in S, NEW z \in S, <<x, y>> \in R, <<y, z>> \in R
      PROVE  <<x, z>> \in R
  <2>1. a[x] \in Int /\ b[x] \in Int /\ x \in Int /\ a[y] \in Int /\ b[y] \in Int /\ y \in Int
        /\ a[z] \in Int /\ b[z] \in Int /\ z \in Int
    BY <1>1
  <2> QED
    BY <1>3, <2>1
<1>4. ASSUME NEW x \in S, NEW y \in S, x # y PROVE <<x, y>> \in R \/ <<y, x>> \in R
  <2>1. a[x] \in Int /\ b[x] \in Int /\ x \in Int /\ a[y] \in Int /\ b[y] \in Int /\ y \in Int
    BY <1>1
  <2> QED
    BY <1>4, <2>1
<1> QED
  BY <1>2, <1>3, <1>4 DEF Orders

\* sorted() keeps the periods and puts their starts in order.
LEMMA SortedIs ==
    ASSUME NEW r \in Seq(Int \X Int)
    PROVE  /\ Sorted(r) \in Seq(Int \X Int) /\ Len(Sorted(r)) = Len(r)
           /\ \A i, j \in 1..Len(r) : i < j => Sorted(r)[i][1] <= Sorted(r)[j][1]
           /\ \A i \in 1..Len(r) : \E k \in 1..Len(r) : Sorted(r)[k] = r[i]
           /\ \A k \in 1..Len(r) : \E i \in 1..Len(r) : Sorted(r)[k] = r[i]
<1> DEFINE n == Len(r)
           S == 1..n
           R == {x \in S \X S : \/ StartsBefore(r[x[1]], r[x[2]])
                                \/ r[x[1]] = r[x[2]] /\ x[1] < x[2]}
           order == InOrder(S, R)
           s == [k \in S |-> r[order[k]]]
<1>1. n \in Nat /\ DOMAIN r = S /\ \A i \in S : r[i] \in Int \X Int
  OBVIOUS
<1>2. \A i, j \in S : r[i] = r[j] <=> r[i][1] = r[j][1] /\ r[i][2] = r[j][2]
  BY <1>1
<1> DEFINE a == [i \in S |-> r[i][1]]
           b == [i \in S |-> r[i][2]]
<1>3. a \in [S -> Int] /\ b \in [S -> Int] /\ \A i \in S : a[i] = r[i][1] /\ i \in Nat
  BY <1>1
<1>4. \A i, j \in S : <<i, j>> \in R <=>
        \/ a[i] < a[j]
        \/ a[i] = a[j] /\ b[i] < b[j]
        \/ a[i] = a[j] /\ b[i] = b[j] /\ i < j
  BY <1>2 DEF StartsBefore
<1>5. Sorted(r) = s
  BY <1>1 DEF Sorted
<1> HIDE DEF R, a, b
<1>6. Orders(R, S)
  <2>1. S \subseteq Nat
    BY <1>3
  <2> HIDE DEF S
  <2> QED
    BY <1>3, <1>4, <2>1, LexicographicOrders
<1>7. IsFiniteSet(S) /\ Cardinality(S) = n
  <2>1. 1 \in Int /\ n \in Int
    BY <1>1
  <2>2. IsFiniteSet(1..n) /\ Cardinality(1..n) = IF 1 > n THEN 0 ELSE n - 1 + 1
    BY <2>1, FS_Interval
  <2> QED
    BY <1>1, <2>2
<1>8. /\ order \in [1..Cardinality(S) -> S]
      /\ \A x \in S : \E k \in 1..Cardinality(S) : order[k] = x
      /\ \A i, j \in 1..Cardinality(S) : i < j => <<order[i], order[j]>> \in R
  <2> HIDE DEF S
  <2> QED
    BY <1>6, <1>7, OrderedOnce
<1>9. /\ \A k \in S : order[k] \in S
      /\ \A x \in S : \E k \in S : order[k] = x
      /\ \A i, j \in S : i < j => <<order[i], order[j]>> \in R
  BY <1>7, <1>8
<1> HIDE DEF order
<1>10. s \in [1..n -> Int \X Int]
  BY <1>1, <1>9
<1>11. s \in Seq(Int \X Int) /\ Len(s) = n
  BY <1>1, <1>10
<1>12. \A i, j \in S : i < j => s[i][1] <= s[j][1]
  <2> SUFFICES ASSUME NEW i \in S, NEW j \in S, i < j PROVE s[i][1] <= s[j][1]
    OBVIOUS
  <2> DEFINE p == order[i]
             q == order[j]
  <2>1. <<p, q>> \in R /\ p \in S /\ q \in S
    BY <1>9
  <2>2. s[i] = r[p] /\ s[j] = r[q]
    OBVIOUS
  <2> HIDE DEF p, q, S, s
  <2>3. a[p] <= a[q]
    <3>1. a[p] < a[q] \/ a[p] = a[q]
      BY <1>4, <2>1
    <3>2. a[p] \in Int /\ a[q] \in Int
      BY <1>3, <2>1
    <3> QED
      BY <3>1, <3>2
  <2> QED
    BY <1>3, <2>1, <2>2, <2>3
<1>13. \A i \in S : \E k \in S : s[k] = r[i]
  BY <1>9
<1>14. \A k \in S : \E i \in S : s[k] = r[i]
  BY <1>9
<1> HIDE DEF s
<1> QED
  BY <1>5, <1>11, <1>12, <1>13, <1>14

\* The years that lie in one of the first k periods.
Covered(o, k) == UNION {Years(o[i]) : i \in 1..k}

LEMMA OneMoreCovered ==
    ASSUME NEW o, NEW k \in Nat
    PROVE  Covered(o, k + 1) = Covered(o, k) \cup Years(o[k + 1])
<1>1. 1..(k + 1) = (1..k) \cup {k + 1}
  OBVIOUS
<1>2. \A y : y \in Covered(o, k + 1) <=> \E i \in 1..(k + 1) : y \in Years(o[i])
  BY DEF Covered
<1>3. \A y : y \in Covered(o, k) <=> \E i \in 1..k : y \in Years(o[i])
  BY DEF Covered
<1>4. \A y : y \in Covered(o, k + 1) <=> y \in Covered(o, k) \cup Years(o[k + 1])
  BY <1>1, <1>2, <1>3
<1> QED
  BY <1>4

\* Of any list of periods, in any order, merge_and_sum_years counts every year
\* that lies in one of them, and counts it once.
THEOREM YearsAreUnions ==
    ASSUME NEW r \in Seq(Int \X Int)
    PROVE  MergeAndSumYears(r) = Cardinality(UNION {Years(r[i]) : i \in DOMAIN r})
<1> DEFINE o == Sorted(r)
           n == Len(r)
<1>1. /\ o \in Seq(Int \X Int) /\ Len(o) = n /\ n \in Nat
      /\ \A i, j \in 1..n : i < j => o[i][1] <= o[j][1]
  <2>1. n \in Nat
    OBVIOUS
  <2> QED
    BY <2>1, SortedIs
<1>2. UNION {Years(r[i]) : i \in DOMAIN r} = Covered(o, n)
  <2>1. DOMAIN r = 1..n
    OBVIOUS
  <2>2. /\ \A i \in 1..n : \E k \in 1..n : o[k] = r[i]
        /\ \A k \in 1..n : \E i \in 1..n : o[k] = r[i]
    BY SortedIs
  <2> HIDE DEF o, n
  <2>3. \A y : y \in Covered(o, n) <=> \E i \in 1..n : y \in Years(o[i])
    BY DEF Covered
  <2>4. \A y : y \in UNION {Years(r[i]) : i \in DOMAIN r} <=> \E i \in 1..n : y \in Years(r[i])
    BY <2>1
  <2>5. \A y : y \in UNION {Years(r[i]) : i \in DOMAIN r} <=> y \in Covered(o, n)
    BY <2>2, <2>3, <2>4
  <2> QED
    BY <2>5
<1>3. MergeAndSumYears(r) = TotalSpan(Merged(o))
  BY DEF MergeAndSumYears
<1> HIDE DEF o, n
<1>4. PICK m \in [0..Len(o) -> Seq(Int \X Int)] :
         /\ m[0] = <<>> /\ \A k \in 1..Len(o) : m[k] = MergedInto(m[k - 1], o[k])
         /\ Merged(o) = m[Len(o)]
  BY <1>1, MergedIs
<1>5. CASE n = 0
  <2>1. Merged(o) = <<>>
    BY <1>1, <1>4, <1>5
  <2>2. Covered(o, n) = {}
    BY <1>5 DEF Covered
  <2> QED
    BY <1>2, <1>3, <2>1, <2>2, NoSpan, FS_EmptySet
<1>6. CASE n # 0
  <2> DEFINE Good(k) == MergeOf(m[k], Covered(o, k)) /\ Last(m[k])[1] <= o[k][1]
             bad == {k \in 1..n : ~Good(k)}
  <2>1. \A k \in 1..n : o[k] \in Int \X Int /\ o[k][1] \in Int
    BY <1>1
  <2>2. Good(1)
    <3>1. 1 \in 1..n
      BY <1>1, <1>6
    <3>2. m[1] = MergedInto(<<>>, o[1])
      BY <1>1, <1>4, <3>1
    <3>3. Covered(o, 1) = Years(o[1])
      <4>1. 1..1 = {1}
        OBVIOUS
      <4> QED
        BY <4>1 DEF Covered
    <3> QED
      BY <2>1, <3>1, <3>2, <3>3, MergeStarts
  <2>3. ASSUME NEW k \in 1..n, k + 1 \in 1..n, Good(k) PROVE Good(k + 1)
    <3>1. k \in Nat /\ k < k + 1 /\ (k + 1) - 1 = k
      OBVIOUS
    <3>2. m[k + 1] = MergedInto(m[k], o[k + 1])
      BY <1>1, <1>4, <2>3, <3>1
    <3>3. o[k][1] <= o[k + 1][1] /\ o[k][1] \in Int /\ o[k + 1][1] \in Int /\ o[k + 1] \in Int \X Int
      BY <1>1, <2>1, <2>3, <3>1
    <3>4. Last(m[k])[1] \in Int
      <4>1. m[k] \in Seq(Int \X Int) /\ m[k] # <<>>
        BY <2>3 DEF MergeOf
      <4>2. Last(m[k]) \in Int \X Int
        BY <4>1, FrontAndLast
      <4> QED
        BY <4>2
    <3>5. Last(m[k])[1] <= o[k + 1][1]
      BY <2>3, <3>3, <3>4
    <3>6. MergeOf(MergedInto(m[k], o[k + 1]), Covered(o, k) \cup Years(o[k + 1]))
          /\ Last(MergedInto(m[k], o[k + 1]))[1] <= o[k + 1][1]
      BY <2>3, <3>3, <3>5, MergeStep
    <3>7. Covered(o, k + 1) = Covered(o, k) \cup Years(o[k + 1])
      BY <3>1, OneMoreCovered
    <3> QED
      BY <3>2, <3>6, <3>7
  <2> HIDE DEF Good
  <2>4. bad = {}
    <3> SUFFICES ASSUME bad # {} PROVE FALSE
      OBVIOUS
    <3>1. PICK k \in bad : \A i \in bad : k <= i
      <4>1. bad \in SUBSET Nat
        OBVIOUS
      <4> QED
        BY <4>1, LeastNatural
    <3>2. k \in 1..n /\ ~Good(k) /\ k # 1
      BY <2>2, <3>1
    <3>3. k - 1 \in 1..n /\ (k - 1) + 1 = k
      BY <1>1, <3>2
    <3>4. Good(k - 1)
      BY <3>1, <3>3
    <3> QED
      BY <2>3, <3>2, <3>3, <3>4
  <2>5. n \in 1..n
    BY <1>1, <1>6
  <2>6. MergeOf(m[n], Covered(o, n))
    BY <2>4, <2>5 DEF Good
  <2> QED
    BY <1>1, <1>2, <1>3, <1>4, <2>6, MergeCounts
<1> QED
  BY <1>5, <1>6

LEMMA DurationsCountOnce == DurationsAreUnions
<1> SUFFICES ASSUME NEW r \in [1..3 -> (2001..2004) \X (2001..2004)]
             PROVE  MergeAndSumYears(r) = Cardinality(UNION {p[1]..(p[2] - 1) : p \in ToSet(r)})
  BY DEF DurationsAreUnions
<1>1. r \in Seq(Int \X Int) /\ DOMAIN r = 1..3
  <2>1. (2001..2004) \X (2001..2004) \subseteq Int \X Int
    OBVIOUS
  <2>2. r \in [1..3 -> Int \X Int]
    BY <2>1
  <2> QED
    BY <2>2
<1>2. {Years(r[i]) : i \in DOMAIN r} = {p[1]..(p[2] - 1) : p \in ToSet(r)}
  BY <1>1 DEF ToSet, Years
<1>3. MergeAndSumYears(r) = Cardinality(UNION {Years(r[i]) : i \in DOMAIN r})
  BY <1>1, YearsAreUnions
<1> DEFINE A == {Years(r[i]) : i \in DOMAIN r}
           B == {p[1]..(p[2] - 1) : p \in ToSet(r)}
<1>4. A = B /\ MergeAndSumYears(r) = Cardinality(UNION A)
  BY <1>2, <1>3
<1> HIDE DEF A, B
<1>5. MergeAndSumYears(r) = Cardinality(UNION B)
  BY <1>4
<1> QED
  BY <1>5 DEF B
-----------------------------------------------------------------------------
(* Scores and rankings.                                                    *)

Statuses == {"MATCH", "NOT_MATCHED", "UNKNOWN", "MANUAL_REVIEW_REQUIRED"}
Bands == {"STRONG_MATCH", "POTENTIAL_MATCH", "MANUAL_REVIEW_REQUIRED", "INSUFFICIENT_EVIDENCE"}

\* Every kind of criterion has an evaluator, and none answers anything else.
LEMMA StatusesAreFour ==
    ASSUME NEW c, ValidCriterion(c), NEW p
    PROVE  EvaluateCriterion(c, p) \in Statuses
<1> DEFINE Five == Statuses \cup {"CONFLICTING_EVIDENCE"}
<1>1. \A s \in Five : Finalized(c, s) \in Statuses
  BY DEF Finalized, Statuses
<1>2. \A years, required : Duration(years, required) \in Five
  BY DEF Duration, Statuses
<1>3. \A names : Listed(c, names) \in Five
  BY DEF Listed, Statuses
<1>4. EvaluateSkill(c, p) \in Five /\ EvaluateCertification(c, p) \in Five /\ EvaluateEducation(c, p) \in Five
  BY <1>3 DEF EvaluateSkill, EvaluateCertification, EvaluateEducation
<1>5. EvaluateLanguage(c, p) \in Five
  BY DEF EvaluateLanguage, Statuses
<1>6. EvaluateExperience(c, p) \in Five
  BY <1>2 DEF EvaluateExperience, Statuses
<1>7. EvaluateSkillExperience(c, p) \in Five
  BY <1>2 DEF EvaluateSkillExperience, Statuses
<1>8. EvaluateDomainExperience(c, p) \in Five
  BY <1>2 DEF EvaluateDomainExperience, Statuses
<1>9. c.kind \in CriterionKinds
  BY DEF ValidCriterion
<1> HIDE DEF Five
<1> QED
  BY <1>1, <1>4, <1>5, <1>6, <1>7, <1>8, <1>9 DEF EvaluateCriterion, CriterionKinds

LEMMA ResultsTyped ==
    ASSUME NEW v \in DOMAIN Criteria, NEW p
    PROVE  LET n == Len(Criteria[v])
               rs == Results(Criteria[v], p)
           IN  /\ n \in Nat /\ DOMAIN rs = 1..n
               /\ \A i \in 1..n : /\ rs[i].type = Criteria[v][i].type
                                  /\ rs[i].weight = Criteria[v][i].weight /\ rs[i].weight \in Nat
                                  /\ rs[i].status \in Statuses
               /\ \E i \in 1..n : rs[i].weight > 0
<1> DEFINE cs == Criteria[v]
           n == Len(cs)
           rs == Results(cs, p)
<1>1. cs \in Seq(ToSet(cs)) /\ ValidCriteria(cs)
  BY HiringAssumption
<1>2. n \in Nat /\ DOMAIN cs = 1..n
  <2> HIDE DEF cs
  <2> QED
    BY <1>1
<1>3. \A i \in 1..n : ValidCriterion(cs[i])
  BY <1>1, <1>2 DEF ValidCriteria
<1>4. PICK k \in 1..n : cs[k].weight > 0
  BY <1>1, <1>2 DEF ValidCriteria
<1> HIDE DEF cs
<1>5. DOMAIN rs = 1..n
  BY <1>2 DEF Results
<1>6. ASSUME NEW i \in 1..n
      PROVE  /\ rs[i].type = cs[i].type /\ rs[i].weight = cs[i].weight /\ rs[i].weight \in Nat
             /\ rs[i].status \in Statuses
  <2>1. rs[i] = [type |-> cs[i].type, weight |-> cs[i].weight, status |-> EvaluateCriterion(cs[i], p)]
    BY <1>2 DEF Results
  <2>2. ValidCriterion(cs[i])
    BY <1>3
  <2>3. EvaluateCriterion(cs[i], p) \in Statuses
    BY <2>2, StatusesAreFour
  <2>4. cs[i].weight \in Nat
    BY <2>2 DEF ValidCriterion
  <2> QED
    BY <2>1, <2>3, <2>4
<1>7. rs[k].weight > 0
  BY <1>4, <1>6
<1> HIDE DEF n, rs
<1> QED
  BY <1>2, <1>5, <1>6, <1>7 DEF cs, n, rs

\* The criteria of a version weigh something, so that a score is a number.
LEMMA ScorecardTyped ==
    ASSUME NEW v \in DOMAIN Criteria, NEW p
    PROVE  /\ Scorecard(Criteria[v], p).results = Results(Criteria[v], p)
           /\ Scorecard(Criteria[v], p).band = OverallResult(Results(Criteria[v], p))
           /\ Scorecard(Criteria[v], p).score \in Int
           /\ Scorecard(Criteria[v], p).band \in Bands
<1> DEFINE n == Len(Criteria[v])
           rs == Results(Criteria[v], p)
<1>1. /\ n \in Nat /\ DOMAIN rs = 1..n
      /\ \A i \in 1..n : rs[i].weight \in Nat /\ rs[i].status \in Statuses
  BY ResultsTyped
<1>2. PICK k \in 1..n : rs[k].weight > 0
  BY ResultsTyped
<1> HIDE DEF n, rs
<1> DEFINE w == [i \in 1..n |-> rs[i].weight]
           h == [i \in 1..n |-> rs[i].weight * HalvesFor(rs[i].status)]
<1>3. w \in Seq(Nat) /\ Len(w) = n
  <2>1. w \in [1..n -> Nat]
    BY <1>1
  <2> HIDE DEF w
  <2> QED
    BY <1>1, <2>1
<1>4. h \in Seq(Int)
  <2>1. ASSUME NEW i \in 1..n PROVE rs[i].weight * HalvesFor(rs[i].status) \in Int
    <3> DEFINE a == rs[i].weight
               b == HalvesFor(rs[i].status)
    <3>1. a \in Nat /\ b \in {0, 1, 2}
      BY <1>1 DEF HalvesFor
    <3> HIDE DEF a, b
    <3>2. a * b \in Int
      BY <3>1
    <3> QED
      BY <3>2 DEF a, b
  <2>2. h \in [1..n -> Int]
    BY <2>1
  <2> HIDE DEF h
  <2> QED
    BY <1>1, <2>2
<1>5. TotalWeight(rs) = SumOf(w) /\ WeightedHalves(rs) = SumOf(h)
  BY <1>1 DEF TotalWeight, WeightedHalves
<1>6. TotalWeight(rs) \in Int /\ TotalWeight(rs) > 0
  <2>1. k \in 1..Len(w) /\ w[k] = rs[k].weight /\ w[k] \in Nat
    BY <1>1, <1>3
  <2> HIDE DEF w
  <2>2. SumOf(w) \in Int /\ SumOf(w) >= w[k]
    BY <1>3, <2>1, SumPositive
  <2> QED
    BY <1>2, <1>5, <2>1, <2>2
<1>7. WeightedHalves(rs) \in Int
  <2> HIDE DEF h
  <2>1. SumOf(h) \in Int
    <3>1. 0 \in Int
      OBVIOUS
    <3> QED
      BY <1>4, <3>1, SumAppend
  <2> QED
    BY <1>5, <2>1
<1>8. ScoreResults(rs) \in Int
  <2> DEFINE t == TotalWeight(rs)
             a == WeightedHalves(rs)
  <2>1. t \in Int /\ t > 0 /\ a \in Int
    BY <1>6, <1>7
  <2>2. ScoreResults(rs) = (10000 * a + t) \div (2 * t)
    BY DEF ScoreResults
  <2> HIDE DEF t, a
  <2>3. 10000 * a + t \in Int /\ 2 * t \in Int /\ 2 * t > 0
    BY <2>1
  <2> QED
    BY <2>2, <2>3
<1>9. OverallResult(rs) \in Bands
  BY DEF OverallResult, Bands
<1> QED
  BY <1>8, <1>9 DEF Scorecard, rs

IsRow(e) ==
    e.candidate \in Candidates /\ e.profile \in 1..MaxProfile /\ e.version \in DOMAIN Criteria

LEMMA EntryTyped ==
    ASSUME NEW e, IsRow(e)
    PROVE  LET rs == Results(Criteria[e.version], Facts[<<e.candidate, e.profile>>])
           IN  /\ ScorecardOf(e).results = rs
               /\ Entry(e).band = OverallResult(rs) /\ Entry(e).band \in Bands
               /\ Entry(e).score \in Int
               /\ Entry(e).candidate = e.candidate /\ Entry(e).candidate \in Nat
               /\ Entry(e).row = e
<1> DEFINE x == <<e.version, <<e.candidate, e.profile>>>>
<1>1. x \in (DOMAIN Criteria) \X (DOMAIN Facts)
  BY HiringAssumption DEF IsRow
<1>2. x[1] = e.version /\ x[2] = <<e.candidate, e.profile>>
  OBVIOUS
<1>3. ScorecardOf(e) = Scorecard(Criteria[e.version], Facts[<<e.candidate, e.profile>>])
  BY <1>1, <1>2 DEF ScorecardOf, Scorecards
<1>4. e.version \in DOMAIN Criteria /\ e.candidate \in Nat
  BY HiringAssumption DEF IsRow
<1> DEFINE facts == Facts[<<e.candidate, e.profile>>]
<1> HIDE DEF facts
<1>5. /\ Scorecard(Criteria[e.version], facts).results = Results(Criteria[e.version], facts)
      /\ Scorecard(Criteria[e.version], facts).band = OverallResult(Results(Criteria[e.version], facts))
      /\ Scorecard(Criteria[e.version], facts).score \in Int
      /\ Scorecard(Criteria[e.version], facts).band \in Bands
  BY <1>4, ScorecardTyped
<1>6. Entry(e) = [candidate |-> e.candidate, row |-> e, band |-> ScorecardOf(e).band,
                  score |-> ScorecardOf(e).score]
  BY DEF Entry
<1> QED
  BY <1>3, <1>4, <1>5, <1>6 DEF facts

\* Entries of a ranking: one for each candidate.
Rankable(S) ==
    /\ IsFiniteSet(S)
    /\ \A x \in S : x.band \in Bands /\ x.score \in Int /\ x.candidate \in Nat
    /\ \A x, y \in S : x.candidate = y.candidate => x = y

LEMMA TiersAre ==
    \A b \in Bands : /\ FitTier(b) \in 0..3
                     /\ FitTier(b) <= 1 <=> b \in {"STRONG_MATCH", "POTENTIAL_MATCH"}
BY DEF Bands, FitTier

LEMMA OutranksOrders ==
    ASSUME NEW S, Rankable(S)
    PROVE  Orders({x \in S \X S : Outranks(x[1], x[2])}, S)
<1> DEFINE R == {x \in S \X S : Outranks(x[1], x[2])}
           t == [x \in S |-> FitTier(x.band)]
           s == [x \in S |-> x.score]
           c == [x \in S |-> x.candidate]
<1>1. t \in [S -> Int] /\ s \in [S -> Int] /\ c \in [S -> Nat]
  BY TiersAre DEF Rankable
<1>2. \A x, y \in S : c[x] = c[y] => x = y
  BY DEF Rankable
<1>3. \A x, y \in S : <<x, y>> \in R <=>
        \/ t[x] < t[y]
        \/ t[x] = t[y] /\ s[x] > s[y]
        \/ t[x] = t[y] /\ s[x] = s[y] /\ c[x] < c[y]
  BY DEF Outranks
<1> HIDE DEF R, t, s, c
<1>4. \A x \in S : t[x] \in Int /\ s[x] \in Int /\ c[x] \in Nat
  BY <1>1
<1>5. ASSUME NEW x \in S PROVE <<x, x>> \notin R
  BY <1>3, <1>4
<1>6. ASSUME NEW x \in S, NEW y \in S, NEW z \in S, <<x, y>> \in R, <<y, z>> \in R
      PROVE  <<x, z>> \in R
  BY <1>3, <1>4, <1>6
<1>7. ASSUME NEW x \in S, NEW y \in S, x # y PROVE <<x, y>> \in R \/ <<y, x>> \in R
  <2>1. c[x] # c[y]
    BY <1>2, <1>7
  <2> QED
    BY <1>3, <1>4, <2>1
<1>8. Orders(R, S)
  BY <1>5, <1>6, <1>7 DEF Orders
<1> QED
  BY <1>8 DEF R

LEMMA PresentedIs ==
    ASSUME NEW E, Rankable(E), NEW eligibleOnly, NEW limit \in Nat
    PROVE  LET list == Presented(E, eligibleOnly, limit)
           IN  /\ \A i \in DOMAIN list : i \in Nat /\ list[i] \in E
               /\ \A i, j \in DOMAIN list : i < j => Outranks(list[i], list[j])
<1> DEFINE K == {e \in E : eligibleOnly => e.band \in {"STRONG_MATCH", "POTENTIAL_MATCH"}}
           R == {x \in K \X K : Outranks(x[1], x[2])}
           n == Cardinality(K)
           all == InOrder(K, R)
           m == IF Len(all) < limit THEN Len(all) ELSE limit
           list == Presented(E, eligibleOnly, limit)
<1>1. K \subseteq E /\ IsFiniteSet(K)
  <2>1. K \subseteq E
    OBVIOUS
  <2> HIDE DEF K
  <2> QED
    BY <2>1, FS_Subset DEF Rankable
<1>2. Rankable(K)
  BY <1>1 DEF Rankable
<1>3. list = SubSeq(all, 1, m)
  BY DEF Presented
<1>4. \A x, y \in K : <<x, y>> \in R => Outranks(x, y)
  OBVIOUS
<1>5. Orders(R, K)
  <2> HIDE DEF K
  <2> QED
    BY <1>2, OutranksOrders
<1> HIDE DEF K, R
<1>6. /\ n \in Nat /\ all \in [1..n -> K]
      /\ \A i, j \in 1..n : i < j => <<all[i], all[j]>> \in R
  BY <1>1, <1>5, OrderedOnce
<1> HIDE DEF list, all, n
<1>7. all \in Seq(K) /\ Len(all) = n /\ m \in Nat /\ m <= n
  BY <1>6
<1> HIDE DEF m
<1>8. DOMAIN list = 1..m /\ \A i \in 1..m : list[i] = all[i]
  <2>1. Len(SubSeq(all, 1, m)) = m /\ \A i \in 1..m : SubSeq(all, 1, m)[i] = all[i]
    BY <1>6, <1>7
  <2>2. DOMAIN SubSeq(all, 1, m) = 1..m
    BY <1>6, <1>7
  <2> QED
    BY <1>3, <2>1, <2>2
<1>9. \A i \in 1..m : i \in 1..n
  BY <1>6, <1>7
<1>10. \A i \in DOMAIN list : i \in Nat /\ list[i] \in E
  BY <1>1, <1>6, <1>7, <1>8, <1>9
<1>11. \A i, j \in DOMAIN list : i < j => Outranks(list[i], list[j])
  <2> SUFFICES ASSUME NEW i \in DOMAIN list, NEW j \in DOMAIN list, i < j
               PROVE  Outranks(list[i], list[j])
    OBVIOUS
  <2>1. i \in 1..n /\ j \in 1..n /\ list[i] = all[i] /\ list[j] = all[j]
    BY <1>8, <1>9
  <2>2. <<all[i], all[j]>> \in R /\ all[i] \in K /\ all[j] \in K
    BY <1>6, <2>1
  <2> QED
    BY <1>4, <2>1, <2>2
<1> QED
  BY <1>10, <1>11 DEF list

\* The bands of those whose must-haves are all met, and of nobody else.
LEMMA GoodBands ==
    ASSUME NEW e, IsRow(e)
    PROVE  /\ MustHavesMet(Entry(e)) /\ Entry(e).band # "MANUAL_REVIEW_REQUIRED"
                 => Entry(e).band \in {"STRONG_MATCH", "POTENTIAL_MATCH"}
           /\ Entry(e).band \in {"STRONG_MATCH", "POTENTIAL_MATCH"} => MustHavesMet(Entry(e))
<1> DEFINE rs == Results(Criteria[e.version], Facts[<<e.candidate, e.profile>>])
           n == Len(Criteria[e.version])
           band == Entry(e).band
           musts == {k \in DOMAIN rs : rs[k].type = "MUST_HAVE"}
           statuses == {rs[i].status : i \in musts}
<1>1. /\ ScorecardOf(e).results = rs /\ band = OverallResult(rs) /\ band \in Bands
      /\ Entry(e).row = e
  BY EntryTyped
<1>2. DOMAIN rs = 1..n /\ \A i \in 1..n : rs[i].status \in Statuses
  BY ResultsTyped DEF IsRow
<1>3. MustHavesMet(Entry(e)) <=> \A i \in musts : rs[i].status = "MATCH"
  <2> HIDE DEF rs
  <2> QED
    BY <1>1 DEF MustHavesMet, ToSet
<1>4. band = IF \E i \in DOMAIN rs : rs[i].status \in {"MANUAL_REVIEW_REQUIRED", "CONFLICTING_EVIDENCE"}
             THEN "MANUAL_REVIEW_REQUIRED"
             ELSE IF statuses \cap {"NOT_MATCHED", "UNKNOWN", "PARTIAL_MATCH"} # {}
             THEN "INSUFFICIENT_EVIDENCE"
             ELSE OverallResult(rs)
  <2> HIDE DEF rs, band
  <2> QED
    BY <1>1 DEF OverallResult
<1>5. (\A i \in musts : rs[i].status = "MATCH")
      => statuses \cap {"NOT_MATCHED", "UNKNOWN", "PARTIAL_MATCH"} = {}
  <2> HIDE DEF rs
  <2> QED
    OBVIOUS
<1>6. ASSUME \A i \in DOMAIN rs : ~(rs[i].status \in {"MANUAL_REVIEW_REQUIRED", "CONFLICTING_EVIDENCE"}),
             statuses \cap {"NOT_MATCHED", "UNKNOWN", "PARTIAL_MATCH"} = {}
      PROVE  \A i \in musts : rs[i].status = "MATCH"
  <2> SUFFICES ASSUME NEW i \in musts PROVE rs[i].status = "MATCH"
    OBVIOUS
  <2> HIDE DEF rs
  <2>1. rs[i].status \in Statuses /\ rs[i].status \in statuses /\ i \in DOMAIN rs
    BY <1>2
  <2> HIDE DEF statuses
  <2> QED
    BY <1>6, <2>1 DEF Statuses
<1>7. OverallResult(rs) = "INSUFFICIENT_EVIDENCE" =>
        statuses \cap {"NOT_MATCHED", "UNKNOWN", "PARTIAL_MATCH"} # {}
  <2> HIDE DEF rs
  <2> QED
    BY DEF OverallResult
<1> HIDE DEF rs, statuses, musts, band
<1>8. MustHavesMet(Entry(e)) /\ band # "MANUAL_REVIEW_REQUIRED"
        => band \in {"STRONG_MATCH", "POTENTIAL_MATCH"}
  BY <1>1, <1>3, <1>5, <1>7 DEF Bands
<1>9. band \in {"STRONG_MATCH", "POTENTIAL_MATCH"} => MustHavesMet(Entry(e))
  BY <1>3, <1>4, <1>6
<1> QED
  BY <1>8, <1>9 DEF band
-----------------------------------------------------------------------------
OneEach(S) == \A e, f \in S : e.candidate = f.candidate => e = f

\* What a request has in hand: rows of the library, and a candidate it has dealt
\* with is not waiting again.
GoodRequest(w) ==
    /\ \A e \in w.mine \cup w.found \cup w.result : IsRow(e)
    /\ IsFiniteSet(w.mine) /\ IsFiniteSet(w.found) /\ IsFiniteSet(w.result)
    /\ OneEach(w.result)
    /\ w.pc = "evaluate" =>
          /\ w.version \in DOMAIN Criteria
          /\ w.todo \in Seq(Candidates \X (1..MaxProfile))
          /\ \A i, j \in DOMAIN w.todo : i # j => w.todo[i][1] # w.todo[j][1]
          /\ OneEach(w.mine \cup w.found)
          /\ \A e \in w.mine \cup w.found : \A i \in DOMAIN w.todo : e.candidate # w.todo[i][1]

RankingInv ==
    /\ profile \in [Candidates -> NoCandidate..MaxProfile]
    /\ \A e \in evaluations : IsRow(e)
    /\ \A r \in Requests : GoodRequest(req[r])

LEMMA RankingInitInv == HiringInit => RankingInv
<1> SUFFICES ASSUME HiringInit PROVE RankingInv
  OBVIOUS
<1>1. profile \in [Candidates -> NoCandidate..MaxProfile]
  BY HiringAssumption DEF HiringInit, NoCandidate
<1>2. /\ NewRequest.mine = {} /\ NewRequest.found = {} /\ NewRequest.result = {}
      /\ NewRequest.pc = "idle"
  BY DEF NewRequest
<1>3. GoodRequest(NewRequest)
  BY <1>2, FS_EmptySet DEF GoodRequest, OneEach
<1> QED
  BY <1>1, <1>3 DEF HiringInit, RankingInv

LEMMA RankingMoves ==
    ASSUME RequestsTyped, RankingInv, UNCHANGED <<profile, evaluations>>, NEW r \in Requests,
           NEW w, IsRequest(w), w.pc # "idle", Becomes(r, w), GoodRequest(w)
    PROVE  RankingInv'
<1>1. req'[r] = w /\ \A o \in Requests \ {r} : req'[o] = req[o]
  BY RequestMoves
<1>2. \A o \in Requests : GoodRequest(req'[o])
  BY <1>1 DEF RankingInv
<1> QED
  BY <1>2 DEF RankingInv, GoodRequest, OneEach, IsRow

\* A request that is not evaluating keeps what it has.
LEMMA GoodWhenPassing ==
    ASSUME NEW v, GoodRequest(v), NEW w, w.pc # "evaluate", w.mine \in {v.mine, {}},
           w.found = v.found, w.result = v.result
    PROVE  GoodRequest(w)
BY FS_EmptySet DEF GoodRequest

LEMMA GoodAnswer ==
    ASSUME RequestsTyped, RankingInv, NEW r \in Requests, NEW answer, Answers(r, answer)
    PROVE  \E w : /\ IsRequest(w) /\ w.pc = "done" /\ w.result = req[r].result
                  /\ Becomes(r, w) /\ GoodRequest(w)
<1> DEFINE w == [req[r] EXCEPT !.pc = "done", !.answer = answer, !.mine = {}, !.todo = <<>>]
<1>1. /\ IsRequest(w) /\ w.pc = "done" /\ w.mine = {}
      /\ w.found = req[r].found /\ w.result = req[r].result
  BY DEF RequestsTyped, IsRequest, RequestFields
<1>2. Becomes(r, w)
  BY DEF Answers
<1> HIDE DEF w
<1>3. GoodRequest(req[r])
  BY DEF RankingInv
<1>4. GoodRequest(w)
  BY <1>1, <1>3, GoodWhenPassing
<1> QED
  BY <1>1, <1>2, <1>4

LEMMA AnswerKeepsRanking ==
    ASSUME RequestsTyped, RankingInv, UNCHANGED <<profile, evaluations>>, NEW r \in Requests,
           NEW answer, Answers(r, answer)
    PROVE  RankingInv'
<1>1. PICK w : IsRequest(w) /\ w.pc = "done" /\ Becomes(r, w) /\ GoodRequest(w)
  BY GoodAnswer
<1> QED
  BY <1>1, RankingMoves

LEMMA MoveKeepsRanking ==
    ASSUME RequestsTyped, RankingInv, UNCHANGED <<profile, evaluations>>, NEW r \in Requests,
           NEW pc, MovesTo(r, pc), pc \notin {"idle", "evaluate"}
    PROVE  RankingInv'
<1> DEFINE w == [req[r] EXCEPT !.pc = pc]
<1>1. /\ IsRequest(w) /\ w.pc = pc /\ w.mine = req[r].mine
      /\ w.found = req[r].found /\ w.result = req[r].result
  BY DEF RequestsTyped, IsRequest, RequestFields
<1>2. Becomes(r, w)
  BY DEF MovesTo
<1> HIDE DEF w
<1>3. GoodRequest(w)
  BY <1>1, GoodWhenPassing DEF RankingInv
<1> QED
  BY <1>1, <1>2, <1>3, RankingMoves

\* The library: every candidate that is there, once.
LEMMA LibraryIs ==
    ASSUME RankingInv
    PROVE  /\ Library \in Seq(Candidates \X (1..MaxProfile))
           /\ \A i, j \in DOMAIN Library : i # j => Library[i][1] # Library[j][1]
<1> DEFINE R == {x \in Kept \X Kept : x[1] < x[2]}
           n == Cardinality(Kept)
           order == InOrder(Kept, R)
<1>1. Kept \subseteq Candidates /\ IsFiniteSet(Kept) /\ \A c \in Kept : c \in Nat
  <2>1. Kept \subseteq Candidates
    BY DEF Kept
  <2> QED
    BY <2>1, HiringAssumption, FS_Subset
<1>2. \A c \in Kept : profile[c] \in 1..MaxProfile
  BY HiringAssumption DEF RankingInv, Kept, NoCandidate
<1>3. \A x, y \in Kept : <<x, y>> \in R <=> x < y
  OBVIOUS
<1>4. Library = [k \in DOMAIN order |-> <<order[k], profile[order[k]]>>]
  BY DEF Library
<1> HIDE DEF R
<1>5. Orders(R, Kept)
  BY <1>1, <1>3 DEF Orders
<1>6. /\ n \in Nat /\ order \in [1..n -> Kept]
      /\ \A i, j \in 1..n : i < j => <<order[i], order[j]>> \in R
  BY <1>1, <1>5, OrderedOnce
<1> HIDE DEF order, n
<1>7. Library \in [1..n -> Candidates \X (1..MaxProfile)]
  BY <1>1, <1>2, <1>4, <1>6
<1>8. Library \in Seq(Candidates \X (1..MaxProfile)) /\ DOMAIN Library = 1..n
  BY <1>6, <1>7
<1>9. ASSUME NEW i \in 1..n, NEW j \in 1..n, i # j PROVE Library[i][1] # Library[j][1]
  <2>1. order[i] \in Kept /\ order[j] \in Kept /\ (i < j \/ j < i)
    BY <1>6, <1>9
  <2>2. order[i] < order[j] \/ order[j] < order[i]
    BY <1>3, <1>6, <2>1
  <2>3. order[i] \in Nat /\ order[j] \in Nat
    BY <1>1, <2>1
  <2>4. Library[i][1] = order[i] /\ Library[j][1] = order[j]
    BY <1>4, <1>6
  <2> QED
    BY <2>2, <2>3, <2>4
<1> QED
  BY <1>8, <1>9

LEMMA RankingBegins ==
    ASSUME RequestsTyped, RankingInv, UNCHANGED <<profile, evaluations>>, NEW r \in Requests,
           req[r].pc = "idle", NEW w, IsRequest(w), Becomes(r, w), w.pc = "evaluate",
           w.version \in DOMAIN Criteria, w.mine = req[r].mine, w.found = req[r].found,
           w.result = req[r].result, w.todo \in Seq(Candidates \X (1..MaxProfile)),
           \A i, j \in DOMAIN w.todo : i # j => w.todo[i][1] # w.todo[j][1]
    PROVE  RankingInv'
<1>1. w.mine = {} /\ w.found = {}
  BY DEF RequestsTyped, NewRequest
<1>2. GoodRequest(req[r])
  BY DEF RankingInv
<1>3. GoodRequest(w)
  BY <1>1, <1>2 DEF GoodRequest, OneEach
<1> QED
  BY <1>3, RankingMoves

LEMMA RankingArrives ==
    ASSUME RequestsTyped, RankingInv, NEW r \in Requests, Arrive(r)
    PROVE  RankingInv'
<1>1. req[r].pc = "idle" /\ UNCHANGED <<profile, evaluations>>
  BY DEF Arrive, CreateChecked, CreateByMachine, AppendRead, ArchiveRead, RankStart, ScoreStart,
         DeleteLock, NothingCommitted
<1>2. IsRequest(req[r]) /\ GoodRequest(req[r])
  BY DEF RequestsTyped, RankingInv
<1>3. ASSUME NEW s, CreateChecked(r, s) PROVE RankingInv'
  <2>1. CASE Answers(r, "duplicate")
    BY <1>1, <2>1, AnswerKeepsRanking
  <2>2. CASE Becomes(r, [req[r] EXCEPT !.pc = "create", !.signature = s])
    <3> DEFINE w == [req[r] EXCEPT !.pc = "create", !.signature = s]
    <3>1. IsRequest(w) /\ w.pc = "create" /\ w.mine = req[r].mine /\ w.result = req[r].result
          /\ w.found = req[r].found
      BY <1>2 DEF IsRequest, RequestFields
    <3>2. Becomes(r, w)
      BY <2>2
    <3> HIDE DEF w
    <3>3. GoodRequest(w)
      BY <1>2, <3>1, GoodWhenPassing
    <3> QED
      BY <1>1, <3>1, <3>2, <3>3, RankingMoves
  <2> QED
    BY <1>3, <2>1, <2>2 DEF CreateChecked
<1>4. CASE CreateByMachine(r)
  BY <1>1, <1>4, MoveKeepsRanking DEF CreateByMachine
<1>5. ASSUME NEW j, AppendRead(r, j) PROVE RankingInv'
  <2> DEFINE w == [req[r] EXCEPT !.pc = "append", !.job = j, !.version = jobs[j].versions + 1]
  <2>1. IsRequest(w) /\ w.pc = "append" /\ w.mine = req[r].mine /\ w.result = req[r].result
        /\ w.found = req[r].found
    BY <1>2 DEF IsRequest, RequestFields
  <2>2. Becomes(r, w)
    BY <1>5 DEF AppendRead
  <2> HIDE DEF w
  <2>3. GoodRequest(w)
    BY <1>2, <2>1, GoodWhenPassing
  <2> QED
    BY <1>1, <2>1, <2>2, <2>3, RankingMoves
<1>6. ASSUME NEW j, ArchiveRead(r, j) PROVE RankingInv'
  <2>1. CASE Answers(r, "already_archived")
    BY <1>1, <2>1, AnswerKeepsRanking
  <2>2. CASE Becomes(r, [req[r] EXCEPT !.pc = "archive", !.job = j])
    <3> DEFINE w == [req[r] EXCEPT !.pc = "archive", !.job = j]
    <3>1. IsRequest(w) /\ w.pc = "archive" /\ w.mine = req[r].mine /\ w.result = req[r].result
          /\ w.found = req[r].found
      BY <1>2 DEF IsRequest, RequestFields
    <3>2. Becomes(r, w)
      BY <2>2
    <3> HIDE DEF w
    <3>3. GoodRequest(w)
      BY <1>2, <3>1, GoodWhenPassing
    <3> QED
      BY <1>1, <3>1, <3>2, <3>3, RankingMoves
  <2> QED
    BY <1>6, <2>1, <2>2 DEF ArchiveRead
<1>7. ASSUME NEW j, NEW v \in DOMAIN Criteria, RankStart(r, j, v) PROVE RankingInv'
  <2>1. CASE Answers(r, "JOB_ARCHIVED")
    BY <1>1, <2>1, AnswerKeepsRanking
  <2>2. CASE Becomes(r, [req[r] EXCEPT !.pc = "evaluate", !.job = j, !.version = v, !.todo = Library])
    <3> DEFINE w == [req[r] EXCEPT !.pc = "evaluate", !.job = j, !.version = v, !.todo = Library]
    <3>1. IsRequest(w) /\ w.pc = "evaluate" /\ w.mine = req[r].mine /\ w.result = req[r].result
          /\ w.found = req[r].found /\ w.version = v /\ w.todo = Library
      BY <1>2 DEF IsRequest, RequestFields
    <3>2. Becomes(r, w)
      BY <2>2
    <3> HIDE DEF w
    <3> QED
      BY <1>1, <3>1, <3>2, LibraryIs, RankingBegins
  <2> QED
    BY <1>7, <2>1, <2>2 DEF RankStart
<1>8. ASSUME NEW c \in Candidates, NEW p \in 1..MaxProfile, NEW j, NEW v \in DOMAIN Criteria,
             ScoreStart(r, c, p, j, v)
      PROVE  RankingInv'
  <2>1. CASE Answers(r, "PROFILE_NOT_FOUND")
    BY <1>1, <2>1, AnswerKeepsRanking
  <2>2. CASE p \in 1..profile[c]
    <3> DEFINE one == <<<<c, p>>>>
               w == [req[r] EXCEPT !.pc = "evaluate", !.job = j, !.version = v, !.single = TRUE,
                                   !.todo = one]
    <3>1. p \in 1..MaxProfile
      OBVIOUS
    <3>2. one \in Seq(Candidates \X (1..MaxProfile)) /\ DOMAIN one = {1}
      BY <3>1
    <3> HIDE DEF one
    <3>3. IsRequest(w) /\ w.pc = "evaluate" /\ w.mine = req[r].mine /\ w.result = req[r].result
          /\ w.found = req[r].found /\ w.version = v /\ w.todo = one
      BY <1>2 DEF IsRequest, RequestFields
    <3>4. Becomes(r, w)
      BY <1>8, <2>2 DEF ScoreStart, one
    <3> HIDE DEF w
    <3> QED
      BY <1>1, <3>2, <3>3, <3>4, RankingBegins
  <2> QED
    BY <1>8, <2>1, <2>2 DEF ScoreStart
<1>9. ASSUME NEW c \in Candidates, DeleteLock(r, c) PROVE RankingInv'
  <2> DEFINE w == [req[r] EXCEPT !.pc = "deleting", !.todo = <<<<c, profile[c]>>>>]
  <2>1. IsRequest(w) /\ w.pc = "deleting" /\ w.mine = req[r].mine /\ w.result = req[r].result
        /\ w.found = req[r].found
    BY <1>2 DEF IsRequest, RequestFields
  <2>2. Becomes(r, w)
    BY <1>9 DEF DeleteLock
  <2> HIDE DEF w
  <2>3. GoodRequest(w)
    BY <1>2, <2>1, GoodWhenPassing
  <2> QED
    BY <1>1, <2>1, <2>2, <2>3, RankingMoves
<1> QED
  BY <1>3, <1>4, <1>5, <1>6, <1>7, <1>8, <1>9 DEF Arrive

\* One candidate fewer waits: the first, who is none of those still waiting.
LEMMA HeadLeaves ==
    ASSUME NEW todo \in Seq(Candidates \X (1..MaxProfile)), todo # <<>>,
           \A i, j \in DOMAIN todo : i # j => todo[i][1] # todo[j][1]
    PROVE  /\ Head(todo)[1] \in Candidates /\ Head(todo)[2] \in 1..MaxProfile
           /\ Tail(todo) \in Seq(Candidates \X (1..MaxProfile))
           /\ \A i, j \in DOMAIN Tail(todo) : i # j => Tail(todo)[i][1] # Tail(todo)[j][1]
           /\ \A i \in DOMAIN Tail(todo) : Tail(todo)[i][1] # Head(todo)[1]
           /\ \A i \in DOMAIN Tail(todo) : \E k \in DOMAIN todo : Tail(todo)[i] = todo[k]
<1> DEFINE T == Candidates \X (1..MaxProfile)
           n == Len(todo)
           t == Tail(todo)
<1>1. n \in Nat /\ n > 0 /\ DOMAIN todo = 1..n
  OBVIOUS
<1>2. Head(todo) = todo[1] /\ todo[1] \in T
  BY <1>1
<1>3. t \in Seq(T) /\ Len(t) = n - 1 /\ \A i \in 1..(n - 1) : t[i] = todo[i + 1]
  <2> HIDE DEF T
  <2>1. todo \in Seq(T)
    BY DEF T
  <2> QED
    BY <1>1, <2>1
<1>4. DOMAIN t = 1..(n - 1)
  <2> HIDE DEF t, n, T
  <2> QED
    BY <1>3
<1> HIDE DEF t, n
<1>5. \A i \in 1..(n - 1) : i + 1 \in 1..n /\ i + 1 # 1 /\ 1 \in 1..n
  BY <1>1
<1>6. \A i, j \in DOMAIN t : i # j => t[i][1] # t[j][1]
  <2> TAKE i \in DOMAIN t, j \in DOMAIN t
  <2>1. i \in 1..(n - 1) /\ j \in 1..(n - 1) /\ (i # j => i + 1 # j + 1)
    BY <1>1, <1>4
  <2>2. i + 1 \in DOMAIN todo /\ j + 1 \in DOMAIN todo
    BY <1>1, <1>5, <2>1
  <2> QED
    BY <1>3, <2>1, <2>2
<1>7. \A i \in DOMAIN t : t[i][1] # Head(todo)[1]
  <2> TAKE i \in DOMAIN t
  <2>1. i + 1 \in DOMAIN todo /\ 1 \in DOMAIN todo /\ i + 1 # 1 /\ t[i] = todo[i + 1]
    BY <1>1, <1>3, <1>4, <1>5
  <2>2. todo[i + 1][1] # todo[1][1]
    BY <2>1
  <2> QED
    BY <1>2, <2>1, <2>2
<1>8. \A i \in DOMAIN t : \E k \in DOMAIN todo : t[i] = todo[k]
  BY <1>1, <1>3, <1>4, <1>5
<1>9. Head(todo)[1] \in Candidates /\ Head(todo)[2] \in 1..MaxProfile
  BY <1>2
<1> QED
  BY <1>3, <1>6, <1>7, <1>8, <1>9 DEF t

\* The first of those waiting gets a row.
LEMMA GoodAfterOne ==
    ASSUME NEW v, GoodRequest(v), v.pc = "evaluate", v.todo # <<>>,
           NEW e, IsRow(e), e.candidate = Head(v.todo)[1],
           NEW w, w.pc = "evaluate", w.version = v.version, w.result = v.result,
           w.todo = Tail(v.todo),
           \/ w.mine = v.mine \cup {e} /\ w.found = v.found
           \/ w.mine = v.mine /\ w.found = v.found \cup {e}
    PROVE  GoodRequest(w)
<1> DEFINE rows == v.mine \cup v.found
<1>1. /\ \A f \in rows \cup v.result : IsRow(f)
      /\ IsFiniteSet(v.mine) /\ IsFiniteSet(v.found) /\ IsFiniteSet(v.result)
      /\ OneEach(v.result)
      /\ v.version \in DOMAIN Criteria
      /\ v.todo \in Seq(Candidates \X (1..MaxProfile))
      /\ \A i, j \in DOMAIN v.todo : i # j => v.todo[i][1] # v.todo[j][1]
      /\ OneEach(rows)
      /\ \A f \in rows : \A i \in DOMAIN v.todo : f.candidate # v.todo[i][1]
  BY DEF GoodRequest
<1>2. /\ Tail(v.todo) \in Seq(Candidates \X (1..MaxProfile))
      /\ \A i, j \in DOMAIN Tail(v.todo) : i # j => Tail(v.todo)[i][1] # Tail(v.todo)[j][1]
      /\ \A i \in DOMAIN Tail(v.todo) : Tail(v.todo)[i][1] # Head(v.todo)[1]
      /\ \A i \in DOMAIN Tail(v.todo) : \E k \in DOMAIN v.todo : Tail(v.todo)[i] = v.todo[k]
  BY <1>1, HeadLeaves
<1>3. Head(v.todo) = v.todo[1] /\ 1 \in DOMAIN v.todo
  BY <1>1
<1>4. w.mine \cup w.found = rows \cup {e}
  OBVIOUS
<1>5. IsFiniteSet(w.mine) /\ IsFiniteSet(w.found)
  <2>1. IsFiniteSet(v.mine \cup {e}) /\ IsFiniteSet(v.found \cup {e})
    BY <1>1, FS_AddElement
  <2> QED
    BY <1>1, <2>1
<1>6. \A f \in rows : f.candidate # e.candidate
  BY <1>1, <1>3
<1> HIDE DEF rows
<1>7. OneEach(w.mine \cup w.found)
  BY <1>1, <1>4, <1>6 DEF OneEach
<1>8. ASSUME NEW f \in w.mine \cup w.found, NEW i \in DOMAIN w.todo
      PROVE  f.candidate # w.todo[i][1]
  <2>1. PICK k \in DOMAIN v.todo : w.todo[i] = v.todo[k]
    BY <1>2
  <2>2. w.todo[i][1] # Head(v.todo)[1]
    BY <1>2
  <2>3. f \in rows \/ f = e
    BY <1>4
  <2>4. f \in rows => f.candidate # v.todo[k][1]
    BY <1>1
  <2> QED
    BY <2>1, <2>2, <2>3, <2>4
<1>9. \A f \in w.mine \cup w.found \cup w.result : IsRow(f)
  BY <1>1, <1>4
<1> QED
  BY <1>1, <1>2, <1>5, <1>7, <1>8, <1>9 DEF GoodRequest

LEMMA RankingReuses ==
    ASSUME RequestsTyped, RankingInv, NEW r \in Requests, Reuse(r)
    PROVE  RankingInv'
<1>1. req[r].pc = "evaluate" /\ req[r].todo # <<>> /\ UNCHANGED <<profile, evaluations>>
  BY DEF Reuse, NothingCommitted
<1>2. PICK e \in Visible(r) :
         /\ SameProvenance(e, Row(r, "COMPLETED"))
         /\ Becomes(r, [req[r] EXCEPT !.todo = Tail(@), !.found = @ \cup {e}])
  BY DEF Reuse
<1> DEFINE w == [req[r] EXCEPT !.todo = Tail(@), !.found = @ \cup {e}]
<1>3. /\ IsRequest(w) /\ w.pc = "evaluate" /\ w.mine = req[r].mine
      /\ w.found = req[r].found \cup {e} /\ w.result = req[r].result
      /\ w.version = req[r].version /\ w.todo = Tail(req[r].todo)
  BY <1>1 DEF RequestsTyped, IsRequest, RequestFields
<1>4. Becomes(r, w)
  BY <1>2
<1> HIDE DEF w
<1>5. GoodRequest(req[r])
  BY DEF RankingInv
<1>6. IsRow(e)
  BY <1>2, <1>5 DEF RankingInv, GoodRequest, Visible
<1>7. e.candidate = Head(req[r].todo)[1]
  BY <1>2 DEF SameProvenance, Row
<1>8. GoodRequest(w)
  BY <1>1, <1>3, <1>5, <1>6, <1>7, GoodAfterOne
<1> QED
  BY <1>1, <1>3, <1>4, <1>8, RankingMoves

LEMMA RankingInserts ==
    ASSUME RequestsTyped, RankingInv, NEW r \in Requests, Insert(r)
    PROVE  RankingInv'
<1>1. req[r].pc = "evaluate" /\ req[r].todo # <<>> /\ UNCHANGED <<profile, evaluations>>
  BY DEF Insert, NothingCommitted
<1> DEFINE row == Row(r, IF Verified(r) THEN "COMPLETED" ELSE "FAILED")
           w == [req[r] EXCEPT !.todo = Tail(@), !.mine = @ \cup {row}]
<1>2. Becomes(r, w)
  BY DEF Insert
<1>3. row.candidate = Head(req[r].todo)[1] /\ row.profile = Head(req[r].todo)[2]
      /\ row.version = req[r].version
  BY DEF Row
<1> HIDE DEF row
<1>4. /\ IsRequest(w) /\ w.pc = "evaluate" /\ w.mine = req[r].mine \cup {row}
      /\ w.found = req[r].found /\ w.result = req[r].result
      /\ w.version = req[r].version /\ w.todo = Tail(req[r].todo)
  BY <1>1 DEF RequestsTyped, IsRequest, RequestFields
<1> HIDE DEF w
<1>5. GoodRequest(req[r])
  BY DEF RankingInv
<1>6. IsRow(row)
  <2>1. Head(req[r].todo)[1] \in Candidates /\ Head(req[r].todo)[2] \in 1..MaxProfile
    BY <1>1, <1>5, HeadLeaves DEF GoodRequest
  <2>2. req[r].version \in DOMAIN Criteria
    BY <1>1, <1>5 DEF GoodRequest
  <2> QED
    BY <1>3, <2>1, <2>2 DEF IsRow
<1>7. GoodRequest(w)
  BY <1>1, <1>3, <1>4, <1>5, <1>6, GoodAfterOne
<1> QED
  BY <1>1, <1>2, <1>4, <1>7, RankingMoves

LEMMA RankingCommits ==
    ASSUME RequestsTyped, RankingInv, NEW r \in Requests, EvaluateCommit(r)
    PROVE  RankingInv'
<1> DEFINE answer == IF req[r].single /\ Scored(r) = {} THEN "unscorable" ELSE "ranked"
           w == [req[r] EXCEPT !.pc = "done", !.mine = {}, !.result = Scored(r), !.answer = answer]
<1>1. req[r].pc = "evaluate" /\ Becomes(r, w) /\ UNCHANGED profile
      /\ evaluations' = evaluations \cup req[r].mine
  BY DEF EvaluateCommit
<1>2. /\ IsRequest(w) /\ w.pc = "done" /\ w.mine = {} /\ w.found = req[r].found
      /\ w.result = Scored(r)
  BY DEF RequestsTyped, IsRequest, RequestFields
<1> HIDE DEF w
<1>3. GoodRequest(req[r])
  BY DEF RankingInv
<1> DEFINE rows == req[r].mine \cup req[r].found
<1>4. /\ \A e \in rows : IsRow(e)
      /\ IsFiniteSet(req[r].mine) /\ IsFiniteSet(req[r].found) /\ OneEach(rows)
  BY <1>1, <1>3 DEF GoodRequest
<1>5. Scored(r) \subseteq rows
  BY DEF Scored
<1>6. IsFiniteSet(rows)
  BY <1>4, FS_Union
<1> HIDE DEF rows
<1>7. IsFiniteSet(Scored(r)) /\ OneEach(Scored(r)) /\ \A e \in Scored(r) : IsRow(e)
  BY <1>4, <1>5, <1>6, FS_Subset DEF OneEach
<1>8. \A e \in w.found : IsRow(e)
  BY <1>2, <1>3 DEF GoodRequest
<1>9. GoodRequest(w)
  BY <1>2, <1>4, <1>7, <1>8, FS_EmptySet DEF GoodRequest
<1>10. req'[r] = w /\ \A o \in Requests \ {r} : req'[o] = req[o]
  BY <1>1, <1>2, RequestMoves
<1>11. \A o \in Requests : GoodRequest(req'[o])
  BY <1>9, <1>10 DEF RankingInv
<1>12. \A e \in evaluations' : IsRow(e)
  BY <1>1, <1>3 DEF RankingInv, GoodRequest
<1> QED
  BY <1>1, <1>11, <1>12 DEF RankingInv, GoodRequest, OneEach, IsRow

LEMMA RankingDeletes ==
    ASSUME RequestsTyped, RankingInv, NEW r \in Requests, DeleteCommit(r)
    PROVE  RankingInv'
<1> DEFINE c == req[r].todo[1][1]
<1>1. /\ profile' = [profile EXCEPT ![c] = NoCandidate]
      /\ evaluations' \subseteq evaluations /\ Answers(r, "deleted")
  BY DEF DeleteCommit
<1>2. PICK w : IsRequest(w) /\ w.pc = "done" /\ Becomes(r, w) /\ GoodRequest(w)
  BY <1>1, GoodAnswer
<1>3. req'[r] = w /\ \A o \in Requests \ {r} : req'[o] = req[o]
  BY <1>2, RequestMoves
<1>4. \A o \in Requests : GoodRequest(req'[o])
  BY <1>2, <1>3 DEF RankingInv
<1>5. profile' \in [Candidates -> NoCandidate..MaxProfile]
  <2> HIDE DEF c
  <2>1. profile \in [Candidates -> NoCandidate..MaxProfile] /\ NoCandidate \in NoCandidate..MaxProfile
    BY HiringAssumption DEF RankingInv, NoCandidate
  <2>2. profile' = [x \in Candidates |-> IF x = c THEN NoCandidate ELSE profile[x]]
    BY <1>1, <2>1
  <2> QED
    BY <2>1, <2>2
<1> QED
  BY <1>1, <1>4, <1>5 DEF RankingInv, GoodRequest, OneEach, IsRow

LEMMA RankingWorks ==
    ASSUME RequestsTyped, RankingInv, NEW r \in Requests, Work(r)
    PROVE  RankingInv'
<1>1. CASE CreateInsert(r)
  BY <1>1, AnswerKeepsRanking, MoveKeepsRanking DEF CreateInsert, NothingCommitted
<1>2. CASE CreateCommit(r)
  BY <1>2, AnswerKeepsRanking DEF CreateCommit
<1>3. CASE AppendInsert(r)
  BY <1>3, AnswerKeepsRanking, MoveKeepsRanking DEF AppendInsert, NothingCommitted
<1>4. CASE AppendCommit(r)
  BY <1>4, AnswerKeepsRanking DEF AppendCommit
<1>5. CASE ArchiveUpdate(r)
  BY <1>5, MoveKeepsRanking DEF ArchiveUpdate, NothingCommitted
<1>6. CASE ArchiveCommit(r)
  BY <1>6, AnswerKeepsRanking DEF ArchiveCommit
<1>7. CASE CandidateGone(r)
  BY <1>7, AnswerKeepsRanking DEF CandidateGone, NothingCommitted
<1> QED
  BY <1>1, <1>2, <1>3, <1>4, <1>5, <1>6, <1>7, RankingReuses, RankingInserts, RankingCommits,
     RankingDeletes DEF Work

LEMMA RankingStep == RequestsTyped /\ RankingInv /\ [HiringNext]_hiringVars => RankingInv'
<1> SUFFICES ASSUME RequestsTyped, RankingInv, [HiringNext]_hiringVars PROVE RankingInv'
  OBVIOUS
<1>1. ASSUME NEW r \in Requests, Arrive(r) \/ Work(r) PROVE RankingInv'
  BY <1>1, RankingArrives, RankingWorks
<1>2. ASSUME NEW r \in Requests, Fail(r) PROVE RankingInv'
  BY <1>2, AnswerKeepsRanking DEF Fail, NothingCommitted
<1>3. ASSUME NEW c \in Candidates, Analysed(c) PROVE RankingInv'
  <2>1. /\ profile[c] \in 0..(MaxProfile - 1) /\ profile' = [profile EXCEPT ![c] = @ + 1]
        /\ UNCHANGED <<evaluations, req>>
    BY <1>3 DEF Analysed
  <2>2. profile[c] + 1 \in NoCandidate..MaxProfile
    BY <2>1, HiringAssumption DEF NoCandidate
  <2>3. profile' \in [Candidates -> NoCandidate..MaxProfile]
    BY <2>1, <2>2 DEF RankingInv
  <2> QED
    BY <2>1, <2>3 DEF RankingInv, GoodRequest, OneEach, IsRow
<1>4. CASE UNCHANGED hiringVars
  BY <1>4 DEF hiringVars, RankingInv, GoodRequest, OneEach, IsRow
<1> QED
  BY <1>1, <1>2, <1>3, <1>4 DEF HiringNext

\* What an answered request presents is one entry for each of its candidates.
LEMMA ListingIs ==
    ASSUME RankingInv, NEW r \in Requests
    PROVE  LET E == {Entry(e) : e \in req[r].result}
               list == Listing(r)
           IN  /\ \A i \in DOMAIN list : i \in Nat /\ list[i] \in E
               /\ \A i, j \in DOMAIN list : i < j => Outranks(list[i], list[j])
<1> DEFINE S == req[r].result
           f == [e \in S |-> Entry(e)]
           E == {Entry(e) : e \in S}
           eligibleOnly == ~req[r].single /\ req[r].version \in EligibleOnly
<1>1. IsFiniteSet(S) /\ OneEach(S) /\ \A e \in S : IsRow(e)
  BY DEF RankingInv, GoodRequest
<1>2. IsFiniteSet(E)
  <2>1. E = {f[e] : e \in S}
    OBVIOUS
  <2>2. DOMAIN f = S
    OBVIOUS
  <2> HIDE DEF f, S
  <2>3. IsFiniteSet({f[e] : e \in S})
    BY <1>1, <2>2, ImageFinite
  <2> QED
    BY <2>1, <2>3
<1>3. \A e \in S : /\ Entry(e).band \in Bands /\ Entry(e).score \in Int /\ Entry(e).candidate \in Nat
                   /\ Entry(e).candidate = e.candidate
  BY <1>1, EntryTyped
<1>4. Rankable(E)
  <2> HIDE DEF S
  <2> QED
    BY <1>1, <1>2, <1>3 DEF Rankable, OneEach
<1>5. Listing(r) = Presented(E, eligibleOnly, ResultLimit)
  BY DEF Listing
<1> HIDE DEF E, eligibleOnly
<1>6. ResultLimit \in Nat
  BY HiringAssumption
<1>7. LET list == Presented(E, eligibleOnly, ResultLimit)
      IN  /\ \A i \in DOMAIN list : i \in Nat /\ list[i] \in E
          /\ \A i, j \in DOMAIN list : i < j => Outranks(list[i], list[j])
  BY <1>4, <1>6, PresentedIs
<1> QED
  BY <1>5, <1>7 DEF E

LEMMA RankedFirst == RankingInv => MustHavesFirst
<1> SUFFICES ASSUME RankingInv, NEW r \in Requests,
                    NEW i \in DOMAIN Listing(r), NEW j \in DOMAIN Listing(r), i < j,
                    MustHavesMet(Listing(r)[j]), Listing(r)[j].band # "MANUAL_REVIEW_REQUIRED"
             PROVE  MustHavesMet(Listing(r)[i])
  BY DEF MustHavesFirst
<1> DEFINE S == req[r].result
           x == Listing(r)[i]
           y == Listing(r)[j]
<1>1. x \in {Entry(e) : e \in S} /\ y \in {Entry(e) : e \in S} /\ Outranks(x, y)
  BY ListingIs
<1>2. PICK e \in S : x = Entry(e)
  BY <1>1
<1>3. PICK f \in S : y = Entry(f)
  BY <1>1
<1>4. IsRow(e) /\ IsRow(f)
  BY DEF RankingInv, GoodRequest
<1>5. MustHavesMet(y) /\ y.band # "MANUAL_REVIEW_REQUIRED"
  OBVIOUS
<1> HIDE DEF x, y, S
<1>6. y.band \in {"STRONG_MATCH", "POTENTIAL_MATCH"}
  BY <1>3, <1>4, <1>5, GoodBands
<1>7. x.band \in Bands
  BY <1>2, <1>4, EntryTyped
<1>8. FitTier(x.band) \in Nat /\ FitTier(y.band) \in Nat /\ FitTier(y.band) <= 1
  <2> DEFINE b == y.band
  <2>1. b \in Bands
    BY <1>6 DEF Bands
  <2>2. b \in {"STRONG_MATCH", "POTENTIAL_MATCH"}
    BY <1>6
  <2> HIDE DEF b
  <2>3. FitTier(b) \in 0..3 /\ FitTier(b) <= 1
    BY <2>1, <2>2, TiersAre
  <2>4. FitTier(x.band) \in 0..3
    BY <1>7, TiersAre
  <2> QED
    BY <2>3, <2>4 DEF b
<1>9. x.band \in {"STRONG_MATCH", "POTENTIAL_MATCH"}
  <2>1. FitTier(x.band) <= FitTier(y.band)
    BY <1>1, <1>8 DEF Outranks
  <2>2. FitTier(x.band) <= 1
    BY <1>8, <2>1
  <2> QED
    BY <1>7, <2>2, TiersAre
<1>10. MustHavesMet(x)
  BY <1>2, <1>4, <1>9, GoodBands
<1> QED
  BY <1>10 DEF x

\* ScoringHolds: of every list a ranking presents, those who meet every must-have
\* and wait for no human come before all who do not, whatever else they score,
\* and the years they are judged by are each counted once.
THEOREM RankingsAlwaysHold == HiringSpec => []ScoringHolds
<1>1. HiringSpec => []RankingInv
  <2>1. HiringInv => RequestsTyped
    BY DEF HiringInv
  <2> QED
    BY <2>1, HiringInvariant, RankingInitInv, RankingStep, PTL DEF HiringSpec
<1>2. RankingInv => ScoringHolds
  BY RankedFirst, DurationsCountOnce DEF ScoringHolds, YearsCountOnce
<1> QED
  BY <1>1, <1>2, PTL
=============================================================================
