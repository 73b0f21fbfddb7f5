-------------------------- MODULE CandidateAnalysis --------------------------
(***************************************************************************)
(* The analysis of one candidate: profile, identity and embedding versions *)
(* made by a local model from the candidate's documents.  Folder runs      *)
(* (services/folder_reconciliation_service.py) and direct requests         *)
(* (extraction/service.py, identity_service.py, candidate_embedding_       *)
(* service.py under services/direct_inference_authority.py) each read in a *)
(* short transaction, call the model with no transaction at all, and write *)
(* in a second one under the Candidate row lock.  Meanwhile the candidate  *)
(* is deleted, a path is pointed at another document, a CV is uploaded.    *)
(*                                                                         *)
(* Documents are numbered in the order of arrival, versions in the order   *)
(* of their commits: version n is element n of its history.                *)
(***************************************************************************)
EXTENDS Naturals, Sequences, FiniteSets

CONSTANTS
    Runs,        \* processes of the reconcile command
    Directs,     \* direct requests: API retries and operator commands
    NPaths,      \* paths of the folder source that hold the candidate, by name
    Unreadable,  \* documents without a canonical text (a scanned CV)
    Outcomes,    \* what a model call can do
    Limit,       \* documents one run may attempt (--limit)
    MaxDocs,     \* bound: documents of the candidate
    MaxVersions, \* bound: profile and identity attempts
    None

ASSUME AnalysisAssumption ==
    /\ Runs \cap Directs = {} /\ None \notin Runs \cup Directs
    /\ NPaths \in Nat \ {0} /\ MaxDocs \in Nat \ {0} /\ Limit \in Nat \ {0}
    /\ MaxVersions \in Nat
    /\ Outcomes \subseteq {"COMPLETED", "FAILED", "BUSY", "ERROR"}

VARIABLES
    alive,      \* does the Candidate row exist
    docs,       \* number of documents it has had
    track,      \* path -> the document it points at
    profiles,   \* attempts: [doc, st]
    identities,
    vectors,    \* profile versions with a compatible embedding
    job,        \* run or request -> where it is
    lock        \* who holds the Candidate row FOR UPDATE

evidence == <<alive, docs, track>>
versions == <<profiles, identities, vectors>>
vars == <<alive, docs, track, profiles, identities, vectors, job, lock>>

Jobs == Runs \cup Directs
Stages == {"profile", "identity", "embedding"}
NoJob == [pc |-> "idle", stage |-> "profile", doc |-> 0, queue |-> <<>>,
          base |-> <<>>, plan |-> 0, out |-> "none", tries |-> 0]

\* Paths with identical contents are linked to one document.
Init ==
    /\ alive = TRUE /\ docs = 1 /\ track = [p \in 1..NPaths |-> 1]
    /\ profiles = <<>> /\ identities = <<>> /\ vectors = {}
    /\ job = [j \in Jobs |-> NoJob]
    /\ lock = None

----------------------------------------------------------------------------
\* Lookups.

Newest(S) == IF S = {} THEN 0 ELSE CHOOSE n \in S : \A m \in S : m <= n
Latest(h, d) == Newest({n \in DOMAIN h : h[n].doc = d})
Done(h, d) == Latest(h, d) # 0 /\ h[Latest(h, d)].st = "COMPLETED"
History(stage) == IF stage = "identity" THEN identities ELSE profiles
Exists(d) == alive /\ d \in 1..docs
Tracked(d) == Exists(d) /\ \E p \in 1..NPaths : track[p] = d

\* D-100: the newest COMPLETED version of the document attempted last.
Effective ==
    IF profiles = <<>> THEN 0
    ELSE Newest({n \in DOMAIN profiles : /\ profiles[n].doc = profiles[Len(profiles)].doc
                                         /\ profiles[n].st = "COMPLETED"})

\* D-111: the document's own versions are complete and its profile is embedded.
Ready(d) ==
    Done(profiles, d) /\ Done(identities, d) /\ Latest(profiles, d) \in vectors

\* What a direct request binds its answer to: the newest document and the newest
\* attempts, not only the document it was asked for.
Fingerprint(j) ==
    <<Exists(job[j].doc), docs, Len(profiles),
      IF job[j].stage = "identity" THEN Len(identities) ELSE 0>>

LockFree == lock = None
Extracts(j) == job[j].stage # "embedding"
InFlight == {j \in Jobs : job[j].pc \in {"recheck", "write"} /\ Extracts(j)}
Room == Len(profiles) + Len(identities) + Cardinality(InFlight) < MaxVersions

----------------------------------------------------------------------------
\* A folder run: process_pending_candidates.

FirstPath(d) == CHOOSE p \in 1..NPaths : track[p] = d /\ \A q \in 1..(p - 1) : track[q] # d
Tried(d) == Latest(profiles, d) # 0

\* Never attempted first, then by path.
Before(a, b) ==
    \/ ~Tried(a) /\ Tried(b)
    \/ Tried(a) = Tried(b) /\ FirstPath(a) < FirstPath(b)

Pending ==
    LET S == {d \in 1..docs : Tracked(d) /\ ~Ready(d)} IN
    CHOOSE q \in [1..Cardinality(S) -> S] :
        \A i, k \in DOMAIN q : i < k => Before(q[i], q[k])

\* What the limit leaves over is skipped.
Allowed == IF Len(Pending) <= Limit THEN Pending ELSE SubSeq(Pending, 1, Limit)

\* The run's next document, or its end.
NextDoc(queue) ==
    IF queue = <<>> THEN NoJob
    ELSE [NoJob EXCEPT !.pc = "read", !.doc = Head(queue), !.queue = Tail(queue)]

Sets(j, w) == job' = [job EXCEPT ![j] = w]
DocEnds(r) == Sets(r, NextDoc(job[r].queue))
RunStops(r) == Sets(r, NoJob)

\* The embedding stage is for a document whose profile is complete; "plan" is
\* that profile version, 0 without one.
StageEnds(r, version) ==
    LET w == [job[r] EXCEPT !.pc = "read", !.out = "none"] IN
    IF w.stage = "profile" THEN Sets(r, [w EXCEPT !.stage = "identity", !.plan = version])
    ELSE IF w.plan # 0 THEN Sets(r, [w EXCEPT !.stage = "embedding"])
    ELSE DocEnds(r)

StartRun(r) ==
    /\ job[r].pc = "idle" /\ Pending # <<>>
    /\ Sets(r, NextDoc(Allowed))
    /\ UNCHANGED <<evidence, versions, lock>>

Reading(r) == job[r].pc = "read"

\* Phase A: _authority without a lock.
ReadSuperseded(r) ==
    /\ Reading(r) /\ ~Tracked(job[r].doc)
    /\ DocEnds(r)
    /\ UNCHANGED <<evidence, versions, lock>>

ReadDone(r) ==
    LET w == job[r] IN
    /\ Reading(r) /\ Tracked(w.doc) /\ Extracts(r) /\ Done(History(w.stage), w.doc)
    /\ StageEnds(r, Latest(History(w.stage), w.doc))
    /\ UNCHANGED <<evidence, versions, lock>>

\* No canonical text: an audit event and no version.
ReadUnreadable(r) ==
    LET w == job[r] IN
    /\ Reading(r) /\ Tracked(w.doc) /\ Extracts(r) /\ ~Done(History(w.stage), w.doc)
    /\ w.doc \in Unreadable
    /\ StageEnds(r, 0)
    /\ UNCHANGED <<evidence, versions, lock>>

ReadReused(r) ==
    /\ Reading(r) /\ Tracked(job[r].doc) /\ ~Extracts(r) /\ job[r].plan \in vectors
    /\ DocEnds(r)
    /\ UNCHANGED <<evidence, versions, lock>>

ReadView(r) ==
    LET w == job[r] IN
    /\ Reading(r) /\ Tracked(w.doc)
    /\ IF Extracts(r) THEN ~Done(History(w.stage), w.doc) /\ w.doc \notin Unreadable
                      ELSE w.plan \notin vectors
    /\ Sets(r, [w EXCEPT !.pc = "infer"])
    /\ UNCHANGED <<evidence, versions, lock>>

\* The model call; no transaction is open.
Infer(j) ==
    /\ job[j].pc = "infer"
    /\ \E o \in (Outcomes \ {"ERROR"}) \cup {"BUSY"} :
         /\ o = "BUSY" \/ ~Extracts(j) \/ Room
         /\ Sets(j, [job[j] EXCEPT !.pc = "recheck", !.out = o])
    /\ UNCHANGED <<evidence, versions, lock>>

\* An exception nobody expected is one document's failure.
InferRaises(r) ==
    /\ job[r].pc = "infer" /\ "ERROR" \in Outcomes
    /\ DocEnds(r)
    /\ UNCHANGED <<evidence, versions, lock>>

\* Phase B: Tenant SHARE, Candidate FOR UPDATE, the same authority again.
Rechecks(r) == job[r].pc = "recheck" /\ LockFree

RecheckSuperseded(r) ==
    /\ Rechecks(r) /\ ~Tracked(job[r].doc)
    /\ DocEnds(r)
    /\ UNCHANGED <<evidence, versions, lock>>

\* Another run completed the stage: this result is discarded.
RecheckDone(r) ==
    LET w == job[r] IN
    /\ Rechecks(r) /\ Tracked(w.doc) /\ Extracts(r) /\ Done(History(w.stage), w.doc)
    /\ StageEnds(r, Latest(History(w.stage), w.doc))
    /\ UNCHANGED <<evidence, versions, lock>>

\* The inference gate refused: no version, and the rest of the queue is deferred.
RecheckBusy(r) ==
    LET w == job[r] IN
    /\ Rechecks(r) /\ Tracked(w.doc) /\ w.out = "BUSY"
    /\ Extracts(r) => ~Done(History(w.stage), w.doc)
    /\ RunStops(r)
    /\ UNCHANGED <<evidence, versions, lock>>

\* Never bind a vector to a profile that is no longer the document's.
PlanCurrent(r) == Latest(profiles, job[r].doc) = job[r].plan /\ Done(profiles, job[r].doc)

RecheckNoEmbedding(r) ==
    LET w == job[r] IN
    /\ Rechecks(r) /\ Tracked(w.doc) /\ ~Extracts(r) /\ w.out # "BUSY"
    /\ w.out = "FAILED" \/ ~PlanCurrent(r) \/ w.plan \in vectors
    /\ DocEnds(r)
    /\ UNCHANGED <<evidence, versions, lock>>

\* Variant: a version completed during the call is not looked for.
RecheckPassesBlind(r) ==
    LET w == job[r] IN
    /\ Rechecks(r) /\ Tracked(w.doc) /\ w.out # "BUSY"
    /\ ~Extracts(r) => w.out = "COMPLETED" /\ PlanCurrent(r) /\ w.plan \notin vectors
    /\ Sets(r, [w EXCEPT !.pc = "write"]) /\ lock' = r
    /\ UNCHANGED <<evidence, versions>>

RecheckPasses(r) ==
    LET w == job[r] IN
    /\ Rechecks(r) /\ Tracked(w.doc) /\ w.out # "BUSY"
    /\ IF Extracts(r) THEN ~Done(History(w.stage), w.doc)
                      ELSE w.out = "COMPLETED" /\ PlanCurrent(r) /\ w.plan \notin vectors
    /\ Sets(r, [w EXCEPT !.pc = "write"]) /\ lock' = r
    /\ UNCHANGED <<evidence, versions>>

\* The next number is one past the maximum of the candidate's versions.
Appended(h, j) == Append(h, [doc |-> job[j].doc, st |-> job[j].out])

Inserts(j) ==
    /\ job[j].pc = "write" /\ lock' = None
    /\ profiles' = IF job[j].stage = "profile" THEN Appended(profiles, j) ELSE profiles
    /\ identities' = IF job[j].stage = "identity" THEN Appended(identities, j) ELSE identities
    /\ vectors' = IF job[j].stage = "embedding" THEN vectors \cup {job[j].plan} ELSE vectors
    /\ UNCHANGED evidence

Write(r) ==
    /\ Inserts(r)
    /\ IF Extracts(r)
         THEN StageEnds(r, IF job[r].out = "COMPLETED" THEN Len(profiles) + 1 ELSE 0)
         ELSE DocEnds(r)

RunStep(r) ==
    \/ ReadSuperseded(r) \/ ReadDone(r) \/ ReadUnreadable(r) \/ ReadReused(r) \/ ReadView(r)
    \/ Infer(r) \/ InferRaises(r)
    \/ RecheckSuperseded(r) \/ RecheckDone(r) \/ RecheckBusy(r) \/ RecheckNoEmbedding(r)
    \/ RecheckPasses(r) \/ Write(r)

----------------------------------------------------------------------------
\* A direct request.  It commits its snapshot before it calls the model.
Starts(d, stage, n) ==
    /\ job[d].pc = "idle"
    /\ Sets(d, [NoJob EXCEPT !.pc = "bind", !.stage = stage, !.doc = n,
                             !.plan = IF stage = "embedding" THEN Effective ELSE 0])
    /\ UNCHANGED <<evidence, versions, lock>>

StartExtract(d) ==
    \E n \in 1..docs, stage \in {"profile", "identity"} :
        Exists(n) /\ n \notin Unreadable /\ Starts(d, stage, n)

\* The candidate's effective profile, whichever document it is of.
StartEmbed(d) ==
    /\ Effective # 0 /\ Effective \notin vectors
    /\ Starts(d, "embedding", profiles[Effective].doc)

DirectEnds(d) == Sets(d, [NoJob EXCEPT !.pc = "done"])

\* direct_authority, some queries later.
Bind(d) ==
    LET w == job[d] IN
    /\ w.pc = "bind"
    /\ IF Exists(w.doc)
         THEN Sets(d, [w EXCEPT !.base = Fingerprint(d),
                                !.pc = IF Extracts(d) THEN "attempt" ELSE "infer"])
         ELSE DirectEnds(d)
    /\ UNCHANGED <<evidence, versions, lock>>

Unchanged(d) == Fingerprint(d) = job[d].base

\* before_attempt: the authority is read again under the lock and released.
Attempt(d) ==
    /\ job[d].pc = "attempt" /\ LockFree
    /\ IF Unchanged(d) THEN Sets(d, [job[d] EXCEPT !.pc = "infer"]) ELSE DirectEnds(d)
    /\ UNCHANGED <<evidence, versions, lock>>

\* MAX_MODEL_ATTEMPTS = 2: an answer that breaks the schema is asked for again.
InferAgain(d) ==
    /\ job[d].pc = "infer" /\ Extracts(d) /\ job[d].tries = 0
    /\ Sets(d, [job[d] EXCEPT !.pc = "attempt", !.tries = 1])
    /\ UNCHANGED <<evidence, versions, lock>>

DirectRaises(d) ==
    /\ job[d].pc = "infer" /\ "ERROR" \in Outcomes
    /\ DirectEnds(d)
    /\ UNCHANGED <<evidence, versions, lock>>

DirectNoVersion(d) ==
    LET w == job[d] IN
    \/ ~Unchanged(d) \/ w.out = "BUSY"
    \/ ~Extracts(d) /\ (Effective # w.plan \/ w.plan \in vectors \/ w.out = "FAILED")

DirectRefused(d) ==
    /\ Rechecks(d) /\ DirectNoVersion(d)
    /\ DirectEnds(d)
    /\ UNCHANGED <<evidence, versions, lock>>

DirectPasses(d) ==
    /\ Rechecks(d) /\ ~DirectNoVersion(d)
    /\ Sets(d, [job[d] EXCEPT !.pc = "write"]) /\ lock' = d
    /\ UNCHANGED <<evidence, versions>>

DirectWrite(d) == Inserts(d) /\ DirectEnds(d)

DirectStep(d) ==
    \/ Bind(d) \/ Attempt(d) \/ Infer(d) \/ InferAgain(d) \/ DirectRaises(d)
    \/ DirectRefused(d) \/ DirectPasses(d) \/ DirectWrite(d)

----------------------------------------------------------------------------
\* The rest of the system; each takes the Candidate row and commits.

\* delete_candidate_cascade: the versions go with the row, links are set NULL.
Delete ==
    /\ alive /\ LockFree
    /\ alive' = FALSE /\ track' = [p \in 1..NPaths |-> 0]
    /\ profiles' = <<>> /\ identities' = <<>> /\ vectors' = {}
    /\ UNCHANGED <<docs, job, lock>>

\* Variant: the scan does not take the Candidate row before it updates the path.
RepointUnlocked(p) ==
    /\ alive /\ docs < MaxDocs
    /\ docs' = docs + 1 /\ track' = [track EXCEPT ![p] = docs + 1]
    /\ UNCHANGED <<alive, versions, job, lock>>

\* A folder scan finds changed contents at a path of the candidate.
Repoint(p) ==
    /\ alive /\ docs < MaxDocs /\ LockFree
    /\ docs' = docs + 1 /\ track' = [track EXCEPT ![p] = docs + 1]
    /\ UNCHANGED <<alive, versions, job, lock>>

\* A CV uploaded to the candidate; no path points at it.
Upload ==
    /\ alive /\ docs < MaxDocs /\ LockFree
    /\ docs' = docs + 1
    /\ UNCHANGED <<alive, track, versions, job, lock>>

Next ==
    \/ \E r \in Runs : StartRun(r) \/ RunStep(r)
    \/ \E d \in Directs : StartExtract(d) \/ StartEmbed(d) \/ DirectStep(d)
    \/ Delete \/ Upload
    \/ \E p \in 1..NPaths : Repoint(p)

Spec == Init /\ [][Next]_vars

\* A process goes on with what it has begun: model calls have timeouts, and a
\* row lock is held for one short transaction.
FairSpec ==
    /\ Spec
    /\ \A r \in Runs : WF_vars(RunStep(r))
    /\ \A d \in Directs : WF_vars(DirectStep(d))

\* The operator also runs the command again and again.
RepeatedSpec == FairSpec /\ \A r \in Runs : WF_vars(StartRun(r))

----------------------------------------------------------------------------
Attempts == [doc : 1..MaxDocs, st : {"COMPLETED", "FAILED"}]

TypeOK ==
    /\ alive \in BOOLEAN /\ docs \in 1..MaxDocs
    /\ track \in [1..NPaths -> 0..docs]
    /\ profiles \in Seq(Attempts) /\ identities \in Seq(Attempts)
    /\ vectors \subseteq DOMAIN profiles
    /\ \A n \in vectors : profiles[n].st = "COMPLETED"
    /\ \A j \in Jobs : job[j].pc \in {"idle", "bind", "attempt", "read", "infer", "recheck",
                                        "write", "done"}
    /\ lock \in {None} \cup {j \in Jobs : job[j].pc = "write"}

\* What was true when the result was accepted still is when it is committed.
\* A folder run writes for a document that its source still tracks, once per
\* stage, and binds a vector to the profile that document has now; a direct
\* request writes only if nothing of what it read before the model call, minutes
\* ago, has changed: no upload, no newer attempt, the same effective profile.
WritesCurrent ==
    \A j \in Jobs :
        LET w == job[j] IN
        w.pc = "write" =>
            /\ lock = j
            /\ IF j \in Runs
                 THEN Tracked(w.doc) /\ (Extracts(j) => ~Done(History(w.stage), w.doc))
                 ELSE Unchanged(j)
            /\ ~Extracts(j) =>
                 /\ w.plan \notin vectors
                 /\ IF j \in Runs THEN PlanCurrent(j) ELSE Effective = w.plan

\* Reconciliation is safe to repeat and to run twice at once: no step of a folder
\* run makes a document that was READY not READY (a late FAILED answer of a slower
\* run does not bury the version of a faster one).
RunsKeepReady ==
    [][(\E r \in Runs : job'[r] # job[r]) => \A d \in 1..docs : Ready(d) => Ready(d)']_vars

\* process_pending_candidates on --limit: no failing document starves one that
\* has never been attempted.
NeverStarved ==
    \A d \in (1..MaxDocs) \ Unreadable :
        []<>(~Tracked(d) \/ Tried(d))
=============================================================================
