# MEYAR: models, checks and proofs

TLA+ models of the parts of the MEYAR backend whose correctness depends on
order: asyncio tasks, database transactions of several processes, the file
system beside the database, and local model calls during which no lock is held.
Paths below are relative to `src/backend/src/meyar/` unless they start with
`docs/`.

    tlc -workers 2 -config MCInferenceAdmission.cfg MCInferenceAdmission
    tlapm AdmissionGates_proofs.tla

`PROJECT.json` names every run, what it checks, the source lines each definition
translates, the hazards the properties are for, and for every property a variant
of one definition that breaks it (the operators commented "Variant:" in the
modules; no specification uses them).

## 1. The system

MEYAR ranks candidates for vacancies on one offline host: a FastAPI process, a
command line, PostgreSQL, a storage directory for originals and photos, and a
local model server. Tenants share all of it. Several processes work on the same
rows: web requests, folder scans, reconciliation runs and maintenance are
different sessions of PostgreSQL at READ COMMITTED.

Three habits of the code shape everything here:

* **No lock across inference.** Whoever needs the model reads in one short
  transaction, commits, calls the model for up to minutes, and validates again in
  a second transaction (`agent/turn_boundary.py`,
  `services/folder_reconciliation_service.py`,
  `services/direct_inference_authority.py`).
* **Two commits.** A file and its row cannot be committed together; a ledger per
  session settles the files after the transaction's outcome, and maintenance
  repairs what a crash leaves (`services/storage_recovery.py`).
* **One lock order.** User, Tenant, Membership, BrowserSession; folder source,
  content, candidate, row.

### Components

| component | state | operations | what is hard | correct when |
|---|---|---|---|---|
| inference gate (`llm/concurrency.py`) | slots in use, FIFO of futures, start of saturation | acquire, enqueue, refuse, resume, time out, cancel, release | a timeout between the hand-over of a slot and the waiter's next step | no slot leaks or doubles, FIFO, nobody is forgotten |
| parser supervision (`ingestion/admission.py`, `ingestion/parser_supervisor.py`, `ingestion/validation.py`) | slots, waiters, the child or thread of each request | admit, spawn, deadline, cancel, kill, reap | cancellation while the child is being created or cleaned up | no child outlives its slot, every call comes back |
| agent turn boundary (`agent/turn_boundary.py`, `application/conversations.py`, `application/drafts.py`) | conversation (reservation, version), contexts, submissions, turns, drafts, jobs | issue a submission, reserve, re-enter before each model call, Phase B, abandon, replay, review and confirm a draft, revoke | retries, expired leases, crashes, lost commit acknowledgements, logout while the model thinks | one answer per message, no lost update, truthful replies |
| dialogue lanes (`agent/dialogue.py`, `services/agent_task_repo.py`) | clarifications, tasks, pointers of a context | ask, answer, retry, expire, stage, re-verify, supersede, retain | staged before the model call, written after it | pointer, question and task agree; an answer binds to the question just before it |
| agent orchestration (`agent/service.py`, `agent/intent_routing.py`, `agent/capabilities/`) | one turn's plan and its steps | route, propose, validate, ground, execute | the model chooses what its plan quotes | what is executed answers for the whole message |
| result sets (`services/agent_result_set_repo.py`, `agent/capabilities/execution.py`) | ordered results, active pointer, retention | search, refine, look up by ordinal, activate, retire | retention beside activation; profiles that move during a refinement | the set in use is kept, a plan activates all or nothing |
| requirement semantics (`agent/semantic_requirements.py`, `agent/canonical_requirements.py`, `agent/service.py`) | one draft | read, propose, click, amend, settle a conflict, prove the origin | collisions of spans; clicks after a follow-up | no must-have is lost or weakened but by HR's own act |
| candidate search (`search/`) | plan of a search, profiles, vectors | plan by rules, sentences or model; filter, embed, rank | profiles move while the query is embedded; two demands for one field | mandatory words hold of everyone shown, and the best are shown |
| evaluation and scoring (`evaluation/`, `scoring/`) | evaluations | evaluate, score, order, reuse | overlapping periods, two rankings at once | must-haves decide before scores |
| jobs and criteria (`application/jobs.py`, `application/drafts.py`, `services/job_repo.py`, `api/v1/jobs.py`) | jobs, criteria versions | create, duplicate check, append, archive | two equal creations | one active job per signature |
| storage recovery (`services/storage_recovery.py`, `storage/`) | rows, original names, staged links, journals, ledgers | save, stage, commit, roll back, settle, compensate | death or a failing system call between any two steps | the bytes of a live row are never lost, leftovers are repaired |
| maintenance (`services/maintenance.py`) | advisory lock, its scan | orphans, journals, retention | uploads and settling sessions beside it | repairs, and destroys nothing that may be needed |
| folder ingestion (`services/folder_indexer_service.py`) | index rows, documents, candidates, locks of a scan | scan: skip, unchanged, new, changed, missing; retry after a deadlock | concurrent scans, deletes in the middle of a parse, opposite lock orders | one candidate per content, no link to a deleted candidate, scans end |
| human access and tenant authority (`ui/router.py`, `ui/auth.py`, `services/tenant_authority.py`) | users, memberships, tenants, sessions, login claims | login, choice of tenant, request, logout, commit guard, disable, enable, suspend, password | a flag that is true again, reads made before a wait | nothing withdrawn acts again |
| candidate analysis (`services/folder_reconciliation_service.py`, `extraction/`, `services/candidate_embedding_service.py`) | profile, identity, embedding versions of a document | folder run with limit, direct request, delete, re-pointed path, upload | the answer arrives minutes after its reasons | only wanted results are committed, no run undoes another, no document is starved |
| offline operations (`ops/update.py`, `offline_host.py`, `backup.py`, `restore.py`, `schema_init.py`, `service_lifecycle.py`) | release pointer, schema, service, receipts, backups | install, activate, back up, restore, the five phases of an update | a crash or a boot between any two effects; a migration that outlives its command | new code never meets an old schema, receipts are true |
| release building and verification (`ops/build_release.py`, `verify_release.py`, `offline_bundle.py`, `offline_host.py`) | files in a directory, bundles, the medium, releases | build, verify, bundle, carry, install | races for file names, files swapped between a check and a use | what is installed is one whole build of its commit |
| local model provisioning (`ops/ai_provision.py`, `llm/model_identity.py`) | runtime, service, models, receipts, the daemon | install, start, verify, check before a request | files written in place, imports that outlive a kill | a receipt stays true |
| APIs, web pages, providers, audit, operator reports, demo data, tables | none that decides an outcome here | | | |

`PROJECT.json` has the full list with sources and, for each part that is not
modelled, the reason.

### How they meet

Every model call of a turn, a run or a request passes the **inference gate** of
its process; BUSY and timeouts of the gate are outcomes in the other models. The
**turn** takes its authority from a browser session that **access** may revoke.
Inside a turn, **planning** decides what to do with the message, the **lanes**
hold its questions and drafts, **result sets** what it found by **search**, and a
draft that HR **reviews** and confirms becomes a vacancy of **jobs**, against
which candidates are **scored**. Uploads, **folder** imports and deletes save and
stage files through **storage**. The documents a scan tracks are the work list of
**analysis**; a delete of the candidate cuts through scan, storage, analysis,
search and ranking alike. **Maintenance** retires sessions (and so deletes the
contexts of the turn) and repairs storage. Below them is the host: **releases**
arrive by the pipeline, an **update** puts one in charge, **provisioning** gives it
its models.

The components meet through rows, files and locks, not through calls that change
each other's state, so each module holds the neighbours' steps that touch its own
rows (a delete in FolderIngestion, CandidateAnalysis, CandidateSearch and
JobRanking, a revocation in AgentTurn, an import in ModelProvisioning) and leaves
out what they do elsewhere. `SlotPool` is implemented by both gates, and shown so
with `INSTANCE`. JobRanking is built on CandidateScoring.

## 2. The modules

An action is what one actor does between two points where another can act: an
`await` in the gates, a transaction or the gap between two of them in the turn and
in analysis, a system call or a query in storage and on the host, a wait for a lock
in the scan and in access. Identifiers, texts, hashes and bytes are model values;
what the model answers, what a parser accepts and when a clock runs out is chosen
nondeterministically.

**InferenceAdmission** — `llm/concurrency.py`, complete. `active`, `waiters` and
`saturatedSince` are the gate's fields; `task` says where each asyncio task is.
The states `handed` (the future has its result, the task has not run yet),
`revoked` (as handed, and a timeout or a cancel arrived since) and `withdrawn` (its
future was cancelled, the deque still holds it) are the gap in which the gate is
delicate. `AcquireFree` and `AcquireEnqueue` are `_acquire` up to its `await`
(the refusal at a full queue changes nothing and is no step); `ResumeAdmitted`, `ResumeGiveBack` and `ResumeWithdrawn` the three
ways out of its `await`; `ExitSlot` with `release` the end of `slot()`.
**SlotPool** is what a gate promises: who holds a slot, who waits, and who is
in front of whom (a set of pairs, which a deque with cancelled entries and one
without both define). It has no futures and no event loop: a slot passes in one
step from who leaves to who waits first.

**ParserSupervision** — the second gate and what it is held around. `busy` and
`line` are the gate's counter and waiters; `at` is where
a request is, `raised` an exception that was delivered to it and not yet seen,
`helper` its child process or validation thread. The clean-up of a child puts a
cancellation off (`cleaning`), a thread cannot be killed and keeps the slot
until it ends (`shielded`). The three gates of the code share no state, so one
behaviour has one kind of work.

**AgentTurn** — one conversation. `conv` is its row with reservation and
`turn_version`, `ctx` the context of each browser session, `sub` the submissions,
`turn` the handlers and what they remember across transactions, `jobs` what
confirmed drafts created. `Start` is the unlocked read of the submission,
`Reserve` the transaction that claims it and the conversation, `Reenter` the
validation before each model call, `Commit` Phase B with the two messages, the
draft and the context. `Reserve` looks at the user and the tenant only, so a session
that was logged out since the handler read it may still reserve (`MayReserve`);
re-entry and Phase B refuse it. `LoseAuthority`, `LeaveEarly`, `PhaseBFails`, `Abandon`
and `RetireUnused` are the error paths, each with its second transaction. `Crash`
ends a handler anywhere; `ExpireReservation`, `ExpireLease` and
`ExpireSubmission` are the clock; `ResolveDraft`, `ConfirmDraft`, `Revoke` and
`RetireSession` the neighbours. A commit of Phase B whose acknowledgement is lost
takes the error path although the turn is durable.

**DialogueLanes** — the two lanes of a context. A turn stages its lane changes
when it starts and writes them in Phase B, so `turn[h]` holds what it read and
staged, while draft routes, other sessions' exchanges and the clock go on.
**DraftReview** is the inside of one draft: `requirements` is the server's own
reading of each span, `Build` the draft with whatever the model's proposals lift,
`ResolveModality`, `ResolveConflict`, `Exclude` and `FollowUp` HR's acts, `Confirm`
the proof of origin.

**AgentPlanning** — one turn from its text to its answer. A message is a
sequence of words with its analysis; `ResolveDialogue`, `FollowUpDraft` and
`RouteEntry` are the entry, `Propose` any plan a model can make, `Validate` the
checks against text, session and result sets, `ExecuteStep` the steps. The result set may change between two steps (`Drift`).

**ResultSets** — `sets` is every result set ever created, `active` the pointer,
`turn` the plan in flight with its private pointer, `sweep` what the command
line's retention has selected. Every step of a plan commits on its own; the
pointer moves only with the turn.

**CandidateSearch** — one search. `PlanFromRequirements`, `PlanFromSentences` and
`ModelDrafts` make the plan, with every check of a draft; `ReadProfiles` and
`Answer` are the two phases around `Embed`, with deletes, new versions and new
vectors between them.

**CandidateScoring** and **JobRanking** — the first is functions: every
evaluator, the fit band, the score, the order; `Sorted`, `Merged` and
`MergeAndSumYears` are the merge of periods step by step. The second has the
requests: a request is one transaction of several statements, its uncommitted
writes are in its record, `profile` the effective profile version of each candidate
(none before the first analysis; a scoring may name an earlier one), and the `Blocked` operators are the waits that unique
indexes, row locks and foreign keys impose. An evaluation is a pure function of
criteria and facts, so `Scorecards` is a table of constants.

**Rankings** — `InOrder`, a set listed by a strict total order: the sort by a key
that ends in an identifier, used by the search, the library and the ranking.

**StorageRecovery** — the assets of one candidate. `rows` are durable rows,
`files` original names, `trash` staged links, `journals` the `.json` beside a
link; `writer` is a database session with its transaction and `_Ledger`; `fs` is
the file operation a process is in the middle of, so that it may be killed between
journal, link and unlink. `Commit` has both outcomes of `commit_with_recovery`
(acknowledged, or durable and lost); `Check` is the reference query of the
settlement; `Keeper...` is the storage pass of maintenance. A key never gets
other bytes, as keys are generated once, so bytes are not modelled.

**FolderIngestion** — scans with their locks. `idx` is `FolderIndexedFile`, `doc`
the documents with their candidates (a candidate is named by its first document);
a row says whether its last import failed, and a scan visits its paths in `Order`,
the sorted walk;
`scan` a transaction with its snapshot (the identity map), its unflushed and
uncommitted rows, content locks (`held`) and SHARE locks (`shares`). The steps
between two waits of `_handle_new_path` and `_handle_changed_or_retry` are
`NewContent`, `LockContent`, `Lookup`, `LockOwner`, `CreateNew` and `Changed`,
`ParseChanged`, `LockOwn`. `Waits` and `OnCycle` describe PostgreSQL's deadlock
detector, `AfterDeadlock` `index_folder_and_commit`'s bounded retry.

**AccessAuthority** — who may still act. Row locks are explicit (`held`, S and X);
an actor's writes become visible with its commit. A request goes through login,
choice of tenant, `resolve_ui_context`, logout or the commit guard of
`tenant_authority`; a command locks the rows of its `Plan` in the order of the
code and sweeps the sessions. `changes` counts the revoking changes of a
membership; it is not in the code and only the properties read it.

**CandidateAnalysis** — one candidate. `profiles` and `identities` are the
histories of versions, `vectors` the profile versions with an embedding, `track`
the paths; `job` is a folder run or a direct request with what it remembers across
the model call. A run reads (`Read...`), calls (`Infer`), checks again under the
Candidate's lock (`Recheck...`) and writes (`Write`), document after document of
`Allowed`. A direct request binds its answer to a fingerprint (`Bind`,
`Attempt`, `Unchanged`).

**HostUpdate** — one host. `gens` are the activation generations, the last of
which the pointer names; `db` is the schema's revision, `service` the release the
running process was started from, `receipts` the phase files, `proc` a command
between two of its effects, `worker` a migration. `Look`, `Probe` and `Settle` are
the readiness sections, which hold no lock. Any command may be killed
(`Abandon`), any number of boots starts the service through the pointer.

**ReleasePipeline** — how a release reaches a host. `out` is what a directory
holds, with the run that created each file; a bundle run copies three paths that
may belong to different builds; the installer reads the deployment manifest once
and every other file twice. The operator removes outputs, replaces files of the
medium and spoils copies at any time (`RemoveOutput`, `Carry`, `Spoil`). A digest
is the content itself, and a file is replaced, never rewritten in place.

**ModelProvisioning** — the model runtime of a host: files written in place (a
killed command leaves them `Torn`), the daemon launchd keeps alive, imports that
run on when their command is dead, and the check each request makes.

### The compositions for TLC

An MC module gives a specification its instance. Six of them are also *sums*: a
behaviour is one of two systems that share no state (a Boolean of the MC module,
constant in every behaviour, says which), each explored completely as if it were
alone. The sum adds its states, not its products, and no behaviour of either is
lost: MCInferenceAdmission (both gates), MCCandidateSearch (AgentTurn or a
search), MCAgentPlanning (AccessAuthority or a plan), MCDialogueLanes (lanes or
the inside of a draft), MCModelProvisioning (CandidateAnalysis or provisioning),
MCReleasePipeline (HostUpdate or the pipeline). The properties of the second
system carry the prefix of its INSTANCE, so the MC module restates them by name.

## 3. What the runs check

| run | instance | checks |
|---|---|---|
| `gate` | 5 callers, 2 slots, queue of 2; or 4 parse requests, 1 slot, 2 waiters | NoLostWaiter, PoolSpec; HelpersHoldSlots, CallsEnd, ParserPoolSpec: both gates implement SlotPool, its liveness included, and no helper outlives its slot |
| `turn_safety` | 2 requests, 2 submissions, 2 sessions, 2 messages; or one search over 3 candidates | ExactlyOnce, Serialized, DraftConfirmedOnce, TruthfulOutcome, ReservationOwned, RevocationBarrier; SearchHolds |
| `turn_liveness` | 2 requests, 2 submissions, 1 session, 1 model call | ConversationFrees |
| `storage` | 2 sessions, 2 assets, 2 mishaps, 1 clean pass | ReferencedBytesSafe, Compensated, PassRepairs |
| `folder` | 3 scanners, of which any 2 scan, of 2 sources that hold 2 contents in opposite order, 1 delete, 1 edit, 2 attempts | OneOwnerPerContent, ScansStayCurrent, EvidenceKept, ScanEnds |
| `access` | 2 requests, 2 commands, 2 users, 2 tenants, 3 memberships, 3 sessions; or one turn over each of 15 messages, plans of up to 2 steps | AuthorityIsCurrent, CommitOnlyActive, OnlyLogoutsDeadlock; PlanAnswersMessage |
| `analysis` | 2 runs, 1 direct request, 2 paths, 2 documents, 3 versions, every outcome of a call; or 3 manifests sharing names | WritesCurrent, RunsKeepReady; ModelsPinned |
| `result_sets` | 2 candidates, plans of 2 steps, 4 sets, 1 kept inactive set, batches of 1 | LiveSetsKept, PlansHold |
| `lanes` | 2 contexts, 2 turns at once, 3 exchanges; or every draft of 3 spans from 756 vacancies | LanesConsistent, AnswerFollowsQuestion; ReviewHolds |
| `host` | 2 operators, 2 updates (1 migrates), 2 backups (the second for an update that migrates), 3 generations, any number of boots; or 2 builds, 1 bundle run, 2 installers, 1 intervention | NewCodeNeverOnOldSchema, EvidenceHolds, FinalizeSeesNewCode; ReleasesHold |
| `hiring` | 3 requests, 2 candidates (1 not analysed at first), 2 criteria versions, 3 jobs, 2 profiles each | VacancyOnce, AnswersAgree, ScoringHolds, RequestsEnd |
| `analysis_starved` | a small instance of CandidateAnalysis | a statement of the repository that the code does not meet; section 6 |

What a joined name stands for is said in its module: `AuthorityIsCurrent` is
LiveSessionsCurrent and AcceptedIsCurrent, `ScansStayCurrent` SnapshotFresh and
PendingLinksLive, `LanesConsistent` one clause per lane, `ReviewHolds`
RefusedOnlyAfterLateJoin and WeightsAsWritten, `ReleasesHold` InstalledAsReleased
and BuildsStayWhole, `EvidenceHolds` truth of the receipts and of what was restored, and resumability,
`PlansHold` WholePlanOrNothing and RefinementNarrows. `OneOwnerPerContent`
speaks of the candidates a scan has minted and not committed: no other scan mints
one for the same bytes, and no row shows one as its bytes' own. The runs have between one
hundred thousand and two million states and take from forty seconds to under
three minutes with two workers.

**Why the bounds are enough to meet the hard cases.** *Gates:* with a slot for two
and room for two, a fifth caller is refused, the queue is full and empty again, a
release meets several cancelled futures in a row, and a hand-over is withdrawn
while another waits. *Turn:* two requests may carry the same or different
submissions, with the same or another message, of one or two sessions; every pair
of transactions interleaves, which is all that exactly-once and lost updates
need. `MaxCalls` is 0 in `turn_safety`: one call lies between `Reserve` and
Phase B anyway, and re-entry, which adds nothing to what can be interleaved, runs
in `turn_liveness`. `MaxVersion` bounds only the versions that draft reviews add.
*Search:* three candidates whose profiles differ in the term, the years and the
vector a request asks for, so that each can pass the gate and be overtaken.
*Storage:* two mishaps are a crash and a failure of its repair. One asset staged
and the next failing needs two keys. *Folder:* any two of three scanners scan (`MaxScans` is 2): two of one source
(serialised by its lock), or one of each (not serialised, sharing contents in the
opposite order, which is what makes a cycle of locks).
*Access:* a person with memberships of two tenants and a colleague make the locks
of user, tenant and membership overlap in every way; two commands on the same rows
in opposite directions. *Planning:* the messages cover each route and each way a
quote can miss a part (a conjunct, an ordinal, a count, protected words, two
vacancies); a second step is what a first one can invalidate. *Analysis:* three
versions allow a COMPLETED one, a FAILED one after it and a repetition; the limit
equals the number of documents, except in `analysis_starved`, where it is smaller
on purpose. *Provisioning:* a manifest sharing a tag with each of two others is
where one installation could undo another. *Result sets:* with one inactive set
kept and batches of one, retention acts at every creation and the sweep needs
several rounds. *Lanes:* three exchanges are a question, its answer and another
session's exchange between them. *Host:* the update that changes no schema and the
one that does may be planned, applied and rolled back in either order; three
generations are the first release, an update and its rollback. A second backup is
made only for an update that migrates and is planned alone, and is begun while the
worker of a killed command is alive: it may commit between the reading of the head
and the dump, which is the backup a restore must refuse. Releases are installed
before all else, since guards ask only that one is in place and nothing removes
one; and backups made before any plan are not restored, since no update rests on them
and no command reads what a restore found. In the pipeline
the build side ends before the host side starts: they share only published
bundles, which no later step changes, so an overlap adds no new builds and no new
installs. One intervention of the operator is enough for each swap of one file or
of all. *Hiring:* three requests put two against each other while a third deletes
or re-analyses; one candidate begins without a profile. `ScoringHolds` also checks the experience of three periods in any
position against the union of their years.

**Deadlock.** `gate` and `access` check for it: a gate task can always go on, and
in `access` either all have ended or somebody can move. In the other runs
requests, uploads, deletes, commands and scans are finite in number, so the system
may stop; `CHECK_DEADLOCK FALSE` says so. Lock cycles of the scans are steps
(`DeadlockVictim`) and `ScanEnds` shows that they end; `RequestsEnd` shows that
rankings and creations form none.

**Symmetry** is used only in runs without liveness properties, over sets whose
members nothing tells apart (sessions open at the start or named in a cfg's
definitions are left out).

### Fairness

* *Gate*: `WF(Resume)`, the event loop runs every ready task; `WF(ExitSlot)`, the
  body of a slot ends because every provider call has an HTTP timeout. No fairness
  of `Interrupt`: nothing obliges a timeout to fire first. SlotPool's own fairness
  says that who holds a slot gives it back.
* *Parser*: `WF(Served)` of each request: the event loop runs it when it can
  run, the deadline of its child and the end of its thread arrive. Neither the
  admission timeout nor the child's own exit is relied on.
* *Turn*: `WF(Handler)`, a handler that has not crashed goes on, each model call
  being bounded by a timeout; and the clock reaches the expiry of a reservation
  whose handler is done or dead. No fairness of crashes, other expiries, users.
* *Folder*: one weak fairness of all steps of scans and deletes in progress
  together: some scan that can move does. PostgreSQL's detector breaks a cycle.
  Nobody has to start anything.
* *Hiring*: one weak fairness of all requests' work together, again no more than
  that the database goes on while somebody can.
* *Analysis* (`RepeatedSpec`, only for the starvation run): jobs go on, and the
  operator repeats the command, which is the most the docstring can rely on.
* *The others*: safety only. Maintenance and the operator's commands are run by
  hand, so that leftovers disappear is stated of a pass that ends (`PassRepairs`),
  that an interruption can be taken up again as a state (`Resumable`), not as
  something that must happen.

## 4. What is proved

TLAPS checks the following for every value of the constants that meets the named
assumption (finite sets, naturals, NULL apart from the rows); nothing is assumed
beyond it. Every obligation is discharged by SMT, Zenon or, for the temporal
steps, LS4. The proofs share one layout: an inductive invariant in named parts, one
lemma per action (under it one step per part the action can disturb), one lemma
per operator that is cited more than once, and the theorems at the end. TLC
checked the strengthenings on the run's instance before they were proved.

| module | theorem | states |
|---|---|---|
| AdmissionGates_proofs | GateAccounting, GateQueue, GateSaturation | the counter is exact, live waiters are queued once and nobody waits beside a free slot (NoLostWaiter), the saturation clock runs when it should |
| | GateImplementsPool, GateOrder | every step is a step of SlotPool or a stutter; nobody overtakes |
| | ParserHelpersHoldSlots | HelpersHoldSlots: no child or thread without the slot of its request |
| | ParserImplementsPool | the second gate implements the same SlotPool |
| AgentTurn_proofs | TurnInvariant, TurnExactlyOnce, TurnSerialized, TurnDraftConfirmedOnce, TurnRevocationBarrier, TurnReservationOwned, TurnTruthfulOutcome | the six safety properties of `turn_safety` about the turn |
| | TurnPlanAnswersMessage | PlanAnswersMessage |
| StorageRecovery_proofs | StorageBytesSafe, StorageInFlightSafe, StorageCompensated, StoragePassRepairs | the three of `storage`, and that an open upload keeps its original |
| FolderIngestion_proofs | FolderOneOwner, FolderScansStayCurrent, FolderEvidenceKept | the safety of `folder` |
| AccessAuthority_proofs | AccessInvariant, AccessAuthorityIsCurrent, AccessCommitOnlyActive, AccessOnlyLogoutsDeadlock | the safety of `access` about people and tenants |
| Candidates_proofs | AnalysisWrites, AnalysisKeepsReady | WritesCurrent and RunsKeepReady |
| | LiveSetsAlwaysKept, PlansAlwaysHold, PointerOnlyForward | LiveSetsKept, PlansHold, and that the pointer only moves to newer sets |
| | RetentionAtMostOneOver | RetentionOneOver: retention leaves at most one inactive set more than the policy |
| | SearchesAlwaysHold | SearchHolds |
| | VacanciesCreatedOnce, AnswersAlwaysAgree | VacancyOnce and AnswersAgree |
| | RankingsAlwaysHold, YearsAreUnions | ScoringHolds, and that the merge of any list of periods counts every year once |
| DialogueLanes_proofs | LanesAlwaysConsistent, AnswersFollowQuestions | LanesConsistent and AnswerFollowsQuestion |
| | DraftsStayProvable | ReviewHolds |
| Host_proofs | HostNewCodeNeverOnOldSchema, HostEvidenceHolds, HostFinalizeSeesNewCode | the safety of `host` about updates |
| | ReceiptsStayTrue | ModelsPinned |
| | ReleasesStaySound | ReleasesHold |

**Gates.** The invariant is `TypeOK /\ SlotAccounting /\ NoLostWaiter /\
WorkConserving /\ SaturationTracked`, inductive as a whole and in no smaller part:
that a hand-over leaves the counter exact needs the deque to hold each waiter
once and nobody who already owns a slot; that a caller who finds the
queue empty may take a slot needs "nobody waits beside a free slot". `_release`
is a loop over cancelled futures in the code; the model states its outcome (the
first live waiter, or a free slot), and `ReleaseIInv` treats the two cases.
The refinement maps the owners of slots to `holders`, live waiters to `waiting`
and the positions in the deque to `ahead`: a withdrawal is then one step of the
pool although the deque holds the dead entry until its task runs, and a hand-over
happens when the future is resolved, not when the task resumes. GateOrder follows
from the same invariant, step by step: a slot goes to a newcomer only when nobody
live waits, and otherwise to the first live waiter. The parser's gate has its own counterpart of
WorkConserving, which its code states nowhere, and `HelperStates`: in which
places of a request a child or a thread may be alive.

**Turn.** ExactlyOnce is not inductive: a
state with one committed turn and its submission claimable again satisfies it and
the next step breaks it. The strengthening says why that state is unreachable:
`CommittedOwns`, a committed turn keeps its submission for good, completed and
its own, until the row is deleted, and a deleted row comes back to nobody.
`DraftsOwned` does the same for drafts: a live draft was put there by a committed
turn, is live in one session, and has no Job. `HandlerKnows` and
`RowsHaveSessions` carry what handlers remember across transactions. Actions that
touch no handler share `NoHandlerStep`. The two action properties follow from the
invariant and from who can change a reservation or commit. TruthfulOutcome needs
`CompletedAnswered` beside it: a completed submission has the committed turn that
answered it, so whoever is answered REPLAYED finds one.

**Plans.** TurnPlanAnswersMessage assumes `PlanningAssumption`, which the run
evaluates on its messages. `PlanningInv` follows the plan through the turn: nothing
has run before the plan is validated; the plan is one a model can have proposed over
the message of the turn (`ByModel`) or one of the server's own (`ByServer`); and from
validation on it is `Vetted`, it passed every check against that message. What has
run (`StepsHold`) is then judged step by step against the words it quotes. The checks are
tables read from their first failing row, so what a vetted plan passed follows
from the existence of a least number. The result set may move between any two steps.

**Storage.** One invariant of named agreements between rows, names on disk,
ledgers and file operations under way. The ones that do the work: `Exclusion` (a
delete has the candidate, maintenance the root, and neither runs beside the
transaction it would harm), `Uploads` (open uploads own disjoint keys, on disk),
`Justified(a)` (what a process between journal, link and unlink may rely on when it
is resumed or killed) and `BytesKept` (a live row has its original or a `Solid`
link: one with a journal that nobody is about to drop). StorageCompensated needs
`Traced`, which holds only while nothing was killed: some ledger answers for every
link and every original without a row. StoragePassRepairs needs `Passing`, the
work a clean pass has left.

**Folder.** The invariant is `Typed`, `DocsSound`, `LocksSound` and `ScanSound(s)`
for each scan. A scan's own steps are proved one by one; what it relies on is kept
by everybody else's steps for the same reasons, stated once as `Undisturbed`: the
lock of a content keeps others from minting for it, SHARE and row locks keep
deletes away, the source's lock keeps the snapshot. An invariant over who minted a
document is true on the run's instance and too strong beyond it (a path loses
its document to a failed re-import, another path mints one for the bytes, and
the first returns to them in a failed import). The proved one speaks of what
the rows show, and so do `Shows` and OneOwnerPerContent. That the path visited
next is one still to visit needs a least element of a finite set of numbers. The
library's induction theorems take operators, which the provers cannot
instantiate, so it comes from the well-foundedness of strict inclusion.

**Access.** The invariant says which rows each state of a request or a command
holds and what they keep true; `Writes` states under which locks each row may be
written. For OnlyLogoutsDeadlock `Holds` bounds the locks from above: nobody has
more than its state says. Whoever asks for or holds a session's row has its
user's row in a mode that excludes the other side, so only a logout, which comes
to update a row it shares, waits for a session. All other waits are for users, tenants and
memberships, and an actor has only rows `Before` (by kind, then id) the one it
waits for. Take the first row anybody in a cycle waits for: nobody in the cycle
waits for the one who waits there, so the rest is a smaller cycle. A command's
rows of one kind are taken by id, which is what this needs and what the
`order_by` of the code does.

**Analysis.** The invariant of AnalysisWrites is `JobsTyped /\ WritesCurrent`: the
one who holds the Candidate's lock is the only writer,
and whoever changes a row that a pending write depends on needs the lock free.
`WritesCurrent` itself carries the argument: what `Recheck...` established stays
true until `Write`. AnalysisKeepsReady adds that histories are sequences to which a
write appends, and that a run writes for a document only while its stage is open,
so what was the newest version of a READY document stays it.

**Result sets.** The invariant is `PointerHeld` and `WorkHeld`: the plan in flight
works on the set its context points at, which no deletion takes, or on the one it
made last, which is the newest row of all; and a sweep only holds rows that were
there when it selected them, so that one is too new for it. RetentionAtMostOneOver
is inductive beside it once the order inside a step is taken apart: a creation
retires first and then inserts, with its source and the pointer protected. A pass
that finds nothing to take has left at most the policy's number beside the
protected ones, and a pass that does find something removes at least the one
row the step adds. That among finitely many rows there is a first to take comes
from well-foundedness, as in Folder. PlansHold follows step by step from the same invariant:
of all steps only a refinement's own creates a set while a refinement is due, from
the snapshots it has just read again, and `Create` numbers rows without moving any.

**Searches.** SearchesAlwaysHold assumes `SearchAssumption`. `SearchInv` says that a
plan that may be executed keeps every scorable requirement of its text, whichever of
the three planners made it (`Executable`), that the profiles in hand after the first
phase met its mandatory filters when they were read (`EligibleHold`), and that an
answer lists the best (`BestFirst`). The last rests on one lemma about
Rankings, `OrderedOnce`: a finite set in a strict total order is listed once, in
that order, because the number of members before a member tells members apart and
takes every value below the cardinality. That `Ahead` is such an order, ids breaking
ties, is proved of the keys the code sorts by.

**Hiring.** For vacancies, `InsertsAlone` says what the unique index lets an
uncommitted insert assume: no active vacancy has its signature, and no other
request has inserted it. For evaluations `OneScore` says the same of provenance:
rows that stand for one score are one row, committed or of one request. `NamedHeld`
then keeps what a request has found: an evaluation leaves the table only with its
candidate, and a profile that was deleted never has a version again.

**Rankings.** RankingsAlwaysHold assumes `HiringAssumption`, which the run evaluates
on its facts and criteria. `RankingInv` says of each request (`GoodRequest`) that what
it still has to do are distinct candidates of the library with profiles they had, that a
candidate it has dealt with is not waiting again, and that the rows in hand are one
for each candidate. Without the last two a list could hold equal keys, and a set
with equal keys has no order. Then `Outranks` is a strict total order on the entries and
`OrderedOnce` gives the list. `GoodBands` relates bands and must-haves: a band that is
neither INSUFFICIENT_EVIDENCE nor MANUAL_REVIEW_REQUIRED has all must-haves met, and an
entry whose must-haves are met and that waits for no human has such a band,
whatever its score. YearsAreUnions is about lists of any length. The merge is a recursive function; `StepsCompose`
shows that what n steps lead to exists (a least n without a result has
none), and the same argument on a least counterexample carries `MergeOf` along the
sorted list: the years of the last merged period, and as many earlier years as the
other merged periods span, are the years of what has been merged. A later period begins
no earlier than the last one, so it can only extend it or leave it behind.

**Lanes.** The invariant is the two lanes' agreement, `RowsSound` (each question
has its task, a first attempt its own exchange, a second one a first) and
`TurnsSound`: what a turn staged is `Coherent`, a table of what the resolution of
lane A and the body of the turn can want together, and a turn nobody has outdated
knows the draft pointer. A commit is taken apart once, in `CommitParts`: the
tasks it writes, the clarifications it writes and the tasks it retires, each with
its own lemma, so that the preservation of a lane is about three sets and not about
a nest of updates. Unchanged is what makes it work: the row a turn answers is still its context's
open question. For AnswersFollowQuestions the re-check of `Live` at the commit
is enough together with RowsSound.

**Drafts.** DraftsStayProvable assumes `DraftAssumption`: spans are finitely many
numbers and a reading has a known subject and modality, or none. `DraftInv` says where
each span stands: scored under one criterion with its type and subject, waiting in one
item that repeats the readings of its own spans (`ItemsWait`), or outside; that
HR's decisions and settled conflicts fit the readings (`Settlements`,
`DecisionsSound`); and that, until a late join, the follow-ups lead from the origin of each
span to its criterion (`OriginsLead`). Both kinds of click are one thing to the
proof, `Joins`: some waiting spans get a criterion that is new or equal. A follow-up is
added at the end of the chain, where it replaces the value the chain gives (`LeadsOn`),
and leaves every other chain alone (`LeadsBesides`). Neither the number of spans nor
the bound on follow-ups is used.

**Host.** The parts: an operator at an effect step has the operation lock; a plan
leads from one installed release to another whose migrations go at least as far;
the database only grows; while the generation of an update or of a rollback is the
active one, it has its plan, its backup and its schema, and the service runs nothing or
its release (`ActiveSound`); receipts name generations there are, and only grow
in number. A restore that completed compared the database it put back with the head the
backup recorded (`RestoresSound`), and the backup an update rests on recorded the head of the
release it left. A killed command leaves `Abandon`'s state, which satisfies all of it.

**Models.** ReceiptsStayTrue assumes `ProvisioningAssumption`, which the run evaluates
on its bundles. ModelsPinned says nothing of a command under way, and so is
not inductive. `ReceiptsTrue` says of every whole receipt what a request would
find on reading it: its manifest is whole, its runtime the installed one, and each name
it vouches for has the content it recorded. Two facts keep it so: runtime.json is written
once, to its end, before anything relies on it (`RuntimeFirst`), and an
installation works only on names no receipt vouches for and has at most one
import of its own under way (`InstallationSound`). An import that outlived its command
makes its name late; `late` names are exempt in the property and in the invariant.

**Releases.** ReleasesStaySound assumes `PipelineAssumption`: orders name known
directories, and the earlier bundle was built from a fit commit. The invariant has
one part per side. `RunSound` is what a build may rely on while others publish in
its directory: every file it has created is still there as its own with the
data it wrote, or the operator took it, and its checksums come last, so those of
a run that failed are never whole. `DataSound` says of every file by
itself, whoever wrote it, that it is unfinished or holds what some build made of
a fit commit; three such files that verify-release accepts are then of one build
(`VerifiedIsWhole`), although they may come from three directories. On
the host the installer's plan is a whole deployment from the moment it is read
(`InstallerSound`), and what passes a comparison with it is of that plan, whatever
is on the medium afterwards. The bounds of the run on interventions and its order of
builds before installs are not used in the proof.

**Only model-checked.** Every safety property the passing runs check, invariant or
action property, is stated by a theorem. Liveness and fairness, which the prover does not
handle, stay with TLC: ConversationFrees, ScanEnds, CallsEnd, RequestsEnd, and the
fairness parts of PoolSpec and ParserPoolSpec (their safety parts are proved). So do
the evaluators of CandidateScoring other than the merge of periods: no property speaks
of what each computes, only of what follows from their results.

## 5. Abstractions and assumptions

* The outcome of a COMMIT is decided when the client sees the error. If
  PostgreSQL were still working on it, the reference query of
  `storage_recovery.py` could read too early; the code makes the same assumption.
* Of a lost COMMIT acknowledgement in Phase B the client hears that the turn did
  not run although it is in the transcript. `TruthfulOutcome` therefore speaks of
  COMPLETED and REPLAYED only; sending the same submission again is answered
  REPLAYED, so nothing is answered twice.
* Duplicates of one content are found in the order of `created_at`, which is
  the start of a transaction and not a commit order: `Lookup` may pick any
  eligible row.
* In FolderIngestion a file is observed stable or skipped; the two-pass read of
  `folder_scanner.py` is not modelled. Tenant suspension fails a scan like any
  other error (`Fail`).
* In CandidateAnalysis a document too large for the model is a version that is
  not COMPLETED, as a FAILED one. Left out: the authority of evidence that is
  verified when a version is read, a change of the embedding model, suspension,
  and the death of a run, which leaves nothing durable half done. A scan's SHARE
  lock on a Candidate is an atomic commit that needs no UPDATE holder, and the
  few reads of `_is_ready` are one snapshot.
* In AccessAuthority clocks (expiry of sessions and tokens), CSRF, roles and API
  keys are left out: they restrict further what the properties already bound.
* In StorageRecovery trash older than the journal format is left out:
  `TrashIsJournaled` states that the present code makes none.
* Texts are never characters. AgentPlanning, DraftReview and CandidateSearch take
  what the regular expressions and the canonical analysis find as given with a
  message, and translate what is decided from it.
* In ResultSets and DialogueLanes AgentTurn's reservation admits one turn at a
  time to the database; a turn whose reservation expired is abandoned, or, in the
  lanes, goes on beside its successor until its re-check.
* In HostUpdate a command that fails before its first effect is no step; in
  ReleasePipeline SHA-256 is injective, and an interrupted run
  (KeyboardInterrupt) and a missing embedded manifest (NO_INTERNAL_MANIFEST)
  are among the failures that end a run in the same way.
* In JobRanking every candidate is ACTIVE, the only status the code gives one.
* ModelsPinned exempts names that an `ollama create` wrote after its command was killed (`late`).
* Two logouts of one session can deadlock: both hold its row FOR SHARE when they
  come to update it. PostgreSQL aborts one, whose request fails; the other ends
  the session. `OnlyLogoutsDeadlock` says that this is the only cycle.

**Not modelled, and why.** Rules on characters without state: text rules,
evidence verification, and the regular expressions of requirement semantics. I/O
whose outcomes are choices of the models that call it: providers, parsers, the
photo worker's geometry. Transport and pages without state of their own: the human
and machine APIs and the web interface, apart from the routes that are in a
module. Records no decision reads: audit and security events. Reports: readiness,
diagnostics and the operator commands that look at a host and print; reboot and
edge preparation are sequences of reads that end in a receipt nothing else reads.
Synthetic data. Tables and schemas: their columns and constraints are in the
modules that use them. `prove_static_linear_upgrade` is a function of one tree.

## 6. Where the code differs from what it says

One run ends in a counterexample:

* `analysis_starved` — "a candidate that keeps failing can never permanently
  starve a candidate that has not been tried yet"
  (`services/folder_reconciliation_service.py:528`). A document without a
  canonical text gets no version, stays "never attempted", sorts first by path
  and uses up the limit of every run.

What else was met while modelling. The models contain the behaviour (unless
said otherwise), and the properties are stated so that they hold beside it.

*Conversations.* "Epochs are monotonic per durable conversation"
(`services/agent_conversation_repo.py:338`): a new epoch is one past the maximum
of the contexts that exist, and maintenance deletes retired sessions with their
contexts, so an epoch can be used again. A plan of several steps leaves one more
inactive result set than the policy of `docs/STATUS.md:580` (`RetentionOneOver`
and `RetentionBound` in ResultSets). `compute_job_duplicate_signature`
(`ui/service.py:1786`) sorts tuples that mix None and float, a TypeError for some
criteria (not modelled). `post_job_criteria` lets an IntegrityError through
although `services/job_criteria_repo.py:28` says that callers answer 409.

*Drafts.* A duplicate span clicked into a criterion a follow-up has amended
(`agent/service.py:1451`) makes the draft unprovable until it is analysed again;
`RefusedOnlyAfterLateJoin` says that nothing else does. A span of unknown modality
that equals a criterion with other years can be neither clicked nor excluded; one
that needs a duration and has none is offered MUST and PREFERRED
(`agent/canonical_requirements.py:272`), and both clicks fail.

*Planning.* Coverage is overlap, so a quote of part of a conjunct counts as
covering it; a count quote without its unit ("3" of "3 il") passes as a result
limit (`agent/capabilities/grounding.py:249`); a message with protected content
and only PROFILE or EVIDENCE steps is executed with that part ignored; a count with a
suffix ("3-women candidates", `agent/intent_routing.py:176`) takes the route of a count
and narrows the list by the number alone, although `agent/capabilities/validator.py:214` says that with
protected content a SEARCH or REFINE is accepted only for the whole message.

*Search.* A semantic answer may rank by a profile version that was superseded
during the embedding call, a structured one may name a candidate deleted after
the profiles were read (`search/service.py:72` against `:147`). On the model path
requirements of a mixed request that are not scorable are skipped, and only one of
several explicit totals of experience need be drafted.

*Ranking.* A candidate deleted between listing and evaluation fails the whole
ranking (503).

*Files.* The ledger "never leaves a deleted candidate's bytes behind"
(`services/storage_recovery.py:14`): check and restore are two steps without a
lock, so a session whose delete failed may restore a file that a retried delete
has committed; it stays until a maintenance pass. A path whose re-import failed
and which then disappears for one scan and returns unchanged says INDEXED with
the old document (`services/folder_indexer_service.py:415`).

*Host.* "A new update is blocked over an unfinished transaction"
(`docs/MEYAR_OPS.md:1304`): only update-prepare looks (`ops/update.py:556`, `:572`),
so of two updates planned from one release the second can be applied (`:630`) after
the first was rolled back and not finalized. A migration worker that outlives its command can commit between the head that
backup-create reads and its dump. The receipt of a model installation is published
before the final verification (`docs/MEYAR_OPS.md:559`); a torn `runtime.json`,
`service.json` or manifest blocks provisioning for good; an update that changes one
of two models cannot be installed. `install_release` records the digest of the
deployment manifest as the medium holds it at the end (`ops/offline_host.py:633`),
not of the one it verified: after a bundle is swapped during an installation, the
other bundle is answered INSTALL_ALREADY_PRESENT. The self-check of `build_release`
lets `tarfile.TarError` escape when another run's half-written artifact stands at
its path; and it accepts files beside `.py`, `.html`, `.js` and `.css` that
`bundle-build` then refuses.

## 7. Plan

Everything the first plan named is written: the gates, the turn with lanes,
planning, result sets, drafts and search inside it, storage, folder and access,
analysis, jobs and scoring, the host with its releases and models.

Left for later, in this order. *Components*: photo registration as a second
client of StorageRecovery; API keys beside sessions in AccessAuthority; the
two-pass file observation of `folder_scanner.py`; retention of audit rows and
empty candidates in maintenance. *Proofs*: the step simulation of the fair
specifications ends where fairness begins; what is left there needs a prover with
ENABLED.
