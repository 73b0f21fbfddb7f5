------------------------------ MODULE HostUpdate ------------------------------
(***************************************************************************)
(* The operator's commands on one installed host: install, activate,        *)
(* schema-init, backup-create, restore, service-start / stop / restart and  *)
(* the five phases of an update (ops/update.py over ops/offline_host.py,    *)
(* backup.py, restore.py, schema_init.py, service_lifecycle.py and          *)
(* deployment_ready.py).                                                    *)
(*                                                                         *)
(* Every command takes one advisory lock and refuses when it is held.       *)
(* update-prepare and the two finalize phases give it up during their       *)
(* readiness probes and take it again to publish.  The lock binds commands  *)
(* only: launchd loads the service at boot and restarts it when it dies,    *)
(* and a migration worker whose command was killed runs on without it.      *)
(*                                                                         *)
(* A command that fails before its first effect leaves nothing behind and   *)
(* is not modelled.  One that fails or is killed later is Abandon.          *)
(***************************************************************************)
EXTENDS Naturals, Sequences

CONSTANTS
    Ops,        \* operator processes
    Releases,   \* installable releases
    First,      \* the release of the first deployment
    HeadOf,     \* release -> position of its Alembic head in the linear graph
    ClassOf,    \* release -> its rollback_compatibility
    Updates,    \* update ids
    Backups,    \* backup ids
    None,
    MaxGens     \* bound: activation generations

ASSUME HostAssumption ==
    /\ First \in Releases
    /\ HeadOf \in [Releases -> Nat \ {0}]
    /\ ClassOf \in [Releases -> {"APP_ONLY", "FORWARD", "RESTORE_REQUIRED", "PROHIBITED"}]
    /\ None \notin Ops \cup Releases \cup Updates \cup Backups
    /\ MaxGens \in Nat

VARIABLES
    installed,  \* releases whose immutable tree is in place
    gens,       \* activation generations; the pointer names the last one
    db,         \* revision of the production database; 0: no schema yet
    service,    \* release the service process was started from, or None
    lock,       \* holder of the operation lock, or None
    proc,       \* operator process -> the command it executes
    worker,     \* update -> its migration worker: none, run, commit
    receipts,   \* update -> its published phase files
    backups,    \* backup -> the published backup, or None
    restored    \* backup -> outcome of a restore into an isolated database

vars == <<installed, gens, db, service, lock, proc, worker, receipts, backups,
          restored>>
deployment == <<installed, gens, db, service, worker, receipts, backups, restored>>

Idle == [op |-> None, pc |-> "idle", upd |-> None, bak |-> None, rel |-> None, to |-> None,
         head |-> 0]
NoReceipts == [plan |-> None, apply |-> None, finalize |-> FALSE, rollback |-> 0,
               rollback_finalize |-> FALSE]

Generation(r, why, u, b) ==
    [rel |-> r, prev |-> IF gens = <<>> THEN None ELSE gens[Len(gens)].rel,
     reason |-> why, upd |-> u, bak |-> b]
Active == gens[Len(gens)]

Init ==
    /\ installed = {First}
    /\ gens = <<[rel |-> First, prev |-> None, reason |-> "activate", upd |-> None,
                 bak |-> None]>>
    /\ db = 0
    /\ service = None
    /\ lock = None
    /\ proc = [o \in Ops |-> Idle]
    /\ worker = [u \in Updates |-> "none"]
    /\ receipts = [u \in Updates |-> NoReceipts]
    /\ backups = [b \in Backups |-> None]
    /\ restored = [b \in Backups |-> "no"]

Plan(u) == receipts[u].plan
To(u) == Plan(u).to
From(u) == Plan(u).from

----------------------------------------------------------------------------
\* What the commands read.

\* The generation is the one this plan, with this backup, activates.
MatchesGeneration(g, u, why, b) ==
    /\ g.reason = why /\ g.upd = u /\ g.bak = b
    /\ IF why = "update" THEN g.rel = To(u) /\ g.prev = From(u)
                         ELSE g.rel = From(u) /\ g.prev = To(u)

\* Normal readiness wants the head of the active release.  A rolled back
\* forward-compatible update, with its complete evidence, keeps the newer one.
ForwardRollbackHead ==
    LET u == Active.upd IN
    IF /\ Active.reason = "rollback"
       /\ Plan(u) # None /\ receipts[u].apply # None /\ receipts[u].rollback = Len(gens)
       /\ ClassOf[To(u)] = "FORWARD"
       /\ MatchesGeneration(Active, u, "rollback", receipts[u].apply.bak)
    THEN HeadOf[To(u)] ELSE 0

ReadyHead == IF ForwardRollbackHead # 0 THEN ForwardRollbackHead ELSE HeadOf[Active.rel]

PreviousComplete ==
    LET u == Active.upd
        apply == receipts[u].apply
    IN CASE Active.reason = "update" ->
              /\ apply # None /\ apply.gen = Len(gens)
              /\ MatchesGeneration(Active, u, "update", apply.bak)
              /\ receipts[u].finalize
         [] Active.reason = "rollback" ->
              /\ apply # None /\ ClassOf[To(u)] = "APP_ONLY"
              /\ receipts[u].rollback = Len(gens)
              /\ MatchesGeneration(Active, u, "rollback", apply.bak)
              /\ receipts[u].rollback_finalize
         [] OTHER -> TRUE

\* An update from the active release to t is one this procedure supports.
Plannable(t) ==
    /\ t \in installed /\ t # Active.rel
    /\ ClassOf[t] \in {"APP_ONLY", "FORWARD"}
    /\ ClassOf[t] = "APP_ONLY" => HeadOf[t] = HeadOf[Active.rel]
    /\ HeadOf[t] >= HeadOf[Active.rel]

\* The backup is of the plan's source release and was made after the plan.
BackupBound(u, b) ==
    /\ backups[b] # None
    /\ backups[b].rel = From(u) /\ backups[b].head = HeadOf[From(u)]
    /\ u \in backups[b].after

\* Variant: a loaded service does not stop the command.
ServiceIgnored == TRUE
ServiceAbsent == service = None

----------------------------------------------------------------------------
\* Commands that hold the lock throughout and have one effect.

Install(r) ==
    /\ lock = None
    /\ r \notin installed
    /\ installed' = installed \cup {r}
    /\ UNCHANGED <<gens, db, service, lock, proc, worker, receipts, backups, restored>>

\* The pointer is replaced atomically once the generation is complete.
Activated(r, why, u, b) ==
    /\ Len(gens) < MaxGens
    /\ r \in installed
    /\ r # Active.rel
    /\ gens' = Append(gens, Generation(r, why, u, b))

ActivateRelease(r) ==
    /\ lock = None
    /\ ClassOf[r] \notin {"PROHIBITED", "RESTORE_REQUIRED"}
    /\ Activated(r, "activate", None, None)
    /\ UNCHANGED <<installed, db, service, lock, proc, worker, receipts, backups, restored>>

SchemaInit ==
    /\ lock = None
    /\ db = 0
    /\ db' = HeadOf[Active.rel]
    /\ UNCHANGED <<installed, gens, service, lock, proc, worker, receipts, backups, restored>>

\* service-start, and service-restart of a loaded service.
ServiceStart ==
    /\ lock = None
    /\ service # Active.rel
    /\ service' = Active.rel
    /\ UNCHANGED <<installed, gens, db, lock, proc, worker, receipts, backups, restored>>

ServiceStop ==
    /\ lock = None
    /\ service # None
    /\ service' = None
    /\ UNCHANGED <<installed, gens, db, lock, proc, worker, receipts, backups, restored>>

\* KeepAlive: launchd starts a process that died again, through the pointer.
ServiceRespawn ==
    /\ service \notin {None, Active.rel}
    /\ service' = Active.rel
    /\ UNCHANGED <<installed, gens, db, lock, proc, worker, receipts, backups, restored>>

\* A published backup is verified again, whole, and is of the active release.
Restorable(b) == backups[b] # None /\ backups[b].rel = Active.rel

\* The restored database must carry the head the manifest names.
Restore(b) ==
    /\ lock = None
    /\ Restorable(b)
    /\ restored' = [restored EXCEPT ![b] =
                        IF backups[b].dump = backups[b].head THEN "completed" ELSE "incomplete"]
    /\ UNCHANGED <<installed, gens, db, service, lock, proc, worker, receipts, backups>>

----------------------------------------------------------------------------
\* backup-create: identity and head first, then the dump, then the identity
\* once more.

Begin(o, p) ==
    /\ lock = None
    /\ proc[o] = Idle
    /\ proc' = [proc EXCEPT ![o] = p]

BackupStart(o, b) ==
    /\ backups[b] = None
    /\ ServiceAbsent
    /\ db = HeadOf[Active.rel]
    /\ Begin(o, [Idle EXCEPT !.op = "backup", !.pc = "dump", !.bak = b, !.rel = Active.rel])
    /\ lock' = o
    /\ UNCHANGED deployment

BackupDump(o) ==
    /\ proc[o].pc = "dump"
    /\ proc' = [proc EXCEPT ![o].pc = "seal", ![o].head = db]
    /\ UNCHANGED <<deployment, lock>>

BackupPublish(o) ==
    LET p == proc[o] IN
    /\ p.pc = "seal"
    /\ ServiceAbsent
    /\ p.rel = Active.rel
    /\ backups' = [backups EXCEPT ![p.bak] =
                      [rel |-> p.rel, head |-> HeadOf[p.rel], dump |-> p.head,
                       after |-> {u \in Updates : Plan(u) # None}]]
    /\ proc' = [proc EXCEPT ![o] = Idle]
    /\ lock' = None
    /\ UNCHANGED <<installed, gens, db, service, worker, receipts, restored>>

----------------------------------------------------------------------------
\* deployment-ready, inside prepare and finalize: three sections of which the
\* middle one holds no lock.

Look(o) ==
    /\ lock = None
    /\ proc[o].pc = "look"
    /\ proc' = [proc EXCEPT ![o].pc = "probe", ![o].rel = Active.rel, ![o].head = ReadyHead]
    /\ UNCHANGED <<deployment, lock>>

Probe(o) ==
    /\ proc[o].pc = "probe"
    /\ service # None
    /\ db = proc[o].head
    /\ proc' = [proc EXCEPT ![o].pc = "settle"]
    /\ UNCHANGED <<deployment, lock>>

Settle(o) ==
    /\ lock = None
    /\ proc[o].pc = "settle"
    /\ Active.rel = proc[o].rel /\ ReadyHead = proc[o].head
    /\ service # None
    /\ proc' = [proc EXCEPT ![o].pc = "publish"]
    /\ UNCHANGED <<deployment, lock>>

----------------------------------------------------------------------------
\* update-prepare.

PrepareStart(o, u, t) ==
    /\ PreviousComplete
    /\ Plannable(t)
    /\ Plan(u) = None
    /\ Begin(o, [Idle EXCEPT !.op = "prepare", !.pc = "look", !.upd = u, !.to = t,
                             !.bak = Active.rel])
    /\ UNCHANGED <<deployment, lock>>

Published(u, phase, value) == receipts' = [receipts EXCEPT ![u][phase] = value]
OnlyReceipts == UNCHANGED <<installed, gens, db, service, worker, backups, restored>>

\* Variant: nothing is read again after the probes.
PreparePublishUnchecked(o) ==
    LET p == proc[o] IN
    /\ lock = None
    /\ p.op = "prepare" /\ p.pc = "publish"
    /\ Published(p.upd, "plan", [from |-> p.bak, to |-> p.to])
    /\ proc' = [proc EXCEPT ![o] = Idle]
    /\ UNCHANGED lock /\ OnlyReceipts

\* The field bak of a prepare holds the source release it planned from.
PreparePublish(o) ==
    LET p == proc[o] IN
    /\ lock = None
    /\ p.op = "prepare" /\ p.pc = "publish"
    /\ PreviousComplete
    /\ Plannable(p.to) /\ Active.rel = p.bak
    /\ Plan(p.upd) = None
    /\ Published(p.upd, "plan", [from |-> p.bak, to |-> p.to])
    /\ proc' = [proc EXCEPT ![o] = Idle]
    /\ UNCHANGED lock /\ OnlyReceipts

----------------------------------------------------------------------------
\* update-apply.

Applicable(u, b) == Plan(u) # None /\ ServiceAbsent /\ BackupBound(u, b)

\* The pointer already names the target: only the receipt can be missing.
ApplyRecover(o, u, b) ==
    /\ lock = None /\ proc[o] = Idle
    /\ Applicable(u, b)
    /\ Active.rel = To(u)
    /\ MatchesGeneration(Active, u, "update", b)
    /\ db = HeadOf[To(u)]
    /\ receipts[u].apply = None
    /\ Published(u, "apply", [bak |-> b, gen |-> Len(gens)])
    /\ UNCHANGED <<lock, proc>> /\ OnlyReceipts

\* What is left to do before the pointer may move.  The target head under the
\* old pointer is what an interrupted apply of this update leaves.
NextStep(u) ==
    CASE ClassOf[To(u)] = "APP_ONLY" /\ db = HeadOf[From(u)] -> "switch"
      [] ClassOf[To(u)] = "FORWARD" /\ db = HeadOf[To(u)] -> "switch"
      [] ClassOf[To(u)] = "FORWARD" /\ db = HeadOf[From(u)] -> "migrate"
      [] OTHER -> "refuse"

ApplyStart(o, u, b) ==
    /\ Applicable(u, b)
    /\ Active.rel = From(u)
    /\ receipts[u].apply = None
    /\ NextStep(u) # "refuse"
    /\ Begin(o, [Idle EXCEPT !.op = "apply", !.pc = NextStep(u), !.upd = u, !.bak = b])
    /\ lock' = o
    /\ worker' = [worker EXCEPT ![u] =
                     IF NextStep(u) = "migrate" /\ worker[u] = "none" THEN "run" ELSE @]
    /\ UNCHANGED <<installed, gens, db, service, receipts, backups, restored>>

\* The worker migrates in one transaction and sends its COMMIT.  Workers of
\* one update that overlap are one worker: at most one of them can commit.
WorkerCommits(u) ==
    /\ worker[u] = "run"
    /\ db = HeadOf[From(u)]
    /\ worker' = [worker EXCEPT ![u] = "commit"]
    /\ UNCHANGED <<installed, gens, db, service, lock, proc, receipts, backups, restored>>

WorkerFails(u) ==
    /\ worker[u] = "run"
    /\ worker' = [worker EXCEPT ![u] = "none"]
    /\ UNCHANGED <<installed, gens, db, service, lock, proc, receipts, backups, restored>>

DatabaseCommits(u) ==
    /\ worker[u] = "commit"
    /\ worker' = [worker EXCEPT ![u] = "none"]
    /\ db' = IF db = HeadOf[From(u)] THEN HeadOf[To(u)] ELSE db
    /\ UNCHANGED <<installed, gens, service, lock, proc, receipts, backups, restored>>

Migrated(o) ==
    LET u == proc[o].upd IN
    /\ proc[o].pc = "migrate"
    /\ worker[u] = "none"
    /\ db = HeadOf[To(u)]
    /\ proc' = [proc EXCEPT ![o].pc = "switch"]
    /\ UNCHANGED <<deployment, lock>>

ApplySwitch(o) ==
    LET p == proc[o] IN
    /\ p.op = "apply" /\ p.pc = "switch"
    /\ db = HeadOf[To(p.upd)]
    /\ Activated(To(p.upd), "update", p.upd, p.bak)
    /\ proc' = [proc EXCEPT ![o].pc = "receipt"]
    /\ UNCHANGED <<installed, db, service, lock, worker, receipts, backups, restored>>

ApplyReceipt(o) ==
    LET p == proc[o] IN
    /\ p.op = "apply" /\ p.pc = "receipt"
    /\ Published(p.upd, "apply", [bak |-> p.bak, gen |-> Len(gens)])
    /\ proc' = [proc EXCEPT ![o] = Idle]
    /\ lock' = None /\ OnlyReceipts

----------------------------------------------------------------------------
\* rollback-apply: back to the release before, never to the schema before.

Reversible(u) ==
    /\ Plan(u) # None /\ receipts[u].apply # None
    /\ ServiceAbsent
    /\ db = HeadOf[To(u)]

RollbackRecover(o, u) ==
    /\ lock = None /\ proc[o] = Idle
    /\ Reversible(u)
    /\ Active.rel = From(u)
    /\ MatchesGeneration(Active, u, "rollback", receipts[u].apply.bak)
    /\ receipts[u].rollback = 0
    /\ Published(u, "rollback", Len(gens))
    /\ UNCHANGED <<lock, proc>> /\ OnlyReceipts

\* Variant: the schema goes back too, before the pointer.
RollbackStartDowngrades(o, u) ==
    /\ Reversible(u)
    /\ receipts[u].rollback = 0
    /\ Active.rel = To(u) /\ receipts[u].apply.gen = Len(gens)
    /\ Begin(o, [Idle EXCEPT !.op = "rollback", !.pc = "switch", !.upd = u,
                             !.bak = receipts[u].apply.bak])
    /\ lock' = o /\ db' = HeadOf[From(u)]
    /\ UNCHANGED <<installed, gens, service, worker, receipts, backups, restored>>

RollbackStart(o, u) ==
    /\ Reversible(u)
    /\ receipts[u].rollback = 0
    /\ Active.rel = To(u) /\ receipts[u].apply.gen = Len(gens)
    /\ MatchesGeneration(Active, u, "update", receipts[u].apply.bak)
    /\ Begin(o, [Idle EXCEPT !.op = "rollback", !.pc = "switch", !.upd = u,
                             !.bak = receipts[u].apply.bak])
    /\ lock' = o
    /\ UNCHANGED deployment

RollbackSwitch(o) ==
    LET p == proc[o] IN
    /\ p.op = "rollback" /\ p.pc = "switch"
    /\ Activated(From(p.upd), "rollback", p.upd, p.bak)
    /\ proc' = [proc EXCEPT ![o].pc = "receipt"]
    /\ UNCHANGED <<installed, db, service, lock, worker, receipts, backups, restored>>

RollbackReceipt(o) ==
    LET p == proc[o] IN
    /\ p.op = "rollback" /\ p.pc = "receipt"
    /\ Published(p.upd, "rollback", Len(gens))
    /\ proc' = [proc EXCEPT ![o] = Idle]
    /\ lock' = None /\ OnlyReceipts

----------------------------------------------------------------------------
\* update-finalize and rollback-finalize.

FinalizeSnapshot(u, phase) ==
    /\ Plan(u) # None /\ receipts[u].apply # None
    /\ LET back == phase = "rollback_finalize"
           made == IF back THEN receipts[u].rollback ELSE receipts[u].apply.gen
       IN /\ made = Len(gens)
          /\ MatchesGeneration(Active, u, IF back THEN "rollback" ELSE "update",
                               receipts[u].apply.bak)
    /\ db = HeadOf[To(u)]

FinalizeStart(o, u, phase) ==
    /\ FinalizeSnapshot(u, phase)
    /\ ~receipts[u][phase]
    /\ Begin(o, [Idle EXCEPT !.op = phase, !.pc = "look", !.upd = u])
    /\ UNCHANGED <<deployment, lock>>

FinalizePublish(o) ==
    LET p == proc[o] IN
    /\ lock = None
    /\ p.op \in {"finalize", "rollback_finalize"} /\ p.pc = "publish"
    /\ FinalizeSnapshot(p.upd, p.op)
    /\ ~receipts[p.upd][p.op]
    /\ service # None
    /\ Published(p.upd, p.op, TRUE)
    /\ proc' = [proc EXCEPT ![o] = Idle]
    /\ UNCHANGED lock /\ OnlyReceipts

----------------------------------------------------------------------------
\* Failures.

\* The command fails or is killed.  Its timeout kills the worker too, which a
\* COMMIT already sent survives; a killed command leaves the worker running.
Abandon(o) ==
    /\ proc[o] # Idle
    /\ proc' = [proc EXCEPT ![o] = Idle]
    /\ lock' = IF lock = o THEN None ELSE lock
    /\ \/ UNCHANGED worker
       \/ /\ proc[o].pc = "migrate" /\ worker[proc[o].upd] = "run"
          /\ worker' = [worker EXCEPT ![proc[o].upd] = "none"]
    /\ UNCHANGED <<installed, gens, db, service, receipts, backups, restored>>

\* The host restarts: launchd loads the installed service, through the
\* pointer, whatever an update had reached.
Reboot ==
    /\ service' = Active.rel
    /\ lock' = None
    /\ proc' = [o \in Ops |-> Idle]
    /\ worker' = [u \in Updates |-> "none"]
    /\ UNCHANGED <<installed, gens, db, receipts, backups, restored>>

Host ==
    \/ \E r \in Releases : Install(r) \/ ActivateRelease(r)
    \/ SchemaInit \/ ServiceStart \/ ServiceStop \/ ServiceRespawn \/ Reboot
    \/ \E b \in Backups : Restore(b)
    \/ \E u \in Updates : WorkerCommits(u) \/ WorkerFails(u) \/ DatabaseCommits(u)

Command(o) ==
    \/ \E b \in Backups : BackupStart(o, b)
    \/ BackupDump(o) \/ BackupPublish(o)
    \/ Look(o) \/ Probe(o) \/ Settle(o)
    \/ \E u \in Updates, t \in Releases : PrepareStart(o, u, t)
    \/ PreparePublish(o)
    \/ \E u \in Updates, b \in Backups : ApplyRecover(o, u, b) \/ ApplyStart(o, u, b)
    \/ Migrated(o) \/ ApplySwitch(o) \/ ApplyReceipt(o)
    \/ \E u \in Updates : RollbackRecover(o, u) \/ RollbackStart(o, u)
    \/ RollbackSwitch(o) \/ RollbackReceipt(o)
    \/ \E u \in Updates, phase \in {"finalize", "rollback_finalize"} :
           FinalizeStart(o, u, phase)
    \/ FinalizePublish(o)
    \/ Abandon(o)

Next == Host \/ \E o \in Ops : Command(o)

Spec == Init /\ [][Next]_vars

----------------------------------------------------------------------------
\* Properties.

TypeOK ==
    /\ installed \subseteq Releases
    /\ db \in Nat
    /\ service \in Releases \cup {None}
    /\ lock \in Ops \cup {None}
    /\ worker \in [Updates -> {"none", "run", "commit"}]
    /\ restored \in [Backups -> {"no", "completed", "incomplete"}]

\* A release that an update or a rollback put in charge never meets a database
\* older than its own migrations, at whichever step the host went down and
\* launchd started the service through the pointer.
NewCodeNeverOnOldSchema ==
    Active.reason \in {"update", "rollback"} => db >= HeadOf[Active.rel]

\* A receipt names the generation that this plan activated with that backup,
\* of the release the plan left, made after the plan; a later phase has its
\* earlier ones.
ReceiptsTruthful ==
    \A u \in Updates :
        LET r == receipts[u] IN
        /\ r.apply # None =>
              /\ r.plan # None
              /\ MatchesGeneration(gens[r.apply.gen], u, "update", r.apply.bak)
              /\ BackupBound(u, r.apply.bak)
        /\ r.rollback # 0 =>
              /\ r.apply # None
              /\ MatchesGeneration(gens[r.rollback], u, "rollback", r.apply.bak)
              /\ r.rollback > r.apply.gen
        /\ r.finalize => r.apply # None
        /\ r.rollback_finalize => r.rollback # 0

\* However a command ended, the same update can be taken up again once the
\* service is stopped: apply can still record the generation it activated,
\* and rollback the one it activated.
Resumable ==
    lock = None =>
        LET u == Active.upd IN
        /\ Active.reason = "update" /\ receipts[u].apply = None =>
              /\ Plan(u) # None /\ BackupBound(u, Active.bak)
              /\ MatchesGeneration(Active, u, "update", Active.bak)
        /\ Active.reason = "rollback" /\ receipts[u].rollback = 0 =>
              /\ receipts[u].apply # None
              /\ MatchesGeneration(Active, u, "rollback", receipts[u].apply.bak)

\* Where the backup an update rests on has been restored with success, its dump
\* is a database of the release the update left, although a worker of a killed
\* command may have migrated between the reading of the head and the dump.
RestoresTruthful ==
    \A u \in Updates :
        LET b == receipts[u].apply.bak IN
        receipts[u].apply # None /\ restored[b] = "completed"
        => backups[b].rel = From(u) /\ backups[b].dump = HeadOf[From(u)]

\* Receipts are true, the interruption they describe can be taken up again, and
\* a backup that was restored is what they say it is.
EvidenceHolds == ReceiptsTruthful /\ Resumable /\ RestoresTruthful

\* An update is recorded as completed only while the process that answers the
\* probes runs the release the update installed, although no probe asks which
\* release it runs.
FinalizeSeesNewCode ==
    [][\A u \in Updates :
          receipts'[u].finalize /\ ~receipts[u].finalize => service = To(u)]_vars
=============================================================================
