----------------------------- MODULE Host_proofs -----------------------------
(***************************************************************************)
(* The host: its updates, for any number of operators, releases, updates   *)
(* and backups, whenever commands are killed and the host restarts; the    *)
(* models it is given and the receipts requests rely on; and the way of a  *)
(* release to it, through builds, bundles and installers that meet in the  *)
(* same directories.                                                       *)
(***************************************************************************)
EXTENDS HostUpdate, ModelProvisioning, ReleasePipeline, TLAPS

-----------------------------------------------------------------------------
(* Updates.                                                                *)


\* The program counters at which a command has the operation lock.
LockPcs == {"dump", "seal", "migrate", "switch", "receipt"}
Phases == {"plan", "apply", "finalize", "rollback", "rollback_finalize"}
Fields == {"op", "pc", "upd", "bak", "rel", "to", "head"}
Gens == [rel : Releases, prev : Releases \cup {None},
         reason : {"activate", "update", "rollback"},
         upd : Updates \cup {None}, bak : Backups \cup {None}]

Typed ==
    /\ TypeOK
    /\ gens \in Seq(Gens) /\ Len(gens) > 0
    /\ proc = [o \in Ops |-> [f \in Fields |-> proc[o][f]]]
    /\ receipts = [u \in Updates |-> [f \in Phases |-> receipts[u][f]]]
    /\ backups = [b \in Backups |-> backups[b]]
    /\ \A u \in Updates : worker[u] # "none" => Plan(u) # None

\* A published plan leads from one installed release to another whose
\* migrations go at least as far.
PlansSound ==
    \A u \in Updates : Plan(u) # None =>
        /\ From(u) \in Releases /\ To(u) \in Releases
        /\ HeadOf[To(u)] >= HeadOf[From(u)]

\* A backup that is being made does not exist yet.
BacksUp(o) ==
    proc[o].pc \in {"dump", "seal"} =>
        proc[o].bak \in Backups /\ backups[proc[o].bak] = None

\* An apply works on its plan, on a backup made for it, beside a stopped
\* service; its own generation is the active one once the pointer has moved.
Applies(o) ==
    proc[o].op = "apply" /\ proc[o].pc \in {"migrate", "switch", "receipt"} =>
        LET u == proc[o].upd
            b == proc[o].bak IN
        /\ u \in Updates /\ b \in Backups
        /\ Plan(u) # None /\ BackupBound(u, b) /\ receipts[u].apply = None
        /\ service = None
        /\ proc[o].pc # "receipt" => Active.rel = From(u)
        /\ proc[o].pc = "receipt" => MatchesGeneration(Active, u, "update", b)

\* A rollback reverts the generation the apply receipt names.
Reverts(o) ==
    proc[o].op = "rollback" /\ proc[o].pc \in {"switch", "receipt"} =>
        LET u == proc[o].upd
            apply == receipts[u].apply IN
        /\ u \in Updates /\ Plan(u) # None /\ apply # None
        /\ proc[o].bak = apply.bak /\ proc[o].bak \in Backups
        /\ service = None /\ db >= HeadOf[To(u)]
        /\ proc[o].pc = "switch" => Active.rel = To(u) /\ apply.gen = Len(gens)
        /\ proc[o].pc = "receipt" =>
              apply.gen < Len(gens) /\ MatchesGeneration(Active, u, "rollback", apply.bak)

ProcOK(o) ==
    /\ proc[o].pc \in LockPcs => lock = o
    /\ proc[o].pc = "migrate" => proc[o].op = "apply"
    /\ proc[o].pc \in {"look", "probe", "settle", "publish"} => proc[o].upd \in Updates
    /\ BacksUp(o) /\ Applies(o) /\ Reverts(o)

\* The active generation of an update or of a rollback has its plan, its
\* backup and its schema, and no process runs another release.
ActiveUpdate ==
    Active.reason = "update" =>
        LET u == Active.upd IN
        /\ u \in Updates /\ Active.bak \in Backups
        /\ Plan(u) # None /\ BackupBound(u, Active.bak)
        /\ MatchesGeneration(Active, u, "update", Active.bak)
ActiveRollback ==
    Active.reason = "rollback" =>
        LET u == Active.upd IN
        /\ u \in Updates /\ Plan(u) # None /\ receipts[u].apply # None
        /\ MatchesGeneration(Active, u, "rollback", receipts[u].apply.bak)
ActiveServed ==
    Active.reason \in {"update", "rollback"} =>
        service \in {None, Active.rel} /\ db >= HeadOf[Active.rel]
ActiveSound == ActiveUpdate /\ ActiveRollback /\ ActiveServed

\* Receipts are true and name generations there are.
ReceiptOK(u) ==
    LET r == receipts[u] IN
    /\ r.apply # None =>
          /\ r.plan # None
          /\ r.apply.gen \in 1..Len(gens) /\ r.apply.bak \in Backups
          /\ MatchesGeneration(gens[r.apply.gen], u, "update", r.apply.bak)
          /\ BackupBound(u, r.apply.bak)
    /\ r.rollback \in 0..Len(gens)
    /\ r.rollback # 0 =>
          /\ r.apply # None
          /\ MatchesGeneration(gens[r.rollback], u, "rollback", r.apply.bak)
          /\ r.rollback > r.apply.gen
    /\ r.finalize => r.apply # None
    /\ r.rollback_finalize => r.rollback # 0

IInv ==
    /\ Typed
    /\ PlansSound
    /\ \A o \in Ops : ProcOK(o)
    /\ ActiveSound
    /\ \A u \in Updates : ReceiptOK(u)

Kept ==
    /\ \A u \in Updates : Plan(u) # None => receipts'[u].plan = Plan(u)
    /\ \A u \in Updates : receipts[u].apply # None => receipts'[u].apply = receipts[u].apply
    /\ \A b \in Backups : backups[b] # None => backups'[b] = backups[b]

----------------------------------------------------------------------------
\* Lemmas about the operators.

LEMMA ActiveTyped ==
    ASSUME Typed
    PROVE  /\ Len(gens) \in Nat /\ Len(gens) > 0 /\ Active \in Gens
           /\ Active.rel \in Releases /\ Active.reason \in {"activate", "update", "rollback"}
           /\ Active.upd \in Updates \cup {None} /\ Active.bak \in Backups \cup {None}
           /\ HeadOf[Active.rel] \in Nat
<1>1. gens[Len(gens)] \in Gens /\ Len(gens) \in Nat /\ Len(gens) > 0
  BY DEF Typed
<1> QED
  BY <1>1, HostAssumption DEF Active, Gens

\* A new generation is put after the others and becomes the active one.
LEMMA Grown ==
    ASSUME Typed, NEW g \in Gens, gens' = Append(gens, g)
    PROVE  /\ gens' \in Seq(Gens) /\ Len(gens') = Len(gens) + 1
           /\ \A i \in 1..Len(gens) : gens'[i] = gens[i]
           /\ Active' = g
BY DEF Typed, Active

\* A phase file changes nothing but itself.
LEMMA OnePhase ==
    ASSUME Typed, NEW u \in Updates, NEW f \in Phases, NEW x, Published(u, f, x)
    PROVE  /\ receipts' = [v \in Updates |-> [h \in Phases |-> receipts'[v][h]]]
           /\ \A v \in Updates \ {u} : receipts'[v] = receipts[v]
           /\ \A h \in Phases \ {f} : receipts'[u][h] = receipts[u][h]
           /\ receipts'[u][f] = x
<1> DEFINE w == [receipts[u] EXCEPT ![f] = x]
<1>1. w = [h \in Phases |-> IF h = f THEN x ELSE receipts[u][h]]
  BY DEF Typed
<1>2. receipts' = [v \in Updates |-> IF v = u THEN w ELSE receipts[v]]
  BY DEF Typed, Published
<1> HIDE DEF w
<1>3. receipts'[u] = w
  BY <1>2
<1>4. \A v \in Updates \ {u} : receipts'[v] = receipts[v]
  BY <1>2
<1>5. \A v \in Updates : receipts[v] = [h \in Phases |-> receipts[v][h]]
  BY DEF Typed
<1>6. \A h \in Phases : w[h] = IF h = f THEN x ELSE receipts[u][h]
  BY <1>1
<1>7. w = [h \in Phases |-> w[h]]
  BY <1>1, <1>6
<1>8. receipts' = [v \in Updates |-> receipts'[v]]
  BY <1>2
<1>9. \A v \in Updates : receipts'[v] = [h \in Phases |-> receipts'[v][h]]
  <2> SUFFICES ASSUME NEW v \in Updates PROVE receipts'[v] = [h \in Phases |-> receipts'[v][h]]
    OBVIOUS
  <2>1. CASE v = u
    BY <2>1, <1>3, <1>7
  <2>2. CASE v # u
    BY <2>2, <1>4, <1>5
  <2> QED
    BY <2>1, <2>2
<1>10. receipts' = [v \in Updates |-> [h \in Phases |-> receipts'[v][h]]]
  BY <1>8, <1>9
<1> QED
  BY <1>3, <1>4, <1>6, <1>10

\* A command that is not at a step of the lock, and one whose ground does not
\* move, stays as it was.
LEMMA Bystander ==
    ASSUME IInv, NEW q \in Ops, proc'[q] = proc[q],
           \/ proc[q].pc \notin LockPcs
           \/ /\ receipts' = receipts /\ backups' = backups /\ gens' = gens /\ lock' = lock
              /\ db' \in Nat /\ db' >= db /\ (service' = service \/ service # None)
    PROVE  ProcOK(q)'
<1>1. ProcOK(q)
  BY DEF IInv
<1>2. CASE proc[q].pc \notin LockPcs
  BY <1>1, <1>2 DEF ProcOK, BacksUp, Applies, Reverts, LockPcs
<1>3. CASE /\ receipts' = receipts /\ backups' = backups /\ gens' = gens /\ lock' = lock
           /\ db' \in Nat /\ db' >= db /\ (service' = service \/ service # None)
  <2>1. (proc[q].pc \in LockPcs => lock = q)'
    BY <1>1, <1>3 DEF ProcOK
  <2>2. BacksUp(q)'
    BY <1>1, <1>3 DEF ProcOK, BacksUp
  <2>3. Applies(q)'
    BY <1>1, <1>3 DEF ProcOK, Applies, MatchesGeneration, BackupBound, Plan, To, From, Active
  <2>4. Reverts(q)'
    <3>1. \A u \in Updates : Plan(u) # None => HeadOf[To(u)] \in Nat
      BY HostAssumption DEF IInv, PlansSound
    <3>2. db \in Nat
      BY DEF IInv, Typed, TypeOK
    <3> QED
      BY <1>1, <1>3, <3>1, <3>2 DEF ProcOK, Reverts, MatchesGeneration, Plan, To, From, Active
  <2> QED
    BY <1>1, <2>1, <2>2, <2>3, <2>4 DEF ProcOK
<1> QED
  BY <1>2, <1>3

\* With the lock free no command is at a step of the lock, and with the lock
\* taken one command is.
LEMMA LockFree ==
    ASSUME IInv, lock = None, NEW q \in Ops
    PROVE  proc[q].pc \notin LockPcs
BY HostAssumption DEF IInv, ProcOK

LEMMA LockMine ==
    ASSUME IInv, NEW o \in Ops, proc[o].pc \in LockPcs, NEW q \in Ops, q # o
    PROVE  proc[q].pc \notin LockPcs /\ lock = o
BY DEF IInv, ProcOK

\* What has been recorded stays true while nothing recorded is lost.
LEMMA BoundKept ==
    ASSUME Kept, NEW u \in Updates, NEW b \in Backups, Plan(u) # None, BackupBound(u, b)
    PROVE  BackupBound(u, b)' /\ (Plan(u) # None)'
BY DEF Kept, BackupBound, Plan, From

LEMMA ReceiptKept ==
    ASSUME IInv, Kept, NEW u \in Updates, receipts'[u] = receipts[u],
           Len(gens') \in Nat, Len(gens') >= Len(gens),
           \A i \in 1..Len(gens) : gens'[i] = gens[i]
    PROVE  ReceiptOK(u)'
<1> DEFINE r == receipts[u]
<1>1. ReceiptOK(u) /\ Len(gens) \in Nat
  BY ActiveTyped DEF IInv
<1>2. r.apply # None => BackupBound(u, r.apply.bak)'
  BY <1>1, BoundKept DEF ReceiptOK, Plan
<1>3. r.apply # None => r.apply.gen \in 1..Len(gens') /\ gens'[r.apply.gen] = gens[r.apply.gen]
  BY <1>1 DEF ReceiptOK
<1>4. r.rollback \in 0..Len(gens') /\ (r.rollback # 0 => gens'[r.rollback] = gens[r.rollback])
  BY <1>1 DEF ReceiptOK
<1> QED
  BY <1>1, <1>2, <1>3, <1>4 DEF ReceiptOK, MatchesGeneration, To, From, Plan

LEMMA ActiveKept ==
    ASSUME IInv, Kept, gens' = gens, db' \in Nat, db' >= db,
           service' \in {service, None, Active.rel}
    PROVE  ActiveSound'
<1>0. ActiveSound /\ Typed /\ Active' = Active
  BY DEF IInv, Active
<1>1. ActiveUpdate'
  <2> SUFFICES ASSUME Active.reason = "update" PROVE ActiveUpdate'
    BY <1>0 DEF ActiveUpdate
  <2>1. PICK u \in Updates, b \in Backups :
           /\ Active.upd = u /\ Active.bak = b /\ Plan(u) # None /\ BackupBound(u, b)
           /\ MatchesGeneration(Active, u, "update", b)
    BY <1>0 DEF ActiveSound, ActiveUpdate
  <2>2. BackupBound(u, b)' /\ (Plan(u) # None)' /\ To(u)' = To(u) /\ From(u)' = From(u)
    BY <2>1, BoundKept DEF Kept, To, From, Plan
  <2>3. MatchesGeneration(Active, u, "update", b)'
    BY <1>0, <2>1, <2>2 DEF MatchesGeneration
  <2> QED
    BY <1>0, <2>1, <2>2, <2>3 DEF ActiveUpdate
<1>2. ActiveRollback'
  <2> SUFFICES ASSUME Active.reason = "rollback" PROVE ActiveRollback'
    BY <1>0 DEF ActiveRollback
  <2>1. PICK u \in Updates :
           /\ Active.upd = u /\ Plan(u) # None /\ receipts[u].apply # None
           /\ MatchesGeneration(Active, u, "rollback", receipts[u].apply.bak)
    BY <1>0 DEF ActiveSound, ActiveRollback
  <2>2. Plan(u)' = Plan(u) /\ receipts'[u].apply = receipts[u].apply
    BY <2>1 DEF Kept, Plan
  <2>3. MatchesGeneration(Active, u, "rollback", receipts[u].apply.bak)'
    BY <1>0, <2>1, <2>2 DEF MatchesGeneration, To, From
  <2> QED
    BY <1>0, <2>1, <2>2, <2>3 DEF ActiveRollback
<1>3. ActiveServed'
  <2>1. HeadOf[Active.rel] \in Nat /\ db \in Nat
    BY <1>0, ActiveTyped DEF Typed, TypeOK
  <2> QED
    BY <1>0, <2>1 DEF ActiveSound, ActiveServed
<1> QED
  BY <1>1, <1>2, <1>3 DEF ActiveSound

\* A step that records nothing and moves no pointer.
LEMMA Steady ==
    ASSUME IInv, receipts' = receipts, backups' = backups, gens' = gens,
           db' \in Nat, db' >= db, service' \in {service, None, Active.rel}
    PROVE  PlansSound' /\ ActiveSound' /\ \A u \in Updates : ReceiptOK(u)'
<1>1. Kept
  BY DEF Kept, Plan
<1>2. PlansSound'
  BY DEF IInv, PlansSound, Plan, From, To
<1>3. Len(gens) \in Nat
  BY ActiveTyped DEF IInv
<1>4. \A u \in Updates : ReceiptOK(u)'
  BY <1>1, <1>3, ReceiptKept
<1> QED
  BY <1>1, <1>2, <1>4, ActiveKept

LEMMA IdleTyped ==
    Idle = [f \in Fields |-> Idle[f]] /\ Idle.pc = "idle"
BY DEF Idle, Fields

LEMMA InitIInv == Init => IInv
<1> SUFFICES ASSUME Init PROVE IInv
  OBVIOUS
<1> USE HostAssumption
<1>1. Active = [rel |-> First, prev |-> None, reason |-> "activate", upd |-> None, bak |-> None]
      /\ gens \in Seq(Gens) /\ Len(gens) = 1
  BY DEF Init, Active, Gens
<1>2. receipts = [u \in Updates |-> [f \in Phases |-> receipts[u][f]]]
  BY DEF Init, NoReceipts, Phases
<1>3. Typed
  BY <1>1, <1>2, IdleTyped DEF Init, Typed, TypeOK
<1>4. \A u \in Updates : Plan(u) = None /\ receipts[u].apply = None /\ receipts[u].rollback = 0
                         /\ ~receipts[u].finalize /\ ~receipts[u].rollback_finalize
  BY DEF Init, NoReceipts, Plan
<1>5. PlansSound /\ ActiveSound /\ \A u \in Updates : ReceiptOK(u)
  BY <1>1, <1>4 DEF PlansSound, ActiveSound, ActiveUpdate, ActiveRollback, ActiveServed, ReceiptOK
<1>6. \A o \in Ops : proc[o].pc = "idle"
  BY DEF Init, Idle
<1>7. \A o \in Ops : ProcOK(o)
  BY <1>6 DEF ProcOK, BacksUp, Applies, Reverts, LockPcs
<1> QED
  BY <1>3, <1>5, <1>7 DEF IInv
----------------------------------------------------------------------------
\* Commands with one effect, the service, the migration workers.

LEMMA InstalledStep ==
    ASSUME IInv, NEW r \in Releases, Install(r)
    PROVE  IInv'
<1>1. Typed /\ HostAssumption
  BY HostAssumption DEF IInv
<1>2. db' \in Nat /\ db' >= db
  BY <1>1 DEF Install, Typed, TypeOK
<1>3. Typed'
  BY <1>1, <1>2 DEF Install, Typed, TypeOK, Plan
<1>4. PlansSound' /\ ActiveSound' /\ \A v \in Updates : ReceiptOK(v)'
  BY <1>1, <1>2, Steady DEF Install, Typed, TypeOK
<1>5. \A q \in Ops : ProcOK(q)'
  BY <1>2, LockFree, Bystander DEF Install
<1> QED
  BY <1>3, <1>4, <1>5 DEF IInv

LEMMA SchemaInitStep ==
    ASSUME IInv, SchemaInit
    PROVE  IInv'
<1>1. Typed /\ HostAssumption
  BY HostAssumption DEF IInv
<1>2. db' \in Nat /\ db' >= db
  BY <1>1, ActiveTyped DEF SchemaInit, Typed, TypeOK
<1>3. Typed'
  BY <1>1, <1>2 DEF SchemaInit, Typed, TypeOK, Plan
<1>4. PlansSound' /\ ActiveSound' /\ \A v \in Updates : ReceiptOK(v)'
  BY <1>1, <1>2, Steady DEF SchemaInit, Typed, TypeOK
<1>5. \A q \in Ops : ProcOK(q)'
  BY <1>2, LockFree, Bystander DEF SchemaInit
<1> QED
  BY <1>3, <1>4, <1>5 DEF IInv

LEMMA ServiceStartStep ==
    ASSUME IInv, ServiceStart
    PROVE  IInv'
<1>1. Typed /\ HostAssumption
  BY HostAssumption DEF IInv
<1>2. db' \in Nat /\ db' >= db /\ Active.rel \in Releases
  BY <1>1, ActiveTyped DEF ServiceStart, Typed, TypeOK
<1>3. Typed'
  BY <1>1, <1>2 DEF ServiceStart, Typed, TypeOK, Plan
<1>4. PlansSound' /\ ActiveSound' /\ \A v \in Updates : ReceiptOK(v)'
  BY <1>1, <1>2, Steady DEF ServiceStart, Typed, TypeOK
<1>5. \A q \in Ops : ProcOK(q)'
  BY <1>2, LockFree, Bystander DEF ServiceStart
<1> QED
  BY <1>3, <1>4, <1>5 DEF IInv

LEMMA ServiceStopStep ==
    ASSUME IInv, ServiceStop
    PROVE  IInv'
<1>1. Typed /\ HostAssumption
  BY HostAssumption DEF IInv
<1>2. db' \in Nat /\ db' >= db
  BY <1>1 DEF ServiceStop, Typed, TypeOK
<1>3. Typed'
  BY <1>1, <1>2 DEF ServiceStop, Typed, TypeOK, Plan
<1>4. PlansSound' /\ ActiveSound' /\ \A v \in Updates : ReceiptOK(v)'
  BY <1>1, <1>2, Steady DEF ServiceStop, Typed, TypeOK
<1>5. \A q \in Ops : ProcOK(q)'
  BY <1>2, LockFree, Bystander DEF ServiceStop
<1> QED
  BY <1>3, <1>4, <1>5 DEF IInv

LEMMA RestoreStep ==
    ASSUME IInv, NEW b \in Backups, Restore(b)
    PROVE  IInv'
<1>1. Typed /\ HostAssumption
  BY HostAssumption DEF IInv
<1>2. db' \in Nat /\ db' >= db
  BY <1>1 DEF Restore, Typed, TypeOK
<1>3. Typed'
  BY <1>1, <1>2 DEF Restore, Typed, TypeOK, Plan
<1>4. PlansSound' /\ ActiveSound' /\ \A v \in Updates : ReceiptOK(v)'
  BY <1>1, <1>2, Steady DEF Restore, Typed, TypeOK
<1>5. \A q \in Ops : ProcOK(q)'
  BY <1>2, LockFree, Bystander DEF Restore
<1> QED
  BY <1>3, <1>4, <1>5 DEF IInv

LEMMA ServiceRespawnStep ==
    ASSUME IInv, ServiceRespawn
    PROVE  IInv'
<1>1. Typed /\ HostAssumption
  BY HostAssumption DEF IInv
<1>2. db' \in Nat /\ db' >= db /\ Active.rel \in Releases
  BY <1>1, ActiveTyped DEF ServiceRespawn, Typed, TypeOK
<1>3. Typed'
  BY <1>1, <1>2 DEF ServiceRespawn, Typed, TypeOK, Plan
<1>4. PlansSound' /\ ActiveSound' /\ \A v \in Updates : ReceiptOK(v)'
  BY <1>1, <1>2, Steady DEF ServiceRespawn, Typed, TypeOK
<1>5. \A q \in Ops : ProcOK(q)'
  BY <1>2, Bystander DEF ServiceRespawn
<1> QED
  BY <1>3, <1>4, <1>5 DEF IInv

LEMMA WorkerCommitsStep ==
    ASSUME IInv, NEW u \in Updates, WorkerCommits(u)
    PROVE  IInv'
<1>1. Typed /\ HostAssumption
  BY HostAssumption DEF IInv
<1>2. db' \in Nat /\ db' >= db
  BY <1>1 DEF WorkerCommits, Typed, TypeOK
<1>3. Typed'
  BY <1>1, <1>2 DEF WorkerCommits, Typed, TypeOK, Plan
<1>4. PlansSound' /\ ActiveSound' /\ \A v \in Updates : ReceiptOK(v)'
  BY <1>1, <1>2, Steady DEF WorkerCommits, Typed, TypeOK
<1>5. \A q \in Ops : ProcOK(q)'
  BY <1>2, Bystander DEF WorkerCommits
<1> QED
  BY <1>3, <1>4, <1>5 DEF IInv

LEMMA WorkerFailsStep ==
    ASSUME IInv, NEW u \in Updates, WorkerFails(u)
    PROVE  IInv'
<1>1. Typed /\ HostAssumption
  BY HostAssumption DEF IInv
<1>2. db' \in Nat /\ db' >= db
  BY <1>1 DEF WorkerFails, Typed, TypeOK
<1>3. Typed'
  BY <1>1, <1>2 DEF WorkerFails, Typed, TypeOK, Plan
<1>4. PlansSound' /\ ActiveSound' /\ \A v \in Updates : ReceiptOK(v)'
  BY <1>1, <1>2, Steady DEF WorkerFails, Typed, TypeOK
<1>5. \A q \in Ops : ProcOK(q)'
  BY <1>2, Bystander DEF WorkerFails
<1> QED
  BY <1>3, <1>4, <1>5 DEF IInv

LEMMA DatabaseCommitsStep ==
    ASSUME IInv, NEW u \in Updates, DatabaseCommits(u)
    PROVE  IInv'
<1>1. Typed /\ HostAssumption
  BY HostAssumption DEF IInv
<1>2. db' \in Nat /\ db' >= db
  <2>1. Plan(u) # None
    BY <1>1 DEF DatabaseCommits, Typed
  <2>2. HeadOf[To(u)] \in Nat /\ HeadOf[To(u)] >= HeadOf[From(u)]
    BY <1>1, <2>1 DEF IInv, PlansSound, HostAssumption
  <2> QED
    BY <1>1, <2>2 DEF DatabaseCommits, Typed, TypeOK
<1>3. Typed'
  BY <1>1, <1>2 DEF DatabaseCommits, Typed, TypeOK, Plan
<1>4. PlansSound' /\ ActiveSound' /\ \A v \in Updates : ReceiptOK(v)'
  BY <1>1, <1>2, Steady DEF DatabaseCommits, Typed, TypeOK
<1>5. \A q \in Ops : ProcOK(q)'
  BY <1>2, Bystander DEF DatabaseCommits
<1> QED
  BY <1>3, <1>4, <1>5 DEF IInv

LEMMA RebootStep ==
    ASSUME IInv, Reboot
    PROVE  IInv'
<1>1. Typed /\ Active.rel \in Releases
  BY ActiveTyped DEF IInv
<1>2. Typed'
  BY <1>1, IdleTyped DEF Reboot, Typed, TypeOK
<1>3. db' \in Nat /\ db' >= db
  BY <1>1 DEF Reboot, Typed, TypeOK
<1>4. PlansSound' /\ ActiveSound' /\ \A v \in Updates : ReceiptOK(v)'
  BY <1>3, Steady DEF Reboot
<1>5. \A q \in Ops : proc'[q].pc = "idle"
  BY DEF Reboot, Idle
<1>6. \A q \in Ops : ProcOK(q)'
  BY <1>5 DEF ProcOK, BacksUp, Applies, Reverts, LockPcs
<1> QED
  BY <1>2, <1>4, <1>6 DEF IInv

\* An activation moves the pointer to a release that no update vouches for.
LEMMA ActivateReleaseStep ==
    ASSUME IInv, NEW r \in Releases, ActivateRelease(r)
    PROVE  IInv'
<1>1. Typed /\ Active.rel \in Releases /\ Len(gens) \in Nat
  BY ActiveTyped DEF IInv
<1> DEFINE g == Generation(r, "activate", None, None)
<1>2. g \in Gens /\ g.reason = "activate"
  BY <1>1 DEF Generation, Gens, Active
<1>3. gens' = Append(gens, g)
  BY DEF ActivateRelease, Activated
<1> HIDE DEF g
<1>4. /\ gens' \in Seq(Gens) /\ Len(gens') = Len(gens) + 1
      /\ \A i \in 1..Len(gens) : gens'[i] = gens[i]
      /\ Active' = g
  BY <1>1, <1>2, <1>3, Grown
<1>5. Typed'
  BY <1>1, <1>4 DEF ActivateRelease, Typed, TypeOK, Plan
<1>6. Kept
  BY DEF ActivateRelease, Kept, Plan
<1>7. PlansSound'
  BY DEF ActivateRelease, IInv, PlansSound, Plan, From, To
<1>8. ActiveSound'
  BY <1>2, <1>4 DEF ActiveSound, ActiveUpdate, ActiveRollback, ActiveServed
<1>9. \A v \in Updates : ReceiptOK(v)'
  BY <1>1, <1>4, <1>6, ReceiptKept DEF ActivateRelease
<1>10. \A q \in Ops : ProcOK(q)'
  BY LockFree, Bystander DEF ActivateRelease
<1> QED
  BY <1>5, <1>7, <1>8, <1>9, <1>10 DEF IInv

----------------------------------------------------------------------------
\* Commands: one process moves.

LEMMA Moved ==
    ASSUME Typed, NEW o \in Ops, NEW x, x = [f \in Fields |-> x[f]],
           proc' = [proc EXCEPT ![o] = x]
    PROVE  /\ proc' = [q \in Ops |-> [f \in Fields |-> proc'[q][f]]]
           /\ proc'[o] = x
           /\ \A q \in Ops \ {o} : proc'[q] = proc[q]
<1>1. proc' = [q \in Ops |-> IF q = o THEN x ELSE proc[q]]
  BY DEF Typed
<1>2. \A q \in Ops : proc[q] = [f \in Fields |-> proc[q][f]]
  BY DEF Typed
<1>3. \A q \in Ops : proc'[q] = [f \in Fields |-> proc'[q][f]]
  BY <1>1, <1>2
<1> QED
  BY <1>1, <1>3

LEMMA IdleOK ==
    ASSUME NEW o \in Ops, proc'[o] = Idle
    PROVE  ProcOK(o)'
BY IdleTyped DEF ProcOK, BacksUp, Applies, Reverts, LockPcs

LEMMA BackupStartStep ==
    ASSUME IInv, NEW o \in Ops, NEW b \in Backups, BackupStart(o, b)
    PROVE  IInv'
<1>1. Typed /\ ProcOK(o) /\ proc[o] = [f \in Fields |-> proc[o][f]]
  BY DEF IInv, Typed
<1> DEFINE x == [Idle EXCEPT !.op = "backup", !.pc = "dump", !.bak = b, !.rel = Active.rel]
<1>2. x = [f \in Fields |-> x[f]] /\ x.op = "backup" /\ x.pc = "dump" /\ x.bak = b
  BY <1>1 DEF Fields, Idle
<1>3. proc' = [proc EXCEPT ![o] = x]
  BY <1>1 DEF BackupStart, Begin, Typed
<1> HIDE DEF x
<1>4. /\ proc' = [q \in Ops |-> [f \in Fields |-> proc'[q][f]]]
      /\ proc'[o] = x
      /\ \A q \in Ops \ {o} : proc'[q] = proc[q]
  BY <1>1, <1>2, <1>3, Moved
<1>5. Typed'
  <2>1. /\ installed' = installed /\ db' = db /\ service' = service /\ restored' = restored
        /\ gens' = gens /\ receipts' = receipts /\ backups' = backups
        /\ lock' = o /\ worker' = worker
    BY DEF BackupStart, Begin, deployment
  <2> QED
    BY <1>1, <1>4, <2>1 DEF Typed, TypeOK, Plan
<1>6. db' = db /\ db \in Nat
  BY <1>1 DEF BackupStart, Begin, deployment, Typed, TypeOK
<1>7. PlansSound' /\ ActiveSound' /\ \A v \in Updates : ReceiptOK(v)'
  BY <1>6, Steady DEF BackupStart, Begin, deployment
<1>8. \A q \in Ops \ {o} : ProcOK(q)'
  BY <1>4, LockFree, Bystander DEF BackupStart, Begin, deployment
<1>9. ProcOK(o)'
  BY <1>1, <1>2, <1>4 DEF ProcOK, LockPcs, BacksUp, Applies, Reverts, BackupStart, deployment
<1> QED
  BY <1>5, <1>7, <1>8, <1>9 DEF IInv

LEMMA BackupDumpStep ==
    ASSUME IInv, NEW o \in Ops, BackupDump(o)
    PROVE  IInv'
<1>1. Typed /\ ProcOK(o) /\ proc[o] = [f \in Fields |-> proc[o][f]]
  BY DEF IInv, Typed
<1> DEFINE x == [proc[o] EXCEPT !.pc = "seal", !.head = db]
<1>2. x = [f \in Fields |-> x[f]] /\ x.pc = "seal" /\ x.bak = proc[o].bak
  BY <1>1 DEF Fields
<1>3. proc' = [proc EXCEPT ![o] = x]
  BY <1>1 DEF BackupDump, Typed
<1> HIDE DEF x
<1>4. /\ proc' = [q \in Ops |-> [f \in Fields |-> proc'[q][f]]]
      /\ proc'[o] = x
      /\ \A q \in Ops \ {o} : proc'[q] = proc[q]
  BY <1>1, <1>2, <1>3, Moved
<1>5. Typed'
  <2>1. /\ installed' = installed /\ db' = db /\ service' = service /\ restored' = restored
        /\ gens' = gens /\ receipts' = receipts /\ backups' = backups
        /\ lock' = lock /\ worker' = worker
    BY DEF BackupDump, deployment
  <2> QED
    BY <1>1, <1>4, <2>1 DEF Typed, TypeOK, Plan
<1>6. db' = db /\ db \in Nat
  BY <1>1 DEF BackupDump, deployment, Typed, TypeOK
<1>7. PlansSound' /\ ActiveSound' /\ \A v \in Updates : ReceiptOK(v)'
  BY <1>6, Steady DEF BackupDump, deployment
<1>8. \A q \in Ops \ {o} : ProcOK(q)'
  <2>1. proc[o].pc \in LockPcs
    BY DEF BackupDump, LockPcs
  <2> QED
    BY <2>1, <1>4, LockMine, Bystander DEF BackupDump, deployment
<1>9. ProcOK(o)'
  BY <1>1, <1>2, <1>4 DEF ProcOK, LockPcs, BacksUp, Applies, Reverts, BackupDump, deployment
<1> QED
  BY <1>5, <1>7, <1>8, <1>9 DEF IInv

LEMMA LookStep ==
    ASSUME IInv, NEW o \in Ops, Look(o)
    PROVE  IInv'
<1>1. Typed /\ ProcOK(o) /\ proc[o] = [f \in Fields |-> proc[o][f]]
  BY DEF IInv, Typed
<1> DEFINE x == [proc[o] EXCEPT !.pc = "probe", !.rel = Active.rel, !.head = ReadyHead]
<1>2. x = [f \in Fields |-> x[f]] /\ x.pc = "probe" /\ x.upd = proc[o].upd
  BY <1>1 DEF Fields
<1>3. proc' = [proc EXCEPT ![o] = x]
  BY <1>1 DEF Look, Typed
<1> HIDE DEF x
<1>4. /\ proc' = [q \in Ops |-> [f \in Fields |-> proc'[q][f]]]
      /\ proc'[o] = x
      /\ \A q \in Ops \ {o} : proc'[q] = proc[q]
  BY <1>1, <1>2, <1>3, Moved
<1>5. Typed'
  <2>1. /\ installed' = installed /\ db' = db /\ service' = service /\ restored' = restored
        /\ gens' = gens /\ receipts' = receipts /\ backups' = backups
        /\ lock' = lock /\ worker' = worker
    BY DEF Look, deployment
  <2> QED
    BY <1>1, <1>4, <2>1 DEF Typed, TypeOK, Plan
<1>6. db' = db /\ db \in Nat
  BY <1>1 DEF Look, deployment, Typed, TypeOK
<1>7. PlansSound' /\ ActiveSound' /\ \A v \in Updates : ReceiptOK(v)'
  BY <1>6, Steady DEF Look, deployment
<1>8. \A q \in Ops \ {o} : ProcOK(q)'
  BY <1>4, LockFree, Bystander DEF Look, deployment
<1>9. ProcOK(o)'
  BY <1>1, <1>2, <1>4 DEF ProcOK, LockPcs, BacksUp, Applies, Reverts, Look
<1> QED
  BY <1>5, <1>7, <1>8, <1>9 DEF IInv

LEMMA ProbeStep ==
    ASSUME IInv, NEW o \in Ops, Probe(o)
    PROVE  IInv'
<1>1. Typed /\ ProcOK(o) /\ proc[o] = [f \in Fields |-> proc[o][f]]
  BY DEF IInv, Typed
<1> DEFINE x == [proc[o] EXCEPT !.pc = "settle"]
<1>2. x = [f \in Fields |-> x[f]] /\ x.pc = "settle" /\ x.upd = proc[o].upd
  BY <1>1 DEF Fields
<1>3. proc' = [proc EXCEPT ![o] = x]
  BY <1>1 DEF Probe, Typed
<1> HIDE DEF x
<1>4. /\ proc' = [q \in Ops |-> [f \in Fields |-> proc'[q][f]]]
      /\ proc'[o] = x
      /\ \A q \in Ops \ {o} : proc'[q] = proc[q]
  BY <1>1, <1>2, <1>3, Moved
<1>5. Typed'
  <2>1. /\ installed' = installed /\ db' = db /\ service' = service /\ restored' = restored
        /\ gens' = gens /\ receipts' = receipts /\ backups' = backups
        /\ lock' = lock /\ worker' = worker
    BY DEF Probe, deployment
  <2> QED
    BY <1>1, <1>4, <2>1 DEF Typed, TypeOK, Plan
<1>6. db' = db /\ db \in Nat
  BY <1>1 DEF Probe, deployment, Typed, TypeOK
<1>7. PlansSound' /\ ActiveSound' /\ \A v \in Updates : ReceiptOK(v)'
  BY <1>6, Steady DEF Probe, deployment
<1>8. \A q \in Ops \ {o} : ProcOK(q)'
  BY <1>4, <1>6, Bystander DEF Probe, deployment
<1>9. ProcOK(o)'
  BY <1>1, <1>2, <1>4 DEF ProcOK, LockPcs, BacksUp, Applies, Reverts, Probe
<1> QED
  BY <1>5, <1>7, <1>8, <1>9 DEF IInv

LEMMA SettleStep ==
    ASSUME IInv, NEW o \in Ops, Settle(o)
    PROVE  IInv'
<1>1. Typed /\ ProcOK(o) /\ proc[o] = [f \in Fields |-> proc[o][f]]
  BY DEF IInv, Typed
<1> DEFINE x == [proc[o] EXCEPT !.pc = "publish"]
<1>2. x = [f \in Fields |-> x[f]] /\ x.pc = "publish" /\ x.upd = proc[o].upd
  BY <1>1 DEF Fields
<1>3. proc' = [proc EXCEPT ![o] = x]
  BY <1>1 DEF Settle, Typed
<1> HIDE DEF x
<1>4. /\ proc' = [q \in Ops |-> [f \in Fields |-> proc'[q][f]]]
      /\ proc'[o] = x
      /\ \A q \in Ops \ {o} : proc'[q] = proc[q]
  BY <1>1, <1>2, <1>3, Moved
<1>5. Typed'
  <2>1. /\ installed' = installed /\ db' = db /\ service' = service /\ restored' = restored
        /\ gens' = gens /\ receipts' = receipts /\ backups' = backups
        /\ lock' = lock /\ worker' = worker
    BY DEF Settle, deployment
  <2> QED
    BY <1>1, <1>4, <2>1 DEF Typed, TypeOK, Plan
<1>6. db' = db /\ db \in Nat
  BY <1>1 DEF Settle, deployment, Typed, TypeOK
<1>7. PlansSound' /\ ActiveSound' /\ \A v \in Updates : ReceiptOK(v)'
  BY <1>6, Steady DEF Settle, deployment
<1>8. \A q \in Ops \ {o} : ProcOK(q)'
  BY <1>4, LockFree, Bystander DEF Settle, deployment
<1>9. ProcOK(o)'
  BY <1>1, <1>2, <1>4 DEF ProcOK, LockPcs, BacksUp, Applies, Reverts, Settle
<1> QED
  BY <1>5, <1>7, <1>8, <1>9 DEF IInv

LEMMA PrepareStartStep ==
    ASSUME IInv, NEW o \in Ops, NEW u \in Updates, NEW t \in Releases, PrepareStart(o, u, t)
    PROVE  IInv'
<1>1. Typed /\ ProcOK(o) /\ proc[o] = [f \in Fields |-> proc[o][f]]
  BY DEF IInv, Typed
<1> DEFINE x == [Idle EXCEPT !.op = "prepare", !.pc = "look", !.upd = u, !.to = t, !.bak = Active.rel]
<1>2. x = [f \in Fields |-> x[f]] /\ x.op = "prepare" /\ x.pc = "look" /\ x.upd = u
  BY <1>1 DEF Fields, Idle
<1>3. proc' = [proc EXCEPT ![o] = x]
  BY <1>1 DEF PrepareStart, Begin, Typed
<1> HIDE DEF x
<1>4. /\ proc' = [q \in Ops |-> [f \in Fields |-> proc'[q][f]]]
      /\ proc'[o] = x
      /\ \A q \in Ops \ {o} : proc'[q] = proc[q]
  BY <1>1, <1>2, <1>3, Moved
<1>5. Typed'
  <2>1. /\ installed' = installed /\ db' = db /\ service' = service /\ restored' = restored
        /\ gens' = gens /\ receipts' = receipts /\ backups' = backups
        /\ lock' = lock /\ worker' = worker
    BY DEF PrepareStart, Begin, deployment
  <2> QED
    BY <1>1, <1>4, <2>1 DEF Typed, TypeOK, Plan
<1>6. db' = db /\ db \in Nat
  BY <1>1 DEF PrepareStart, Begin, deployment, Typed, TypeOK
<1>7. PlansSound' /\ ActiveSound' /\ \A v \in Updates : ReceiptOK(v)'
  BY <1>6, Steady DEF PrepareStart, Begin, deployment
<1>8. \A q \in Ops \ {o} : ProcOK(q)'
  BY <1>4, LockFree, Bystander DEF PrepareStart, Begin, deployment
<1>9. ProcOK(o)'
  BY <1>1, <1>2, <1>4 DEF ProcOK, LockPcs, BacksUp, Applies, Reverts, PrepareStart
<1> QED
  BY <1>5, <1>7, <1>8, <1>9 DEF IInv

LEMMA FinalizeStartStep ==
    ASSUME IInv, NEW o \in Ops, NEW u \in Updates, NEW phase \in {"finalize", "rollback_finalize"},
           FinalizeStart(o, u, phase)
    PROVE  IInv'
<1>1. Typed /\ ProcOK(o) /\ proc[o] = [f \in Fields |-> proc[o][f]]
  BY DEF IInv, Typed
<1> DEFINE x == [Idle EXCEPT !.op = phase, !.pc = "look", !.upd = u]
<1>2. x = [f \in Fields |-> x[f]] /\ x.pc = "look" /\ x.upd = u
  BY <1>1 DEF Fields, Idle
<1>3. proc' = [proc EXCEPT ![o] = x]
  BY <1>1 DEF FinalizeStart, Begin, Typed
<1> HIDE DEF x
<1>4. /\ proc' = [q \in Ops |-> [f \in Fields |-> proc'[q][f]]]
      /\ proc'[o] = x
      /\ \A q \in Ops \ {o} : proc'[q] = proc[q]
  BY <1>1, <1>2, <1>3, Moved
<1>5. Typed'
  <2>1. /\ installed' = installed /\ db' = db /\ service' = service /\ restored' = restored
        /\ gens' = gens /\ receipts' = receipts /\ backups' = backups
        /\ lock' = lock /\ worker' = worker
    BY DEF FinalizeStart, Begin, deployment
  <2> QED
    BY <1>1, <1>4, <2>1 DEF Typed, TypeOK, Plan
<1>6. db' = db /\ db \in Nat
  BY <1>1 DEF FinalizeStart, Begin, deployment, Typed, TypeOK
<1>7. PlansSound' /\ ActiveSound' /\ \A v \in Updates : ReceiptOK(v)'
  BY <1>6, Steady DEF FinalizeStart, Begin, deployment
<1>8. \A q \in Ops \ {o} : ProcOK(q)'
  BY <1>4, LockFree, Bystander DEF FinalizeStart, Begin, deployment
<1>9. ProcOK(o)'
  BY <1>1, <1>2, <1>4 DEF ProcOK, LockPcs, BacksUp, Applies, Reverts, FinalizeStart
<1> QED
  BY <1>5, <1>7, <1>8, <1>9 DEF IInv

LEMMA MigratedStep ==
    ASSUME IInv, NEW o \in Ops, Migrated(o)
    PROVE  IInv'
<1>1. Typed /\ ProcOK(o) /\ proc[o] = [f \in Fields |-> proc[o][f]]
  BY DEF IInv, Typed
<1> DEFINE x == [proc[o] EXCEPT !.pc = "switch"]
<1>2. x = [f \in Fields |-> x[f]] /\ x.op = proc[o].op /\ x.pc = "switch"
      /\ x.upd = proc[o].upd /\ x.bak = proc[o].bak
  BY <1>1 DEF Fields
<1>3. proc' = [proc EXCEPT ![o] = x]
  BY <1>1 DEF Migrated, Typed
<1> HIDE DEF x
<1>4. /\ proc' = [q \in Ops |-> [f \in Fields |-> proc'[q][f]]]
      /\ proc'[o] = x
      /\ \A q \in Ops \ {o} : proc'[q] = proc[q]
  BY <1>1, <1>2, <1>3, Moved
<1>5. Typed'
  <2>1. /\ installed' = installed /\ db' = db /\ service' = service /\ restored' = restored
        /\ gens' = gens /\ receipts' = receipts /\ backups' = backups
        /\ lock' = lock /\ worker' = worker
    BY DEF Migrated, deployment
  <2> QED
    BY <1>1, <1>4, <2>1 DEF Typed, TypeOK, Plan
<1>6. db' = db /\ db \in Nat
  BY <1>1 DEF Migrated, deployment, Typed, TypeOK
<1>7. PlansSound' /\ ActiveSound' /\ \A v \in Updates : ReceiptOK(v)'
  BY <1>6, Steady DEF Migrated, deployment
<1>8. \A q \in Ops \ {o} : ProcOK(q)'
  <2>1. proc[o].pc \in LockPcs
    BY DEF Migrated, LockPcs
  <2> QED
    BY <2>1, <1>4, LockMine, Bystander DEF Migrated, deployment
<1>9. ProcOK(o)'
  <2>1. proc[o].op = "apply" /\ proc[o].pc = "migrate" /\ lock = o
    BY <1>1 DEF Migrated, ProcOK, LockPcs
  <2>2. Applies(o)'
    BY <1>1, <1>2, <1>4, <2>1, ZenonT(40)
    DEF ProcOK, Applies, Migrated, deployment, MatchesGeneration, BackupBound, Plan, To, From, Active
  <2> QED
    BY <1>2, <1>4, <2>1, <2>2 DEF ProcOK, BacksUp, Reverts, Migrated
<1> QED
  BY <1>5, <1>7, <1>8, <1>9 DEF IInv

LEMMA ApplyStartStep ==
    ASSUME IInv, NEW o \in Ops, NEW u \in Updates, NEW b \in Backups, ApplyStart(o, u, b)
    PROVE  IInv'
<1>1. Typed /\ ProcOK(o) /\ proc[o] = [f \in Fields |-> proc[o][f]]
  BY DEF IInv, Typed
<1> DEFINE x == [Idle EXCEPT !.op = "apply", !.pc = NextStep(u), !.upd = u, !.bak = b]
<1>2. x = [f \in Fields |-> x[f]] /\ x.op = "apply" /\ x.pc = NextStep(u) /\ x.upd = u /\ x.bak = b
  BY <1>1 DEF Fields, Idle
<1>3. proc' = [proc EXCEPT ![o] = x]
  BY <1>1 DEF ApplyStart, Begin, Typed
<1> HIDE DEF x
<1>4. /\ proc' = [q \in Ops |-> [f \in Fields |-> proc'[q][f]]]
      /\ proc'[o] = x
      /\ \A q \in Ops \ {o} : proc'[q] = proc[q]
  BY <1>1, <1>2, <1>3, Moved
<1>5. Typed'
  <2>1. /\ installed' = installed /\ db' = db /\ service' = service /\ restored' = restored
        /\ gens' = gens /\ receipts' = receipts /\ backups' = backups
        /\ lock' = o
    BY DEF ApplyStart, Begin, deployment
  <2>2. /\ worker' = [worker EXCEPT ![u] = IF NextStep(u) = "migrate" /\ worker[u] = "none" THEN "run" ELSE @]
        /\ Plan(u) # None
    BY DEF ApplyStart, Applicable
  <2> QED
    BY <1>1, <1>4, <2>1, <2>2 DEF Typed, TypeOK, Plan
<1>6. db' = db /\ db \in Nat
  BY <1>1 DEF ApplyStart, Begin, deployment, Typed, TypeOK
<1>7. PlansSound' /\ ActiveSound' /\ \A v \in Updates : ReceiptOK(v)'
  BY <1>6, Steady DEF ApplyStart, Begin, deployment
<1>8. \A q \in Ops \ {o} : ProcOK(q)'
  BY <1>4, LockFree, Bystander DEF ApplyStart, Begin, deployment
<1>9. ProcOK(o)'
  <2>1. NextStep(u) \in {"migrate", "switch"}
    BY DEF ApplyStart, NextStep
  <2>2. Applies(o)'
    BY <1>2, <1>4, <2>1
    DEF Applies, ApplyStart, Applicable, ServiceAbsent, MatchesGeneration, BackupBound, Plan, To, From, Active
  <2> QED
    BY <1>2, <1>4, <2>1, <2>2 DEF ProcOK, BacksUp, Reverts, ApplyStart, LockPcs
<1> QED
  BY <1>5, <1>7, <1>8, <1>9 DEF IInv

LEMMA RollbackStartStep ==
    ASSUME IInv, NEW o \in Ops, NEW u \in Updates, RollbackStart(o, u)
    PROVE  IInv'
<1>1. Typed /\ ProcOK(o) /\ proc[o] = [f \in Fields |-> proc[o][f]]
  BY DEF IInv, Typed
<1> DEFINE x == [Idle EXCEPT !.op = "rollback", !.pc = "switch", !.upd = u, !.bak = receipts[u].apply.bak]
<1>2. x = [f \in Fields |-> x[f]] /\ x.op = "rollback" /\ x.pc = "switch" /\ x.upd = u
      /\ x.bak = receipts[u].apply.bak
  BY <1>1 DEF Fields, Idle
<1>3. proc' = [proc EXCEPT ![o] = x]
  BY <1>1 DEF RollbackStart, Begin, Typed
<1> HIDE DEF x
<1>4. /\ proc' = [q \in Ops |-> [f \in Fields |-> proc'[q][f]]]
      /\ proc'[o] = x
      /\ \A q \in Ops \ {o} : proc'[q] = proc[q]
  BY <1>1, <1>2, <1>3, Moved
<1>5. Typed'
  <2>1. /\ installed' = installed /\ db' = db /\ service' = service /\ restored' = restored
        /\ gens' = gens /\ receipts' = receipts /\ backups' = backups
        /\ lock' = o /\ worker' = worker
    BY DEF RollbackStart, Begin, deployment
  <2> QED
    BY <1>1, <1>4, <2>1 DEF Typed, TypeOK, Plan
<1>6. db' = db /\ db \in Nat
  BY <1>1 DEF RollbackStart, Begin, deployment, Typed, TypeOK
<1>7. PlansSound' /\ ActiveSound' /\ \A v \in Updates : ReceiptOK(v)'
  BY <1>6, Steady DEF RollbackStart, Begin, deployment
<1>8. \A q \in Ops \ {o} : ProcOK(q)'
  BY <1>4, LockFree, Bystander DEF RollbackStart, Begin, deployment
<1>9. ProcOK(o)'
  <2>1. Plan(u) # None /\ receipts[u].apply # None /\ service = None /\ db = HeadOf[To(u)]
    BY DEF RollbackStart, Reversible, ServiceAbsent
  <2>2. receipts[u].apply.bak \in Backups
    BY <2>1 DEF IInv, ReceiptOK
  <2>3. Reverts(o)'
    BY <1>2, <1>4, <1>6, <2>1, <2>2, SMTT(30)
    DEF Reverts, RollbackStart, deployment, Plan, To, From, Active
  <2> QED
    BY <1>2, <1>4, <2>3 DEF ProcOK, BacksUp, Applies, RollbackStart, LockPcs
<1> QED
  BY <1>5, <1>7, <1>8, <1>9 DEF IInv

LEMMA BackupPublishStep ==
    ASSUME IInv, NEW o \in Ops, BackupPublish(o)
    PROVE  IInv'
<1>1. Typed /\ ProcOK(o) /\ proc[o] = [f \in Fields |-> proc[o][f]]
  BY DEF IInv, Typed
<1>3. proc' = [proc EXCEPT ![o] = Idle]
  BY DEF BackupPublish
<1>4. /\ proc' = [q \in Ops |-> [f \in Fields |-> proc'[q][f]]]
      /\ proc'[o] = Idle
      /\ \A q \in Ops \ {o} : proc'[q] = proc[q]
  BY <1>1, <1>3, IdleTyped, Moved
<1>e. proc[o].bak \in Backups /\ backups[proc[o].bak] = None
  BY <1>1 DEF BackupPublish, ProcOK, BacksUp
<1>f. Kept
  BY <1>1, <1>e DEF BackupPublish, Kept, Typed, Plan
<1>5. Typed'
  BY <1>1, <1>4, ZenonT(40) DEF BackupPublish, Typed, TypeOK, Plan
<1>6. db' = db /\ db \in Nat /\ Len(gens) \in Nat
  BY <1>1 DEF BackupPublish, Typed, TypeOK
<1>7. PlansSound' /\ ActiveSound' /\ \A v \in Updates : ReceiptOK(v)'
  <2>1. PlansSound'
    BY DEF BackupPublish, IInv, PlansSound, Plan, From, To
  <2>2. ActiveSound'
    BY <1>f, <1>6, ActiveKept DEF BackupPublish
  <2>3. \A v \in Updates : ReceiptOK(v)'
    BY <1>f, <1>6, ReceiptKept DEF BackupPublish
  <2> QED
    BY <2>1, <2>2, <2>3
<1>8. \A q \in Ops \ {o} : ProcOK(q)'
  <2>1. proc[o].pc \in LockPcs
    BY DEF BackupPublish, LockPcs
  <2> QED
    BY <2>1, <1>4, LockMine, Bystander DEF BackupPublish, deployment
<1>9. ProcOK(o)'
  BY <1>4, IdleOK
<1> QED
  BY <1>5, <1>7, <1>8, <1>9 DEF IInv

LEMMA AbandonStep ==
    ASSUME IInv, NEW o \in Ops, Abandon(o)
    PROVE  IInv'
<1>1. Typed /\ ProcOK(o) /\ proc[o] = [f \in Fields |-> proc[o][f]]
  BY DEF IInv, Typed
<1>3. proc' = [proc EXCEPT ![o] = Idle]
  BY DEF Abandon
<1>4. /\ proc' = [q \in Ops |-> [f \in Fields |-> proc'[q][f]]]
      /\ proc'[o] = Idle
      /\ \A q \in Ops \ {o} : proc'[q] = proc[q]
  BY <1>1, <1>3, IdleTyped, Moved
<1>5. Typed'
  <2>1. UNCHANGED <<installed, gens, db, service, receipts, backups, restored>>
        /\ lock' \in {lock, None}
    BY DEF Abandon
  <2>2. worker' = worker \/ worker' = [worker EXCEPT ![proc[o].upd] = "none"]
    BY DEF Abandon
  <2>3. worker' \in [Updates -> {"none", "run", "commit"}]
    BY <1>1, <2>2 DEF Typed, TypeOK
  <2>4. \A v \in Updates : worker'[v] # "none" => Plan(v) # None
    BY <1>1, <2>2 DEF Typed, TypeOK
  <2>5. \A v \in Updates : worker'[v] # "none" => Plan(v)' # None
    BY <2>1, <2>4 DEF Plan
  <2> QED
    BY <1>1, <1>4, <2>1, <2>3, <2>5 DEF Typed, TypeOK
<1>6. db' = db /\ db \in Nat
  BY <1>1 DEF Abandon, Typed, TypeOK
<1>7. PlansSound' /\ ActiveSound' /\ \A v \in Updates : ReceiptOK(v)'
  BY <1>6, Steady DEF Abandon
<1>8. \A q \in Ops \ {o} : ProcOK(q)'
  <2> SUFFICES ASSUME NEW q \in Ops \ {o} PROVE ProcOK(q)'
    OBVIOUS
  <2>1. lock = o => proc[q].pc \notin LockPcs
    BY DEF IInv, ProcOK
  <2>2. lock # o => lock' = lock
    BY DEF Abandon
  <2> QED
    BY <1>4, <1>6, <2>1, <2>2, Bystander DEF Abandon
<1>9. ProcOK(o)'
  BY <1>4, IdleOK
<1> QED
  BY <1>5, <1>7, <1>8, <1>9 DEF IInv

----------------------------------------------------------------------------
\* Publications of a phase file.

LEMMA Recorded ==
    ASSUME IInv, NEW u \in Updates, NEW f \in Phases, NEW x, Published(u, f, x), OnlyReceipts,
           f \in {"plan", "apply"} => receipts[u][f] = None
    PROVE  /\ receipts' = [v \in Updates |-> [h \in Phases |-> receipts'[v][h]]]
           /\ receipts'[u][f] = x
           /\ \A h \in Phases \ {f} : receipts'[u][h] = receipts[u][h]
           /\ \A v \in Updates \ {u} : receipts'[v] = receipts[v]
           /\ f # "plan" => PlansSound' /\ \A v \in Updates : Plan(v)' = Plan(v)
           /\ ActiveSound'
           /\ \A v \in Updates \ {u} : ReceiptOK(v)'
<1>1. Typed
  BY DEF IInv
<1>2. /\ receipts' = [v \in Updates |-> [h \in Phases |-> receipts'[v][h]]]
      /\ \A v \in Updates \ {u} : receipts'[v] = receipts[v]
      /\ \A h \in Phases \ {f} : receipts'[u][h] = receipts[u][h]
      /\ receipts'[u][f] = x
  BY <1>1, OnePhase
<1>3. \A v \in Updates : (v # u \/ f # "plan" \/ receipts[v].plan # None) =>
        receipts'[v].plan = receipts[v].plan
  BY <1>2 DEF Phases
<1>4. \A v \in Updates : receipts[v].apply # None => receipts'[v].apply = receipts[v].apply
  BY <1>2 DEF Phases
<1>5. Kept
  BY <1>3, <1>4 DEF Kept, Plan, OnlyReceipts
<1>6. db \in Nat /\ Len(gens) \in Nat
  BY <1>1 DEF Typed, TypeOK
<1>7. ActiveSound'
  BY <1>5, <1>6, ActiveKept DEF OnlyReceipts
<1>8. \A v \in Updates \ {u} : ReceiptOK(v)'
  BY <1>2, <1>5, <1>6, ReceiptKept DEF OnlyReceipts
<1>9. f # "plan" => \A v \in Updates : Plan(v)' = Plan(v)
  BY <1>3 DEF Plan
<1>10. f # "plan" => PlansSound'
  BY <1>9 DEF IInv, PlansSound, To, From
<1> QED
  BY <1>2, <1>7, <1>8, <1>9, <1>10

LEMMA ApplyRecoverStep ==
    ASSUME IInv, NEW o \in Ops, NEW u \in Updates, NEW b \in Backups, ApplyRecover(o, u, b)
    PROVE  IInv'
<1>1. Typed /\ ProcOK(o) /\ Len(gens) \in Nat /\ Len(gens) > 0
  BY ActiveTyped DEF IInv
<1>2. /\ u \in Updates /\ b \in Backups /\ Plan(u) # None /\ BackupBound(u, b)
      /\ MatchesGeneration(Active, u, "update", b) /\ receipts[u].apply = None
  BY DEF ApplyRecover, Applicable
<1>3. /\ receipts' = [v \in Updates |-> [h \in Phases |-> receipts'[v][h]]]
      /\ receipts'[u]["apply"] = [bak |-> b, gen |-> Len(gens)]
      /\ \A h \in Phases \ {"apply"} : receipts'[u][h] = receipts[u][h]
      /\ \A v \in Updates \ {u} : receipts'[v] = receipts[v]
      /\ "apply" # "plan" => PlansSound' /\ \A v \in Updates : Plan(v)' = Plan(v)
      /\ ActiveSound'
      /\ \A v \in Updates \ {u} : ReceiptOK(v)'
  <2>1. "apply" \in Phases /\ Published(u, "apply", [bak |-> b, gen |-> Len(gens)]) /\ OnlyReceipts
        /\ ("apply" \in {"plan", "apply"} => receipts[u]["apply"] = None)
    BY <1>2 DEF ApplyRecover, Phases, Plan
  <2> QED
    BY <1>2, <2>1, Recorded
<1>4. proc' = proc
  BY DEF ApplyRecover
<1>5. Typed'
  <2>1. UNCHANGED <<installed, gens, db, service, worker, backups, restored>>
        /\ lock' \in {lock, None}
    BY DEF ApplyRecover, OnlyReceipts
  <2>2. "apply" # "plan"
    BY <1>2 DEF ApplyRecover
  <2>3. \A v \in Updates : Plan(v)' = Plan(v)
    BY <1>3, <2>2
  <2> QED
    BY <1>1, <1>3, <1>4, <2>1, <2>3 DEF Typed, TypeOK
<1>6. PlansSound'
  BY <1>2, <1>3 DEF ApplyRecover
<1>7. ReceiptOK(u)'
  <2>1. /\ receipts'[u].plan = receipts[u].plan /\ receipts'[u].rollback = receipts[u].rollback
        /\ receipts'[u].finalize = receipts[u].finalize
        /\ receipts'[u].rollback_finalize = receipts[u].rollback_finalize
    BY <1>3 DEF Phases
  <2>2. receipts'[u].apply.gen = Len(gens) /\ receipts'[u].apply.bak = b
    BY <1>2, <1>3
  <2>3. ReceiptOK(u) /\ receipts[u].apply = None
    BY <1>2 DEF IInv
  <2>4. receipts[u].rollback = 0 /\ ~receipts[u].finalize /\ ~receipts[u].rollback_finalize
    BY <2>3 DEF ReceiptOK
  <2>5. UNCHANGED <<gens, backups>>
    BY DEF OnlyReceipts, ApplyRecover
  <2> QED
    BY <1>1, <1>2, <2>1, <2>2, <2>4, <2>5
    DEF ReceiptOK, MatchesGeneration, BackupBound, Plan, To, From, Active
<1>8. \A q \in Ops : ProcOK(q)'
  BY <1>4, LockFree, Bystander DEF ApplyRecover
<1>9. ProcOK(o)'
  BY <1>8
<1> QED
  BY <1>3, <1>5, <1>6, <1>7, <1>8, <1>9 DEF IInv

LEMMA ApplyReceiptStep ==
    ASSUME IInv, NEW o \in Ops, ApplyReceipt(o)
    PROVE  IInv'
<1>1. Typed /\ ProcOK(o) /\ Len(gens) \in Nat /\ Len(gens) > 0
  BY ActiveTyped DEF IInv
<1>2. PICK u \in Updates, b \in Backups :
      /\ u = proc[o].upd /\ b = proc[o].bak /\ Plan(u) # None /\ BackupBound(u, b)
      /\ MatchesGeneration(Active, u, "update", b) /\ receipts[u].apply = None
  BY <1>1 DEF ApplyReceipt, ProcOK, Applies
<1>3. /\ receipts' = [v \in Updates |-> [h \in Phases |-> receipts'[v][h]]]
      /\ receipts'[u]["apply"] = [bak |-> proc[o].bak, gen |-> Len(gens)]
      /\ \A h \in Phases \ {"apply"} : receipts'[u][h] = receipts[u][h]
      /\ \A v \in Updates \ {u} : receipts'[v] = receipts[v]
      /\ "apply" # "plan" => PlansSound' /\ \A v \in Updates : Plan(v)' = Plan(v)
      /\ ActiveSound'
      /\ \A v \in Updates \ {u} : ReceiptOK(v)'
  <2>1. "apply" \in Phases /\ Published(u, "apply", [bak |-> proc[o].bak, gen |-> Len(gens)]) /\ OnlyReceipts
        /\ ("apply" \in {"plan", "apply"} => receipts[u]["apply"] = None)
    BY <1>2 DEF ApplyReceipt, Phases, Plan
  <2> QED
    BY <1>2, <2>1, Recorded
<1>4. /\ proc' = [q \in Ops |-> [f \in Fields |-> proc'[q][f]]]
      /\ proc'[o] = Idle
      /\ \A q \in Ops \ {o} : proc'[q] = proc[q]
  <2>1. proc' = [proc EXCEPT ![o] = Idle]
    BY DEF ApplyReceipt
  <2> QED
    BY <1>1, <2>1, IdleTyped, Moved
<1>5. Typed'
  <2>1. UNCHANGED <<installed, gens, db, service, worker, backups, restored>>
        /\ lock' \in {lock, None}
    BY DEF ApplyReceipt, OnlyReceipts
  <2>2. "apply" # "plan"
    BY <1>2 DEF ApplyReceipt
  <2>3. \A v \in Updates : Plan(v)' = Plan(v)
    BY <1>3, <2>2
  <2> QED
    BY <1>1, <1>3, <1>4, <2>1, <2>3 DEF Typed, TypeOK
<1>6. PlansSound'
  BY <1>2, <1>3 DEF ApplyReceipt
<1>7. ReceiptOK(u)'
  <2>1. /\ receipts'[u].plan = receipts[u].plan /\ receipts'[u].rollback = receipts[u].rollback
        /\ receipts'[u].finalize = receipts[u].finalize
        /\ receipts'[u].rollback_finalize = receipts[u].rollback_finalize
    BY <1>3 DEF Phases
  <2>2. receipts'[u].apply.gen = Len(gens) /\ receipts'[u].apply.bak = b
    BY <1>2, <1>3
  <2>3. ReceiptOK(u) /\ receipts[u].apply = None
    BY <1>2 DEF IInv
  <2>4. receipts[u].rollback = 0 /\ ~receipts[u].finalize /\ ~receipts[u].rollback_finalize
    BY <2>3 DEF ReceiptOK
  <2>5. UNCHANGED <<gens, backups>>
    BY DEF OnlyReceipts, ApplyReceipt
  <2> QED
    BY <1>1, <1>2, <2>1, <2>2, <2>4, <2>5
    DEF ReceiptOK, MatchesGeneration, BackupBound, Plan, To, From, Active
<1>8. \A q \in Ops \ {o} : ProcOK(q)'
  <2>1. proc[o].pc \in LockPcs
    BY DEF ApplyReceipt, LockPcs
  <2> QED
    BY <2>1, <1>4, LockMine, Bystander DEF ApplyReceipt
<1>9. ProcOK(o)'
  BY <1>4, IdleOK
<1> QED
  BY <1>3, <1>5, <1>6, <1>7, <1>8, <1>9 DEF IInv

LEMMA RollbackRecoverStep ==
    ASSUME IInv, NEW o \in Ops, NEW u \in Updates, RollbackRecover(o, u)
    PROVE  IInv'
<1>1. Typed /\ ProcOK(o) /\ Len(gens) \in Nat /\ Len(gens) > 0
  BY ActiveTyped DEF IInv
<1>2. /\ u \in Updates /\ Plan(u) # None /\ receipts[u].apply # None
      /\ MatchesGeneration(Active, u, "rollback", receipts[u].apply.bak)
      /\ receipts[u].apply.gen < Len(gens)
  <2>1. /\ Plan(u) # None /\ receipts[u].apply # None
        /\ MatchesGeneration(Active, u, "rollback", receipts[u].apply.bak)
    BY DEF RollbackRecover, Reversible
  <2>2. receipts[u].apply.gen \in 1..Len(gens) /\ gens[receipts[u].apply.gen].reason = "update"
    BY <2>1 DEF IInv, ReceiptOK, MatchesGeneration
  <2>3. gens[Len(gens)].reason = "rollback"
    BY <2>1 DEF MatchesGeneration, Active
  <2>4. receipts[u].apply.gen # Len(gens)
    BY <2>2, <2>3
  <2> QED
    BY <1>1, <2>1, <2>2, <2>4
<1>3. /\ receipts' = [v \in Updates |-> [h \in Phases |-> receipts'[v][h]]]
      /\ receipts'[u]["rollback"] = Len(gens)
      /\ \A h \in Phases \ {"rollback"} : receipts'[u][h] = receipts[u][h]
      /\ \A v \in Updates \ {u} : receipts'[v] = receipts[v]
      /\ "rollback" # "plan" => PlansSound' /\ \A v \in Updates : Plan(v)' = Plan(v)
      /\ ActiveSound'
      /\ \A v \in Updates \ {u} : ReceiptOK(v)'
  <2>1. "rollback" \in Phases /\ Published(u, "rollback", Len(gens)) /\ OnlyReceipts
        /\ ("rollback" \in {"plan", "apply"} => receipts[u]["rollback"] = None)
    BY <1>2 DEF RollbackRecover, Phases, Plan
  <2> QED
    BY <1>2, <2>1, Recorded
<1>4. proc' = proc
  BY DEF RollbackRecover
<1>5. Typed'
  <2>1. UNCHANGED <<installed, gens, db, service, worker, backups, restored>>
        /\ lock' \in {lock, None}
    BY DEF RollbackRecover, OnlyReceipts
  <2>2. "rollback" # "plan"
    BY <1>2 DEF RollbackRecover
  <2>3. \A v \in Updates : Plan(v)' = Plan(v)
    BY <1>3, <2>2
  <2> QED
    BY <1>1, <1>3, <1>4, <2>1, <2>3 DEF Typed, TypeOK
<1>6. PlansSound'
  BY <1>2, <1>3 DEF RollbackRecover
<1>7. ReceiptOK(u)'
  <2>1. /\ receipts'[u].plan = receipts[u].plan /\ receipts'[u].apply = receipts[u].apply
        /\ receipts'[u].finalize = receipts[u].finalize
    BY <1>3 DEF Phases
  <2>2. receipts'[u].rollback = Len(gens)
    BY <1>3
  <2>3. ReceiptOK(u)
    BY <1>2 DEF IInv
  <2>5. UNCHANGED <<gens, backups>>
    BY DEF OnlyReceipts, RollbackRecover
  <2> QED
    <3>1. Len(gens') = Len(gens) /\ gens' = gens /\ backups' = backups
      BY <2>5
    <3>2. BackupBound(u, receipts[u].apply.bak)
      BY <1>2, <2>3 DEF ReceiptOK
    <3>3. BackupBound(u, receipts[u].apply.bak)'
      BY <2>1, <3>1, <3>2 DEF BackupBound, Plan, From
    <3>4. MatchesGeneration(gens[receipts[u].apply.gen], u, "update", receipts[u].apply.bak)'
      BY <1>2, <2>1, <2>3, <3>1 DEF ReceiptOK, MatchesGeneration, Plan, To, From
    <3>5. receipts'[u].rollback # 0 =>
             MatchesGeneration(gens[receipts[u].rollback], u, "rollback", receipts[u].apply.bak)'
      BY <1>1, <1>2, <2>1, <2>2, <2>3, <3>1 DEF ReceiptOK, MatchesGeneration, Plan, To, From, Active
    <3> QED
      <4>1. receipts[u].apply # None /\ receipts'[u].apply # None /\ receipts'[u].plan # None
            /\ receipts'[u].apply.gen \in 1..Len(gens') /\ receipts'[u].apply.bak \in Backups
        BY <1>2, <2>1, <2>3, <3>1 DEF ReceiptOK
      <4>2. receipts'[u].rollback \in 0..Len(gens')
            /\ (receipts'[u].rollback # 0 => receipts'[u].rollback > receipts'[u].apply.gen)
        <5>1. Len(gens') \in Nat /\ receipts'[u].apply.gen = receipts[u].apply.gen
              /\ receipts[u].apply.gen \in Nat
          BY <1>1, <2>1, <3>1, <4>1
        <5> QED
          BY <1>2, <2>2, <3>1, <5>1
      <4>3. receipts'[u].rollback_finalize => receipts'[u].rollback # 0
        <5>1. receipts[u].rollback_finalize => receipts[u].rollback # 0
          BY <2>3 DEF ReceiptOK
        <5> QED
          BY <1>1, <1>2, <2>1, <2>2, <5>1
      <4> QED
        BY <4>1, <4>2, <4>3, <3>3, <3>4, <3>5
        DEF ReceiptOK, MatchesGeneration, BackupBound, Plan, To, From
<1>8. \A q \in Ops : ProcOK(q)'
  BY <1>4, LockFree, Bystander DEF RollbackRecover
<1>9. ProcOK(o)'
  BY <1>8
<1> QED
  BY <1>3, <1>5, <1>6, <1>7, <1>8, <1>9 DEF IInv

LEMMA RollbackReceiptStep ==
    ASSUME IInv, NEW o \in Ops, RollbackReceipt(o)
    PROVE  IInv'
<1>1. Typed /\ ProcOK(o) /\ Len(gens) \in Nat /\ Len(gens) > 0
  BY ActiveTyped DEF IInv
<1>2. PICK u \in Updates :
      /\ u = proc[o].upd /\ Plan(u) # None /\ receipts[u].apply # None
      /\ MatchesGeneration(Active, u, "rollback", receipts[u].apply.bak)
      /\ receipts[u].apply.gen < Len(gens)
  BY <1>1 DEF RollbackReceipt, ProcOK, Reverts
<1>3. /\ receipts' = [v \in Updates |-> [h \in Phases |-> receipts'[v][h]]]
      /\ receipts'[u]["rollback"] = Len(gens)
      /\ \A h \in Phases \ {"rollback"} : receipts'[u][h] = receipts[u][h]
      /\ \A v \in Updates \ {u} : receipts'[v] = receipts[v]
      /\ "rollback" # "plan" => PlansSound' /\ \A v \in Updates : Plan(v)' = Plan(v)
      /\ ActiveSound'
      /\ \A v \in Updates \ {u} : ReceiptOK(v)'
  <2>1. "rollback" \in Phases /\ Published(u, "rollback", Len(gens)) /\ OnlyReceipts
        /\ ("rollback" \in {"plan", "apply"} => receipts[u]["rollback"] = None)
    BY <1>2 DEF RollbackReceipt, Phases, Plan
  <2> QED
    BY <1>2, <2>1, Recorded
<1>4. /\ proc' = [q \in Ops |-> [f \in Fields |-> proc'[q][f]]]
      /\ proc'[o] = Idle
      /\ \A q \in Ops \ {o} : proc'[q] = proc[q]
  <2>1. proc' = [proc EXCEPT ![o] = Idle]
    BY DEF RollbackReceipt
  <2> QED
    BY <1>1, <2>1, IdleTyped, Moved
<1>5. Typed'
  <2>1. UNCHANGED <<installed, gens, db, service, worker, backups, restored>>
        /\ lock' \in {lock, None}
    BY DEF RollbackReceipt, OnlyReceipts
  <2>2. "rollback" # "plan"
    BY <1>2 DEF RollbackReceipt
  <2>3. \A v \in Updates : Plan(v)' = Plan(v)
    BY <1>3, <2>2
  <2> QED
    BY <1>1, <1>3, <1>4, <2>1, <2>3 DEF Typed, TypeOK
<1>6. PlansSound'
  BY <1>2, <1>3 DEF RollbackReceipt
<1>7. ReceiptOK(u)'
  <2>1. /\ receipts'[u].plan = receipts[u].plan /\ receipts'[u].apply = receipts[u].apply
        /\ receipts'[u].finalize = receipts[u].finalize
    BY <1>3 DEF Phases
  <2>2. receipts'[u].rollback = Len(gens)
    BY <1>3
  <2>3. ReceiptOK(u)
    BY <1>2 DEF IInv
  <2>5. UNCHANGED <<gens, backups>>
    BY DEF OnlyReceipts, RollbackReceipt
  <2> QED
    <3>1. Len(gens') = Len(gens) /\ gens' = gens /\ backups' = backups
      BY <2>5
    <3>2. BackupBound(u, receipts[u].apply.bak)
      BY <1>2, <2>3 DEF ReceiptOK
    <3>3. BackupBound(u, receipts[u].apply.bak)'
      BY <2>1, <3>1, <3>2 DEF BackupBound, Plan, From
    <3>4. MatchesGeneration(gens[receipts[u].apply.gen], u, "update", receipts[u].apply.bak)'
      BY <1>2, <2>1, <2>3, <3>1 DEF ReceiptOK, MatchesGeneration, Plan, To, From
    <3>5. receipts'[u].rollback # 0 =>
             MatchesGeneration(gens[receipts[u].rollback], u, "rollback", receipts[u].apply.bak)'
      BY <1>1, <1>2, <2>1, <2>2, <2>3, <3>1 DEF ReceiptOK, MatchesGeneration, Plan, To, From, Active
    <3> QED
      <4>1. receipts[u].apply # None /\ receipts'[u].apply # None /\ receipts'[u].plan # None
            /\ receipts'[u].apply.gen \in 1..Len(gens') /\ receipts'[u].apply.bak \in Backups
        BY <1>2, <2>1, <2>3, <3>1 DEF ReceiptOK
      <4>2. receipts'[u].rollback \in 0..Len(gens')
            /\ (receipts'[u].rollback # 0 => receipts'[u].rollback > receipts'[u].apply.gen)
        <5>1. Len(gens') \in Nat /\ receipts'[u].apply.gen = receipts[u].apply.gen
              /\ receipts[u].apply.gen \in Nat
          BY <1>1, <2>1, <3>1, <4>1
        <5> QED
          BY <1>2, <2>2, <3>1, <5>1
      <4>3. receipts'[u].rollback_finalize => receipts'[u].rollback # 0
        <5>1. receipts[u].rollback_finalize => receipts[u].rollback # 0
          BY <2>3 DEF ReceiptOK
        <5> QED
          BY <1>1, <1>2, <2>1, <2>2, <5>1
      <4> QED
        BY <4>1, <4>2, <4>3, <3>3, <3>4, <3>5
        DEF ReceiptOK, MatchesGeneration, BackupBound, Plan, To, From
<1>8. \A q \in Ops \ {o} : ProcOK(q)'
  <2>1. proc[o].pc \in LockPcs
    BY DEF RollbackReceipt, LockPcs
  <2> QED
    BY <2>1, <1>4, LockMine, Bystander DEF RollbackReceipt
<1>9. ProcOK(o)'
  BY <1>4, IdleOK
<1> QED
  BY <1>3, <1>5, <1>6, <1>7, <1>8, <1>9 DEF IInv

LEMMA FinalizePublishStep ==
    ASSUME IInv, NEW o \in Ops, FinalizePublish(o)
    PROVE  IInv'
<1>1. Typed /\ ProcOK(o) /\ Len(gens) \in Nat /\ Len(gens) > 0
  BY ActiveTyped DEF IInv
<1>2. PICK u \in Updates :
      /\ u = proc[o].upd /\ receipts[u].apply # None
      /\ proc[o].op \in {"finalize", "rollback_finalize"}
      /\ (proc[o].op = "rollback_finalize" => receipts[u].rollback = Len(gens))
  BY <1>1 DEF FinalizePublish, FinalizeSnapshot, ProcOK
<1>3. /\ receipts' = [v \in Updates |-> [h \in Phases |-> receipts'[v][h]]]
      /\ receipts'[u][proc[o].op] = TRUE
      /\ \A h \in Phases \ {proc[o].op} : receipts'[u][h] = receipts[u][h]
      /\ \A v \in Updates \ {u} : receipts'[v] = receipts[v]
      /\ proc[o].op # "plan" => PlansSound' /\ \A v \in Updates : Plan(v)' = Plan(v)
      /\ ActiveSound'
      /\ \A v \in Updates \ {u} : ReceiptOK(v)'
  <2>1. proc[o].op \in Phases /\ Published(u, proc[o].op, TRUE) /\ OnlyReceipts
        /\ (proc[o].op \in {"plan", "apply"} => receipts[u][proc[o].op] = None)
    BY <1>2 DEF FinalizePublish, Phases, Plan
  <2> QED
    BY <1>2, <2>1, Recorded
<1>4. /\ proc' = [q \in Ops |-> [f \in Fields |-> proc'[q][f]]]
      /\ proc'[o] = Idle
      /\ \A q \in Ops \ {o} : proc'[q] = proc[q]
  <2>1. proc' = [proc EXCEPT ![o] = Idle]
    BY DEF FinalizePublish
  <2> QED
    BY <1>1, <2>1, IdleTyped, Moved
<1>5. Typed'
  <2>1. UNCHANGED <<installed, gens, db, service, worker, backups, restored>>
        /\ lock' \in {lock, None}
    BY DEF FinalizePublish, OnlyReceipts
  <2>2. proc[o].op # "plan"
    BY <1>2 DEF FinalizePublish
  <2>3. \A v \in Updates : Plan(v)' = Plan(v)
    BY <1>3, <2>2
  <2> QED
    BY <1>1, <1>3, <1>4, <2>1, <2>3 DEF Typed, TypeOK
<1>6. PlansSound'
  BY <1>2, <1>3 DEF FinalizePublish
<1>7. ReceiptOK(u)'
  <2>1. /\ receipts'[u].plan = receipts[u].plan /\ receipts'[u].apply = receipts[u].apply
        /\ receipts'[u].rollback = receipts[u].rollback
    BY <1>2, <1>3 DEF Phases
  <2>2. proc[o].op = "finalize" => receipts'[u].rollback_finalize = receipts[u].rollback_finalize
    BY <1>3 DEF Phases
  <2>3. ReceiptOK(u)
    BY <1>2 DEF IInv
  <2>5. UNCHANGED <<gens, backups>>
    BY DEF OnlyReceipts, FinalizePublish
  <2> QED
    <3>1. Len(gens') = Len(gens) /\ gens' = gens /\ backups' = backups
      BY <2>5
    <3>2. BackupBound(u, receipts[u].apply.bak)
      BY <1>2, <2>3 DEF ReceiptOK
    <3>3. BackupBound(u, receipts[u].apply.bak)'
      BY <2>1, <3>1, <3>2 DEF BackupBound, Plan, From
    <3>4. MatchesGeneration(gens[receipts[u].apply.gen], u, "update", receipts[u].apply.bak)'
      BY <1>2, <2>1, <2>3, <3>1 DEF ReceiptOK, MatchesGeneration, Plan, To, From
    <3>5. receipts'[u].rollback # 0 =>
             MatchesGeneration(gens[receipts[u].rollback], u, "rollback", receipts[u].apply.bak)'
      BY <1>1, <1>2, <2>1, <2>2, <2>3, <3>1 DEF ReceiptOK, MatchesGeneration, Plan, To, From, Active
    <3> QED
      <4>1. receipts[u].apply # None /\ receipts'[u].apply # None /\ receipts'[u].plan # None
            /\ receipts'[u].apply.gen \in 1..Len(gens') /\ receipts'[u].apply.bak \in Backups
        BY <1>2, <2>1, <2>3, <3>1 DEF ReceiptOK
      <4>2. receipts'[u].rollback \in 0..Len(gens')
            /\ (receipts'[u].rollback # 0 => receipts'[u].rollback > receipts'[u].apply.gen)
        BY <2>1, <2>3, <3>1 DEF ReceiptOK
      <4>3. receipts'[u].rollback_finalize => receipts'[u].rollback # 0
        <5>1. receipts[u].rollback_finalize => receipts[u].rollback # 0
          BY <2>3 DEF ReceiptOK
        <5>2. proc[o].op = "rollback_finalize" => receipts'[u].rollback # 0
          BY <1>1, <1>2, <2>1
        <5>3. CASE proc[o].op = "finalize"
          <6>1. receipts'[u].rollback_finalize => receipts[u].rollback_finalize
            BY <2>2, <5>3, Zenon
          <6> QED
            BY <2>1, <5>1, <6>1
        <5> QED
          BY <1>2, <5>2, <5>3
      <4> QED
        BY <4>1, <4>2, <4>3, <3>3, <3>4, <3>5
        DEF ReceiptOK, MatchesGeneration, BackupBound, Plan, To, From
<1>8. \A q \in Ops \ {o} : ProcOK(q)'
  BY <1>4, LockFree, Bystander DEF FinalizePublish
<1>9. ProcOK(o)'
  BY <1>4, IdleOK
<1> QED
  BY <1>3, <1>5, <1>6, <1>7, <1>8, <1>9 DEF IInv

LEMMA PreparePublishStep ==
    ASSUME IInv, NEW o \in Ops, PreparePublish(o)
    PROVE  IInv'
<1>1. Typed /\ ProcOK(o) /\ Len(gens) \in Nat /\ Len(gens) > 0
  BY ActiveTyped DEF IInv
<1>2. PICK u \in Updates : u = proc[o].upd /\ Plan(u) = None
  BY <1>1 DEF PreparePublish, ProcOK
<1>3. /\ receipts' = [v \in Updates |-> [h \in Phases |-> receipts'[v][h]]]
      /\ receipts'[u]["plan"] = [from |-> proc[o].bak, to |-> proc[o].to]
      /\ \A h \in Phases \ {"plan"} : receipts'[u][h] = receipts[u][h]
      /\ \A v \in Updates \ {u} : receipts'[v] = receipts[v]
      /\ "plan" # "plan" => PlansSound' /\ \A v \in Updates : Plan(v)' = Plan(v)
      /\ ActiveSound'
      /\ \A v \in Updates \ {u} : ReceiptOK(v)'
  <2>1. "plan" \in Phases /\ Published(u, "plan", [from |-> proc[o].bak, to |-> proc[o].to]) /\ OnlyReceipts
        /\ ("plan" \in {"plan", "apply"} => receipts[u]["plan"] = None)
    BY <1>2 DEF PreparePublish, Phases, Plan
  <2> QED
    BY <1>2, <2>1, Recorded
<1>4. /\ proc' = [q \in Ops |-> [f \in Fields |-> proc'[q][f]]]
      /\ proc'[o] = Idle
      /\ \A q \in Ops \ {o} : proc'[q] = proc[q]
  <2>1. proc' = [proc EXCEPT ![o] = Idle]
    BY DEF PreparePublish
  <2> QED
    BY <1>1, <2>1, IdleTyped, Moved
<1>5. Typed'
  <2>1. UNCHANGED <<installed, gens, db, service, worker, backups, restored>>
        /\ lock' = lock
    BY DEF PreparePublish, OnlyReceipts
  <2>2. \A v \in Updates : worker[v] # "none" => v # u /\ Plan(v) # None
    BY <1>1, <1>2 DEF Typed
  <2>3. \A v \in Updates : worker[v] # "none" => Plan(v)' # None
    BY <1>3, <2>2 DEF Plan
  <2> QED
    BY <1>1, <1>3, <1>4, <2>1, <2>3 DEF Typed, TypeOK
<1>6. PlansSound'
  <2>1. Active.rel \in Releases /\ installed \subseteq Releases
    BY <1>1, ActiveTyped DEF Typed, TypeOK
  <2>2. /\ proc[o].bak = Active.rel /\ proc[o].to \in Releases
        /\ HeadOf[proc[o].to] >= HeadOf[proc[o].bak]
    BY <2>1 DEF PreparePublish, Plannable
  <2>3. receipts'[u].plan.from = proc[o].bak /\ receipts'[u].plan.to = proc[o].to
    BY <1>3
  <2>4. \A v \in Updates \ {u} : receipts'[v].plan = receipts[v].plan
    BY <1>3
  <2> QED
    BY <2>1, <2>2, <2>3, <2>4 DEF IInv, PlansSound, Plan, To, From
<1>7. ReceiptOK(u)'
  <2>1. /\ receipts'[u].apply = receipts[u].apply /\ receipts'[u].rollback = receipts[u].rollback
        /\ receipts'[u].finalize = receipts[u].finalize
        /\ receipts'[u].rollback_finalize = receipts[u].rollback_finalize
    BY <1>3 DEF Phases
  <2>2. ReceiptOK(u)
    BY <1>2 DEF IInv
  <2>3. receipts[u].apply = None /\ receipts[u].rollback = 0
    BY <1>2, <2>2 DEF ReceiptOK, Plan
  <2>5. UNCHANGED <<gens, backups>>
    BY DEF OnlyReceipts, PreparePublish
  <2> QED
    BY <1>1, <1>2, <2>1, <2>2, <2>3, <2>5 DEF ReceiptOK
<1>8. \A q \in Ops \ {o} : ProcOK(q)'
  BY <1>4, LockFree, Bystander DEF PreparePublish
<1>9. ProcOK(o)'
  BY <1>4, IdleOK
<1> QED
  BY <1>3, <1>5, <1>6, <1>7, <1>8, <1>9 DEF IInv

----------------------------------------------------------------------------
\* The pointer moves: the new generation is the active one.

LEMMA ApplySwitchStep ==
    ASSUME IInv, NEW o \in Ops, ApplySwitch(o)
    PROVE  IInv'
<1>1. /\ Typed /\ ProcOK(o) /\ proc[o] = [f \in Fields |-> proc[o][f]]
      /\ Active.rel \in Releases /\ Len(gens) \in Nat /\ Len(gens) > 0
  BY ActiveTyped DEF IInv, Typed
<1>2. PICK u \in Updates, b \in Backups :
      /\ u = proc[o].upd /\ b = proc[o].bak /\ Plan(u) # None /\ service = None
      /\ BackupBound(u, b) /\ receipts[u].apply = None
      /\ Active.rel = From(u) /\ db = HeadOf[To(u)]
  BY <1>1 DEF ApplySwitch, ProcOK, Applies
<1>3. To(u) \in Releases
  BY <1>2 DEF IInv, PlansSound
<1> DEFINE g == Generation(To(u), "update", u, b)
<1>4. /\ g \in Gens /\ g.rel = To(u) /\ g.prev = From(u) /\ g.reason = "update"
      /\ g.upd = u /\ g.bak = b
  BY <1>1, <1>2, <1>3 DEF Generation, Gens, Active
<1>5. gens' = Append(gens, g)
  BY <1>2 DEF ApplySwitch, Activated
<1> HIDE DEF g
<1>6. /\ gens' \in Seq(Gens) /\ Len(gens') = Len(gens) + 1
      /\ \A i \in 1..Len(gens) : gens'[i] = gens[i]
      /\ Active' = g
  BY <1>1, <1>4, <1>5, Grown
<1>7. UNCHANGED <<installed, db, service, lock, worker, receipts, backups, restored>>
  BY DEF ApplySwitch
<1> DEFINE x == [proc[o] EXCEPT !.pc = "receipt"]
<1>8. /\ x = [f \in Fields |-> x[f]]
      /\ x.op = proc[o].op /\ x.pc = "receipt" /\ x.upd = u /\ x.bak = b
  BY <1>1, <1>2 DEF Fields
<1>9. proc' = [proc EXCEPT ![o] = x]
  BY <1>1 DEF ApplySwitch, Typed
<1> HIDE DEF x
<1>10. /\ proc' = [q \in Ops |-> [f \in Fields |-> proc'[q][f]]]
       /\ proc'[o] = x
       /\ \A q \in Ops \ {o} : proc'[q] = proc[q]
  BY <1>1, <1>8, <1>9, Moved
<1>11. Typed'
  BY <1>1, <1>6, <1>7, <1>10 DEF Typed, TypeOK, Plan
<1>12. Kept
  BY <1>7 DEF Kept, Plan
<1>13. PlansSound'
  BY <1>7 DEF IInv, PlansSound, Plan, From, To
<1>14. \A v \in Updates : ReceiptOK(v)'
  BY <1>1, <1>6, <1>7, <1>12, ReceiptKept
<1>15. Plan(u)' = Plan(u) /\ To(u)' = To(u) /\ From(u)' = From(u) /\ receipts'[u] = receipts[u]
  BY <1>7 DEF Plan, To, From
<1>16. ActiveSound'
  <2>1. BackupBound(u, b)'
    BY <1>2, <1>7 DEF BackupBound, Plan, From
  <2>2. MatchesGeneration(Active, u, "update", b)'
    BY <1>4, <1>6, <1>15 DEF MatchesGeneration
  <2>3. db' = HeadOf[To(u)] /\ HeadOf[To(u)] \in Nat
    BY <1>2, <1>3, <1>7, HostAssumption
  <2> QED
    BY <1>2, <1>4, <1>6, <1>7, <1>15, <2>1, <2>2, <2>3
    DEF ActiveSound, ActiveUpdate, ActiveRollback, ActiveServed
<1>17. \A q \in Ops \ {o} : ProcOK(q)'
  <2>1. proc[o].pc \in LockPcs
    BY DEF ApplySwitch, LockPcs
  <2> QED
    BY <2>1, <1>10, LockMine, Bystander
<1>18. ProcOK(o)'
  <2>1. proc[o].pc \in LockPcs /\ proc[o].op = "apply" /\ lock = o
    BY <1>1 DEF ApplySwitch, LockPcs, ProcOK
  <2>2. Applies(o)'
    BY <1>2, <1>4, <1>6, <1>7, <1>8, <1>10, <1>15, <2>1 DEF Applies, MatchesGeneration, BackupBound
  <2> QED
    BY <1>7, <1>8, <1>10, <2>1, <2>2 DEF ProcOK, BacksUp, Reverts
<1> QED
  BY <1>11, <1>13, <1>14, <1>16, <1>17, <1>18 DEF IInv

LEMMA RollbackSwitchStep ==
    ASSUME IInv, NEW o \in Ops, RollbackSwitch(o)
    PROVE  IInv'
<1>1. /\ Typed /\ ProcOK(o) /\ proc[o] = [f \in Fields |-> proc[o][f]]
      /\ Active.rel \in Releases /\ Len(gens) \in Nat /\ Len(gens) > 0
  BY ActiveTyped DEF IInv, Typed
<1>2. PICK u \in Updates, b \in Backups :
      /\ u = proc[o].upd /\ b = proc[o].bak /\ Plan(u) # None /\ service = None
      /\ receipts[u].apply # None /\ b = receipts[u].apply.bak
      /\ Active.rel = To(u) /\ receipts[u].apply.gen = Len(gens) /\ db >= HeadOf[To(u)]
  BY <1>1 DEF RollbackSwitch, ProcOK, Reverts
<1>3. From(u) \in Releases
  BY <1>2 DEF IInv, PlansSound
<1> DEFINE g == Generation(From(u), "rollback", u, b)
<1>4. /\ g \in Gens /\ g.rel = From(u) /\ g.prev = To(u) /\ g.reason = "rollback"
      /\ g.upd = u /\ g.bak = b
  BY <1>1, <1>2, <1>3 DEF Generation, Gens, Active
<1>5. gens' = Append(gens, g)
  BY <1>2 DEF RollbackSwitch, Activated
<1> HIDE DEF g
<1>6. /\ gens' \in Seq(Gens) /\ Len(gens') = Len(gens) + 1
      /\ \A i \in 1..Len(gens) : gens'[i] = gens[i]
      /\ Active' = g
  BY <1>1, <1>4, <1>5, Grown
<1>7. UNCHANGED <<installed, db, service, lock, worker, receipts, backups, restored>>
  BY DEF RollbackSwitch
<1> DEFINE x == [proc[o] EXCEPT !.pc = "receipt"]
<1>8. /\ x = [f \in Fields |-> x[f]]
      /\ x.op = proc[o].op /\ x.pc = "receipt" /\ x.upd = u /\ x.bak = b
  BY <1>1, <1>2 DEF Fields
<1>9. proc' = [proc EXCEPT ![o] = x]
  BY <1>1 DEF RollbackSwitch, Typed
<1> HIDE DEF x
<1>10. /\ proc' = [q \in Ops |-> [f \in Fields |-> proc'[q][f]]]
       /\ proc'[o] = x
       /\ \A q \in Ops \ {o} : proc'[q] = proc[q]
  BY <1>1, <1>8, <1>9, Moved
<1>11. Typed'
  BY <1>1, <1>6, <1>7, <1>10 DEF Typed, TypeOK, Plan
<1>12. Kept
  BY <1>7 DEF Kept, Plan
<1>13. PlansSound'
  BY <1>7 DEF IInv, PlansSound, Plan, From, To
<1>14. \A v \in Updates : ReceiptOK(v)'
  BY <1>1, <1>6, <1>7, <1>12, ReceiptKept
<1>15. Plan(u)' = Plan(u) /\ To(u)' = To(u) /\ From(u)' = From(u) /\ receipts'[u] = receipts[u]
  BY <1>7 DEF Plan, To, From
<1>16. ActiveSound'
  <2>2. MatchesGeneration(Active, u, "rollback", receipts[u].apply.bak)'
    BY <1>2, <1>4, <1>6, <1>15 DEF MatchesGeneration
  <2>3. /\ db' = db /\ db \in Nat /\ db >= HeadOf[To(u)] /\ HeadOf[To(u)] >= HeadOf[From(u)]
        /\ HeadOf[To(u)] \in Nat /\ HeadOf[From(u)] \in Nat
    BY <1>1, <1>2, <1>3, <1>7, HostAssumption DEF IInv, PlansSound, Typed, TypeOK
  <2> QED
    BY <1>2, <1>4, <1>6, <1>7, <1>15, <2>2, <2>3
    DEF ActiveSound, ActiveUpdate, ActiveRollback, ActiveServed
<1>17. \A q \in Ops \ {o} : ProcOK(q)'
  <2>1. proc[o].pc \in LockPcs
    BY DEF RollbackSwitch, LockPcs
  <2> QED
    BY <2>1, <1>10, LockMine, Bystander
<1>18. ProcOK(o)'
  <2>1. proc[o].pc \in LockPcs /\ proc[o].op = "rollback" /\ lock = o
    BY <1>1 DEF RollbackSwitch, LockPcs, ProcOK
  <2>2. Reverts(o)'
    BY <1>1, <1>2, <1>4, <1>6, <1>7, <1>8, <1>10, <1>15, <2>1, SMTT(30)
    DEF Reverts, MatchesGeneration
  <2> QED
    BY <1>7, <1>8, <1>10, <2>1, <2>2 DEF ProcOK, BacksUp, Applies
<1> QED
  BY <1>11, <1>13, <1>14, <1>16, <1>17, <1>18 DEF IInv

----------------------------------------------------------------------------

LEMMA NextIInv == IInv /\ [Next]_vars => IInv'
<1> SUFFICES ASSUME IInv, [Next]_vars PROVE IInv'
  OBVIOUS
<1>1. CASE UNCHANGED vars
  <2>1. /\ UNCHANGED <<installed, gens, db, service, lock>>
        /\ UNCHANGED <<proc, worker, receipts, backups, restored>>
    BY <1>1 DEF vars
  <2>2. Typed /\ db \in Nat
    BY DEF IInv, Typed, TypeOK
  <2>3. Typed'
    BY <2>1, <2>2 DEF Typed, TypeOK, Plan
  <2>4. PlansSound' /\ ActiveSound' /\ \A v \in Updates : ReceiptOK(v)'
    BY <2>1, <2>2, Steady
  <2>5. \A q \in Ops : ProcOK(q)'
    BY <2>1, <2>2, Bystander
  <2> QED
    BY <2>3, <2>4, <2>5 DEF IInv
<1>2. CASE Host
  BY <1>2, InstalledStep, ActivateReleaseStep, SchemaInitStep, ServiceStartStep, ServiceStopStep,
     ServiceRespawnStep, RebootStep, RestoreStep, WorkerCommitsStep, WorkerFailsStep,
     DatabaseCommitsStep DEF Host
<1>3. ASSUME NEW o \in Ops, Command(o)
      PROVE  IInv'
  BY <1>3, BackupStartStep, BackupDumpStep, BackupPublishStep, LookStep, ProbeStep, SettleStep,
     PrepareStartStep, PreparePublishStep, ApplyRecoverStep, ApplyStartStep, MigratedStep,
     ApplySwitchStep, ApplyReceiptStep, RollbackRecoverStep, RollbackStartStep,
     RollbackSwitchStep, RollbackReceiptStep, FinalizeStartStep, FinalizePublishStep,
     AbandonStep DEF Command
<1> QED
  BY <1>1, <1>2, <1>3 DEF Next

\* IInv holds in every state of every behaviour.
THEOREM HostInvariant == Spec => []IInv
BY InitIInv, NextIInv, PTL DEF Spec

\* No release that an update or a rollback put in charge meets a database older
\* than its migrations, for any releases, plans and operators, at whichever
\* step commands are killed and launchd starts the service.
THEOREM HostNewCodeNeverOnOldSchema == Spec => []NewCodeNeverOnOldSchema
<1>1. IInv => NewCodeNeverOnOldSchema
  BY DEF IInv, ActiveSound, ActiveServed, NewCodeNeverOnOldSchema
<1> QED
  BY <1>1, HostInvariant, PTL

\* A restore succeeds only of a backup there is, whose dump carries the head it
\* was made for.
RestoresSound ==
    /\ restored = [b \in Backups |-> restored[b]]
    /\ \A b \in Backups : restored[b] = "completed" =>
          backups[b] # None /\ backups[b].dump = backups[b].head

\* No other command touches a backup or the outcome of a restore.
LEMMA OnlyBackups ==
    ASSUME [Next]_vars
    PROVE  \/ UNCHANGED <<backups, restored>>
           \/ \E b \in Backups : Restore(b)
           \/ \E o \in Ops : BackupPublish(o)
<1>1. CASE UNCHANGED vars
  BY <1>1 DEF vars
<1>2. CASE Host
  BY <1>2 DEF Host, Install, ActivateRelease, SchemaInit, ServiceStart, ServiceStop, ServiceRespawn,
     Reboot, WorkerCommits, WorkerFails, DatabaseCommits
<1>3. ASSUME NEW o \in Ops, Command(o), ~BackupPublish(o) PROVE UNCHANGED <<backups, restored>>
  BY <1>3, ZenonT(40)
     DEF Command, BackupStart, BackupDump, Look, Probe, Settle, PrepareStart, PreparePublish,
         ApplyRecover, ApplyStart, Migrated, ApplySwitch, ApplyReceipt, RollbackRecover, RollbackStart,
         RollbackSwitch, RollbackReceipt, FinalizeStart, FinalizePublish, Abandon, deployment,
         OnlyReceipts
<1> QED
  BY <1>1, <1>2, <1>3 DEF Next

LEMMA RestoresStep == IInv /\ RestoresSound /\ [Next]_vars => RestoresSound'
<1> SUFFICES ASSUME IInv, RestoresSound, [Next]_vars PROVE RestoresSound'
  OBVIOUS
<1>1. CASE UNCHANGED <<backups, restored>>
  BY <1>1 DEF RestoresSound
<1>2. ASSUME NEW b \in Backups, Restore(b) PROVE RestoresSound'
  <2>1. /\ backups[b] # None /\ backups' = backups
        /\ restored' = [restored EXCEPT ![b] =
               IF backups[b].dump = backups[b].head THEN "completed" ELSE "incomplete"]
    BY <1>2 DEF Restore, Restorable
  <2> QED
    BY <2>1 DEF RestoresSound
<1>3. ASSUME NEW o \in Ops, BackupPublish(o) PROVE RestoresSound'
  <2> DEFINE b == proc[o].bak
  <2>1. b \in Backups /\ backups[b] = None
    BY <1>3 DEF BackupPublish, IInv, ProcOK, BacksUp
  <2>2. restored[b] # "completed"
    BY <2>1 DEF RestoresSound
  <2>3. restored' = restored /\ \A d \in Backups \ {b} : backups'[d] = backups[d]
    BY <1>3 DEF BackupPublish, IInv, Typed
  <2> QED
    BY <2>2, <2>3 DEF RestoresSound
<1> QED
  BY <1>1, <1>2, <1>3, OnlyBackups

\* Every receipt names the generation its plan activated, whatever a command
\* left behind can be taken up again by the same update, and where the backup
\* it rests on was restored, the backup is of the release the update left.
THEOREM HostEvidenceHolds == Spec => []EvidenceHolds
<1>1. IInv => ReceiptsTruthful
  BY DEF IInv, ReceiptOK, ReceiptsTruthful, Plan
<1>2. IInv => Resumable
  BY DEF IInv, ActiveSound, ActiveUpdate, ActiveRollback, Resumable
<1>3. IInv /\ RestoresSound => RestoresTruthful
  <2> SUFFICES ASSUME IInv, RestoresSound, NEW u \in Updates, receipts[u].apply # None,
                      restored[receipts[u].apply.bak] = "completed"
               PROVE  LET b == receipts[u].apply.bak
                      IN  backups[b].rel = From(u) /\ backups[b].dump = HeadOf[From(u)]
    BY DEF RestoresTruthful
  <2>1. receipts[u].apply.bak \in Backups /\ BackupBound(u, receipts[u].apply.bak)
    BY DEF IInv, ReceiptOK
  <2> QED
    BY <2>1 DEF RestoresSound, BackupBound
<1>4. IInv /\ RestoresSound => EvidenceHolds
  BY <1>1, <1>2, <1>3 DEF EvidenceHolds
<1>5. Init => RestoresSound
  BY DEF Init, RestoresSound
<1> QED
  BY <1>4, <1>5, RestoresStep, HostInvariant, PTL DEF Spec

\* An update is recorded as finalized only while the service runs the release
\* it installed, although the probes do not ask for it.
THEOREM HostFinalizeSeesNewCode == Spec => FinalizeSeesNewCode
<1> DEFINE Sees == \A u \in Updates :
             receipts'[u].finalize /\ ~receipts[u].finalize => service = To(u)
<1>1. IInv /\ [Next]_vars => Sees
  <2> SUFFICES ASSUME IInv, [Next]_vars, NEW u \in Updates,
                      receipts'[u].finalize, ~receipts[u].finalize
               PROVE  service = To(u)
    BY DEF Sees
  <2>1. Typed /\ receipts' # receipts
    BY DEF IInv
  <2>2. PICK o \in Ops : \/ PreparePublish(o) \/ ApplyReceipt(o) \/ RollbackReceipt(o)
                         \/ FinalizePublish(o)
                         \/ \E v \in Updates : RollbackRecover(o, v)
                         \/ \E v \in Updates, b \in Backups : ApplyRecover(o, v, b)
    BY <2>1, ZenonT(40)
    DEF Next, Host, Command, vars, Install, ActivateRelease, SchemaInit, ServiceStart,
       ServiceStop, ServiceRespawn, Reboot, Restore, WorkerCommits, WorkerFails, DatabaseCommits,
       BackupStart, BackupDump, BackupPublish, Look, Probe, Settle, PrepareStart, ApplyStart,
       Migrated, ApplySwitch, RollbackStart, RollbackSwitch, FinalizeStart, Abandon, deployment
  <2>3. \A x : \A v \in Updates, f \in Phases \ {"finalize"} : ~Published(v, f, x)
    <3> SUFFICES ASSUME NEW x, NEW v \in Updates, NEW f \in Phases \ {"finalize"},
                        Published(v, f, x)
                 PROVE  FALSE
      OBVIOUS
    <3>1. receipts'[u].finalize = receipts[u].finalize
      BY <2>1, OnePhase DEF Phases
    <3> QED
      BY <3>1
  <2>4. FinalizePublish(o) /\ proc[o].upd \in Updates /\ proc[o].op = "finalize"
    <3>1. ProcOK(o)
      BY DEF IInv
    <3>2. ~PreparePublish(o)
      BY <2>3, <3>1 DEF PreparePublish, ProcOK, Phases
    <3>3. ~ApplyReceipt(o)
      BY <2>3, <3>1 DEF ApplyReceipt, ProcOK, Applies, Phases
    <3>4. ~RollbackReceipt(o)
      BY <2>3, <3>1 DEF RollbackReceipt, ProcOK, Reverts, Phases
    <3>5. /\ \A v \in Updates : ~RollbackRecover(o, v)
          /\ \A v \in Updates, b \in Backups : ~ApplyRecover(o, v, b)
      BY <2>3 DEF RollbackRecover, ApplyRecover, Phases
    <3>6. FinalizePublish(o)
      BY <2>2, <3>2, <3>3, <3>4, <3>5
    <3>7. proc[o].upd \in Updates
      BY <3>1, <3>6 DEF FinalizePublish, ProcOK
    <3>8. proc[o].op # "rollback_finalize"
      BY <2>3, <3>6, <3>7 DEF FinalizePublish, Phases
    <3> QED
      BY <3>6, <3>7, <3>8 DEF FinalizePublish
  <2>5. proc[o].upd = u
    <3>1. PICK v \in Updates : v = proc[o].upd /\ Published(v, "finalize", TRUE)
      BY <2>4 DEF FinalizePublish
    <3>3. \E x : Published(v, "finalize", x)
      BY <3>1, Zenon
    <3>2. u # v => receipts'[u] = receipts[u]
      BY <2>1, <3>3, OnePhase DEF Phases
    <3> QED
      BY <3>1, <3>2
  <2>6. Active.rel = To(u) /\ Active.reason = "update" /\ service # None
    BY <2>4, <2>5 DEF FinalizePublish, FinalizeSnapshot, MatchesGeneration
  <2> QED
    BY <2>6 DEF IInv, ActiveSound, ActiveServed
<1>2. Sees => [Sees]_vars
  OBVIOUS
<1> QED
  BY <1>1, HostInvariant, PTL DEF Spec, FinalizeSeesNewCode

-----------------------------------------------------------------------------
(* Models.                                                                 *)


\* Whole receipts.
Vouched == {d \in Manifests : Present(modelReceipts[d])}

Installing == At("import") \/ At("create") \/ At("read")

\* The names a running installation has still to read from the daemon.
Unread == command.left \cup (IF At("import") THEN {} ELSE {command.name})

CommandFields == {"at", "bundle", "left", "name", "got"}

ModelsTyped ==
    /\ active \in Manifests
    /\ command = [f \in CommandFields |-> command[f]]
    /\ request = [f \in {"at", "digest"} |-> request[f]]
    /\ tags = [n \in Names |-> tags[n]]
    /\ manifests = [d \in Manifests |-> manifests[d]]
    /\ modelReceipts = [d \in Manifests |-> modelReceipts[d]]
    /\ \A i \in imports : i = [f \in {"name", "source", "own"} |-> i[f]]

\* What a whole receipt says is so.
ReceiptsTrue ==
    \A d \in Vouched :
        /\ manifests[d] = "whole"
        /\ RuntimeValid /\ modelReceipts[d].runtime = runtime
        /\ \A n \in Names \ late : modelReceipts[d].tags[n] \in {Absent, tags[n]}

\* runtime.json is written once: to its end, before anything relies on it.
RuntimeFirst == At("runtime") => ~Present(runtime)

\* An installation works on a whole runtime, for a manifest without receipt,
\* on names no receipt vouches for; what it has read is still so, and it has
\* one import at most.
InstallationSound ==
    /\ Installing =>
        /\ command.bundle \in Bundles
        /\ RuntimeValid /\ command.bundle.runtime = runtime
        /\ command.bundle.manifest \notin Vouched
        /\ \A n \in DOMAIN command.bundle.models \ late, d \in Vouched :
              modelReceipts[d].tags[n] = Absent
        /\ Unread \subseteq DOMAIN command.bundle.models
        /\ command.got = [n \in Names |-> command.got[n]]
        /\ \A n \in Names : command.got[n] # Absent => n \notin Unread
        /\ \A n \in Names \ late : command.got[n] \in {Absent, tags[n]}
    /\ At("read") \/ At("create") => command.name \notin command.left
    /\ \A i \in imports : i.own =>
        /\ At("create")
        /\ i = [name |-> command.name, source |-> command.bundle.models[command.name], own |-> TRUE]

\* The receipt a request has checked does not go.
RequestSound == request.at \in {"receipt", "tags"} => request.digest \in Vouched

ModelsInv == ModelsTyped /\ ReceiptsTrue /\ RuntimeFirst /\ InstallationSound /\ RequestSound

LEMMA ModelsInitInv == ProvisioningAssumption /\ ModelsInit => ModelsInv
<1> SUFFICES ASSUME ProvisioningAssumption, ModelsInit PROVE ModelsInv
  OBVIOUS
<1>1. Vouched = {}
  BY DEF ModelsInit, Vouched, Present
<1>2. command.at = "free" /\ imports = {} /\ request.at = "idle"
  BY DEF ModelsInit, NoCommand, NewCommand, NoRequest
<1>3. ModelsTyped
  BY DEF ModelsInit, ModelsTyped, CommandFields, NoCommand, NewCommand, NoRequest, NoTags
<1> QED
  BY <1>1, <1>2, <1>3
     DEF ModelsInv, ReceiptsTrue, RuntimeFirst, At, InstallationSound, Installing, RequestSound

\* A step that leaves the files, the tags and the late names alone, and no
\* installation running that was not.
LEMMA FilesStay ==
    ASSUME ModelsInv, ModelsTyped',
           UNCHANGED <<runtime, dirs, manifests, modelReceipts, tags, late>>,
           RuntimeFirst', InstallationSound', request' = request \/ RequestSound'
    PROVE  ModelsInv'
BY DEF ModelsInv, ReceiptsTrue, Vouched, Present, RuntimeValid, RequestSound

\* A command that holds no lock, or is not installing models, owes nothing.
LEMMA NothingOwed ==
    ASSUME ~Installing', \A i \in imports' : ~i.own
    PROVE  InstallationSound'
BY DEF InstallationSound, Installing, At

LEMMA OnlyCreatesOwn ==
    ASSUME ModelsInv, ~At("create") PROVE \A i \in imports : ~i.own
BY DEF ModelsInv, InstallationSound

LEMMA ModelsStep == ASSUME ProvisioningAssumption, ModelsInv, [ModelsNext]_modelVars PROVE ModelsInv'
<1>1. ASSUME NEW b \in Bundles, MoveRuntime(b) PROVE ModelsInv'
  BY <1>1, OnlyCreatesOwn
     DEF MoveRuntime, Free, ModelsInv, ModelsTyped, CommandFields, NewCommand, NoTags,
         ReceiptsTrue, Vouched, Present, RuntimeValid, RuntimeFirst, At, InstallationSound,
         Installing, RequestSound
<1>2. ASSUME NEW b \in Bundles, StartModels(b) PROVE ModelsInv'
  <2>1. command' = [at |-> "import", bundle |-> b, left |-> DOMAIN b.models, name |-> Absent, got |-> NoTags]
    BY <1>2 DEF StartModels, NewCommand
  <2>2. UNCHANGED <<runtime, dirs, manifests, modelReceipts, tags, late, imports, request, active>>
    BY <1>2 DEF StartModels, files
  <2>3. RuntimeValid /\ b.runtime = runtime /\ b.manifest \notin Vouched
    BY <1>2 DEF StartModels, ServiceValid, Vouched, Present
  <2>4. \A n \in DOMAIN b.models \ late, d \in Vouched : modelReceipts[d].tags[n] = Absent
    BY <1>2 DEF StartModels, NamesFree, ModelsInv, ReceiptsTrue, ProvisioningAssumption
  <2>5. \A i \in imports : ~i.own
    BY <1>2, OnlyCreatesOwn DEF StartModels, Free, At
  <2>6. ModelsTyped'
    BY <2>1, <2>2 DEF ModelsInv, ModelsTyped, CommandFields
  <2>7. InstallationSound'
    BY <2>1, <2>2, <2>3, <2>4, <2>5
       DEF InstallationSound, Installing, At, Unread, NoTags, Vouched, RuntimeValid, Present
  <2> QED
    BY <2>1, <2>2, <2>6, <2>7, FilesStay DEF RuntimeFirst, At
<1>3. CASE WriteRuntime
  BY <1>3, OnlyCreatesOwn
     DEF WriteRuntime, NoCommand, ModelsInv, ModelsTyped, CommandFields, NewCommand, NoTags,
         ReceiptsTrue, Vouched, Present, RuntimeValid, RuntimeFirst, At, InstallationSound,
         Installing, RequestSound
<1>4. CASE InstallService \/ PublishPlist \/ Launch \/ SwitchRelease
  BY <1>4, OnlyCreatesOwn, FilesStay, NothingOwed
     DEF InstallService, PublishPlist, Launch, SwitchRelease, Free, NoCommand, ModelsInv,
         ModelsTyped, CommandFields, NewCommand, NoTags, RuntimeFirst, At, Installing,
         RequestSound, files
<1>5. CASE WriteService
  BY <1>5, OnlyCreatesOwn, FilesStay, NothingOwed
     DEF WriteService, ModelsInv, ModelsTyped, RuntimeFirst, At, Installing
<1>6. CASE StartImport
  <2>1. PICK n \in command.left :
          /\ imports' = imports \cup {[name |-> n, source |-> command.bundle.models[n], own |-> TRUE]}
          /\ command' = [command EXCEPT !.at = "create", !.left = @ \ {n}, !.name = n]
    BY <1>6 DEF StartImport
  <2>2. At("import") /\ UNCHANGED <<runtime, dirs, manifests, modelReceipts, tags, late, request, active>>
    BY <1>6 DEF StartImport, files
  <2>3. command' = [at |-> "create", bundle |-> command.bundle, left |-> command.left \ {n},
                    name |-> n, got |-> command.got]
    BY <2>1 DEF ModelsInv, ModelsTyped, CommandFields
  <2>4. \A i \in imports : ~i.own
    BY <2>2, OnlyCreatesOwn DEF At
  <2>5. ModelsTyped'
    BY <2>1, <2>2, <2>3 DEF ModelsInv, ModelsTyped, CommandFields
  <2>6. InstallationSound'
    BY <2>1, <2>2, <2>3, <2>4
       DEF ModelsInv, InstallationSound, Installing, At, Unread, Vouched, RuntimeValid, Present
  <2> QED
    BY <2>2, <2>3, <2>5, <2>6, FilesStay DEF RuntimeFirst, At
<1>7. CASE ImportEnds
  <2>1. PICK i \in imports : i.own /\ tags' = [tags EXCEPT ![i.name] = i.source] /\ imports' = imports \ {i}
    BY <1>7 DEF ImportEnds
  <2>2. At("create") /\ UNCHANGED <<runtime, dirs, manifests, modelReceipts, late, request, active>>
    BY <1>7 DEF ImportEnds, files
  <2>3. command' = [at |-> "read", bundle |-> command.bundle, left |-> command.left,
                    name |-> command.name, got |-> command.got]
    BY <1>7 DEF ImportEnds, ModelsInv, ModelsTyped, CommandFields
  <2>4. i.name = command.name /\ \A o \in imports \ {i} : ~o.own
    <3> DEFINE import ==
          [name |-> command.name, source |-> command.bundle.models[command.name], own |-> TRUE]
    <3>1. \A o \in imports : o.own => o = import
      BY DEF ModelsInv, InstallationSound
    <3>2. i = import
      BY <2>1, <3>1
    <3>3. import.name = command.name
      OBVIOUS
    <3> HIDE DEF import
    <3> QED
      BY <3>1, <3>2, <3>3
  <2>5. command.name \in DOMAIN command.bundle.models /\ command.got[command.name] = Absent
    BY <2>2 DEF ModelsInv, InstallationSound, Installing, Unread, At, ProvisioningAssumption
  <2>6. \A n \in Names : n # command.name => tags'[n] = tags[n]
    BY <2>1, <2>4 DEF ModelsInv, ModelsTyped
  <2>7. ModelsTyped'
    BY <2>1, <2>2, <2>3 DEF ModelsInv, ModelsTyped, CommandFields
  <2>8. Vouched' = Vouched
    BY <2>2 DEF Vouched
  <2>9. ReceiptsTrue'
    BY <2>2, <2>5, <2>6, <2>8
       DEF ModelsInv, ReceiptsTrue, InstallationSound, Installing, RuntimeValid, Present
  <2>10. InstallationSound'
    BY <2>1, <2>2, <2>3, <2>4, <2>5, <2>6, <2>8
       DEF ModelsInv, InstallationSound, Installing, At, Unread, RuntimeValid, Present
  <2> QED
    BY <2>2, <2>3, <2>7, <2>8, <2>9, <2>10 DEF ModelsInv, RuntimeFirst, RequestSound, At
<1>8. CASE ReadTag
  <2>1. At("read") /\ UNCHANGED <<runtime, dirs, manifests, modelReceipts, tags, late, imports, request, active>>
    BY <1>8 DEF ReadTag, files
  <2>2. command' = [at |-> "import", bundle |-> command.bundle, left |-> command.left,
                    name |-> command.name,
                    got |-> [command.got EXCEPT ![command.name] = tags[command.name]]]
    BY <1>8 DEF ReadTag, ModelsInv, ModelsTyped, CommandFields
  <2>3. \A i \in imports : ~i.own
    BY <2>1, OnlyCreatesOwn DEF At
  <2>4. ModelsTyped'
    BY <2>1, <2>2 DEF ModelsInv, ModelsTyped, CommandFields
  <2>5. InstallationSound'
    BY <2>1, <2>2, <2>3
       DEF ModelsInv, InstallationSound, Installing, At, Unread, Vouched, RuntimeValid, Present
  <2> QED
    BY <2>1, <2>2, <2>4, <2>5, FilesStay DEF RuntimeFirst, At
<1>9. CASE WriteManifest
  BY <1>9, OnlyCreatesOwn
     DEF WriteManifest, ModelsInv, ModelsTyped, CommandFields, ReceiptsTrue, Vouched, Present,
         RuntimeValid, RuntimeFirst, At, InstallationSound, Installing, Unread, RequestSound
<1>10. CASE WriteReceipt
  BY <1>10, OnlyCreatesOwn
     DEF WriteReceipt, ModelsInv, ModelsTyped, CommandFields, ReceiptsTrue, NewCommand,
         NoCommand, Vouched, Present, RuntimeValid, RuntimeFirst, At, InstallationSound,
         Installing, Unread, RequestSound, ProvisioningAssumption
<1>11. CASE Fail \/ Killed \/ Restart
  BY <1>11, FilesStay, NothingOwed
     DEF Fail, Killed, Restart, Free, NoCommand, ModelsInv, ModelsTyped, CommandFields,
         NewCommand, NoTags, RuntimeFirst, At, Installing, RequestSound, NoRequest, files
<1>12. CASE OrphanEnds
  BY <1>12
     DEF OrphanEnds, ModelsInv, ModelsTyped, CommandFields, ReceiptsTrue, Vouched, Present,
         RuntimeValid, RuntimeFirst, At, InstallationSound, Installing, Unread, RequestSound,
         files
<1>13. CASE CleanUp
  BY <1>13, OnlyCreatesOwn
     DEF CleanUp, Free, ModelsInv, ModelsTyped, CommandFields, ReceiptsTrue, Vouched, Present,
         RuntimeValid, RuntimeFirst, At, InstallationSound, Installing, RequestSound
<1>14. CASE CheckReceipt \/ CheckTags \/ GoesOut \/ ReleaseChanged
  BY <1>14
     DEF CheckReceipt, CheckTags, GoesOut, ReleaseChanged, NoRequest, ModelsInv, ModelsTyped,
         CommandFields, ReceiptsTrue, Vouched, Present, RuntimeValid, RuntimeFirst, At,
         InstallationSound, Installing, Unread, RequestSound, files
<1>15. CASE UNCHANGED modelVars
  BY <1>15
     DEF modelVars, ModelsInv, ModelsTyped, CommandFields, ReceiptsTrue, Vouched, Present,
         RuntimeValid, RuntimeFirst, At, InstallationSound, Installing, Unread, RequestSound,
         files
<1> QED
  BY <1>1, <1>2, <1>3, <1>4, <1>5, <1>6, <1>7, <1>8, <1>9, <1>10, <1>11, <1>12, <1>13, <1>14,
     <1>15
     DEF ModelsNext

\* What a receipt vouches for is on the host (ModelsPinned) for any bundles,
\* names and manifests, whatever fails, is killed or outlives its command: a
\* request that has checked its receipt still has it.
THEOREM ReceiptsStayTrue == ASSUME ProvisioningAssumption PROVE ModelsSpec => []ModelsPinned
<1>1. ModelsInv => ModelsPinned
  BY DEF ModelsInv, ReceiptsTrue, Vouched, RequestSound, RuntimeValid, ModelsPinned
<1>2. ModelsInv /\ [ModelsNext]_modelVars => ModelsInv'
  BY ModelsStep
<1> QED
  BY ModelsInitInv, <1>1, <1>2, PTL DEF ModelsSpec

-----------------------------------------------------------------------------
(* Releases.                                                               *)


FileKinds == {"artifact", "manifest", "sums"}
Busy(b) == build[b].pc \in {"create", "write"}

\* What a file of a kind holds: nothing whole, or what one build put there.
ManifestOf(f, data) == IF f = "manifest" THEN data ELSE data.manifest
DataSound(f, data) ==
    data # Partial => FromCommit(ManifestOf(f, data)) /\ data = Data(ManifestOf(f, data), f)

IsOut(o) ==
    /\ o = [d \in Dirs |-> o[d]]
    /\ \A d \in Dirs : o[d] = [n \in DOMAIN o[d] |-> [f \in {"by", "data"} |-> o[d][n][f]]]
IsBuild(r) == r = [f \in {"pc", "dir", "manifest", "created"} |-> r[f]]

BuildsTyped ==
    /\ IsOut(out)
    /\ build = [b \in Builds |-> build[b]]
    /\ \A b \in Builds : IsBuild(build[b])

FilesSound ==
    \A d \in Dirs : \A n \in DOMAIN out[d] :
        \E f \in FileKinds : n[1] = f /\ DataSound(f, out[d][n].data)

\* The file of a kind that run b created for release id in directory d, or has
\* lost to the operator.
InPlace(d, b, id, f, data) ==
    \/ <<b, f>> \in removed
    \/ Exists(d, Name(id, f)) /\ out[d][Name(id, f)] = [by |-> b, data |-> data]
Owns(b, f, data) == InPlace(build[b].dir, b, Release(build[b].manifest), f, data)

\* A build at work has a sound manifest, goes through its files in order, and
\* has those it has created; the checksums are its last.
RunSound(b) ==
    /\ Busy(b) =>
        /\ build[b].dir \in Dirs /\ FromCommit(build[b].manifest)
        /\ build[b].created \in Seq(FileKinds) /\ Len(build[b].created) =< 2
        /\ \A j \in 1..Len(build[b].created) :
              Owns(b, FileOrder[j], Data(build[b].manifest, FileOrder[j]))
        /\ build[b].pc = "write" => Owns(b, Current(b), Partial)
    /\ build[b].pc = "idle" \/ Busy(b) =>
        \A d \in Dirs : Mine(b, d, <<"sums">>) =>
            /\ build[b].pc = "write" /\ Current(b) = "sums" /\ d = build[b].dir
            /\ out[d][<<"sums">>].data = Partial

BuildsInv == BuildsTyped /\ FilesSound /\ BuildsStayWhole /\ \A b \in Builds : RunSound(b)

\* One artifact, manifest and checksums that belong together.
Whole(r) ==
    /\ FromCommit(r.manifest)
    /\ r.artifact = Artifact(r.manifest) /\ r.sums = Data(r.manifest, "sums")

IsBundler(r) ==
    r = [f \in {"pc", "dir", "runtime", "release", "artifact", "manifest", "sums"} |-> r[f]]

BundlerSound(k) ==
    LET r == bundler[k] IN
    /\ IsBundler(r)
    /\ r.pc \in {"manifest", "sums", "verify"} => DataSound("artifact", r.artifact)
    /\ r.pc \in {"sums", "verify"} => DataSound("manifest", r.manifest)
    /\ r.pc = "verify" => DataSound("sums", r.sums)
    /\ r.pc = "fetch" => Whole(r) /\ Release(r.manifest) = r.release

IsDeployment(dm) ==
    /\ Whole(dm)
    /\ dm = [artifact |-> dm.artifact, manifest |-> dm.manifest, sums |-> dm.sums,
             runtime |-> dm.runtime, wheels |-> WheelsOf(Tree[dm.artifact.source].lock, dm.runtime)]

BundleSound(at) ==
    bundles[at] # Nil =>
        /\ IsDeployment(bundles[at].deployment) /\ bundles[at] = Bundle(bundles[at].deployment)
        /\ Release(bundles[at].manifest) = at[2]

BundlesInv ==
    /\ bundler = [k \in Bundlers |-> bundler[k]]
    /\ \A k \in Bundlers : BundlerSound(k)
    /\ bundles = [at \in Dirs \X Ids |-> bundles[at]]
    /\ \A at \in Dirs \X Ids : BundleSound(at)

IsMedium(v) == v = [f \in {"deployment", "artifact", "manifest", "sums", "wheels"} |-> v[f]]
MediumSound ==
    IsMedium(medium) /\ (medium.deployment \notin {Nil, Partial} => IsDeployment(medium.deployment))

\* What an installer has read and checked.
InstallerSound(i) ==
    LET r == installer[i] IN
    /\ r = [f \in {"pc", "plan", "checked", "stage", "wheels"} |-> r[f]]
    /\ r.pc \in {"check", "runtime", "extract", "compare", "wheels", "publish"} =>
          IsDeployment(r.plan)
    /\ r.pc \in {"extract", "compare", "wheels", "publish"} => r.plan.runtime = HostRuntime
    /\ r.pc \in {"compare", "wheels", "publish"} => r.stage = r.plan.artifact
    /\ r.pc = "publish" => r.wheels = r.plan.wheels

TreeSound(id) ==
    LET v == trees[id] IN
    v # Nil =>
        /\ v = [f \in {"app", "wheels", "class", "bundle", "whole"} |-> v[f]]
        /\ FromCommit(v.app.manifest) /\ Release(v.app.manifest) = id
        /\ v.app = Artifact(v.app.manifest)
        /\ v.class = v.app.manifest.class
        /\ v.wheels = WheelsOf(Tree[v.app.source].lock, HostRuntime)

HostInv ==
    /\ MediumSound
    /\ installer = [i \in Installs |-> installer[i]]
    /\ \A i \in Installs : InstallerSound(i)
    /\ trees = [id \in Ids |-> trees[id]]
    /\ \A id \in Ids : TreeSound(id)

PipelineInv == BuildsInv /\ BundlesInv /\ HostInv

-----------------------------------------------------------------------------
(* Names and files.                                                        *)

LEMMA NameIs ==
    ASSUME NEW id, NEW f \in FileKinds
    PROVE  /\ Name(id, f)[1] = f
           /\ f = "sums" => Name(id, f) = <<"sums">>
           /\ f # "sums" => Name(id, f) # <<"sums">>
BY DEF Name, FileKinds

LEMMA FileOrderIs ==
    FileOrder[1] = "artifact" /\ FileOrder[2] = "manifest" /\ FileOrder[3] = "sums"
BY DEF FileOrder

LEMMA DataIsSound ==
    ASSUME NEW m, FromCommit(m), NEW f \in FileKinds PROVE DataSound(f, Data(m, f))
BY DEF DataSound, ManifestOf, Data, Artifact, FileKinds

LEMMA Stored ==
    ASSUME NEW o, IsOut(o), NEW d \in Dirs, NEW n, NEW b, NEW data
    PROVE  LET s == Store(o, d, n, [by |-> b, data |-> data]) IN
           /\ IsOut(s) /\ s[d][n] = [by |-> b, data |-> data]
           /\ DOMAIN s[d] = DOMAIN o[d] \cup {n}
           /\ \A x \in DOMAIN o[d] : x # n => s[d][x] = o[d][x]
           /\ \A e \in Dirs : e # d => s[e] = o[e]
<1> DEFINE s == Store(o, d, n, [by |-> b, data |-> data])
<1>1. s = [e \in Dirs |-> s[e]] /\ \A e \in Dirs : e # d => s[e] = o[e]
  BY DEF Store, IsOut
<1>2. s[d] = [x \in DOMAIN o[d] \cup {n} |-> IF x = n THEN [by |-> b, data |-> data] ELSE o[d][x]]
  BY DEF Store, IsOut
<1>3. \A e \in Dirs : s[e] = [x \in DOMAIN s[e] |-> [f \in {"by", "data"} |-> s[e][x][f]]]
  BY <1>1, <1>2 DEF IsOut
<1> QED
  BY <1>1, <1>2, <1>3 DEF IsOut

LEMMA Dropped ==
    ASSUME NEW o, IsOut(o), NEW d \in Dirs, NEW N
    PROVE  LET s == Drop(o, d, N) IN
           /\ IsOut(s)
           /\ DOMAIN s[d] = DOMAIN o[d] \ N
           /\ \A x \in DOMAIN s[d] : s[d][x] = o[d][x]
           /\ \A e \in Dirs : e # d => s[e] = o[e]
<1> DEFINE s == Drop(o, d, N)
<1>1. s = [e \in Dirs |-> s[e]] /\ \A e \in Dirs : e # d => s[e] = o[e]
  BY DEF Drop, IsOut
<1>2. s[d] = [x \in DOMAIN o[d] \ N |-> o[d][x]]
  BY DEF Drop, IsOut
<1>3. \A e \in Dirs : s[e] = [x \in DOMAIN s[e] |-> [f \in {"by", "data"} |-> s[e][x][f]]]
  BY <1>1, <1>2 DEF IsOut
<1> QED
  BY <1>1, <1>2, <1>3 DEF IsOut

-----------------------------------------------------------------------------
(* Builds.                                                                 *)

\* The checksums of directory d, when they are whole, have their files.
WholeAt(d) ==
    LET sums == out[d][<<"sums">>] IN
    Exists(d, <<"sums">>) /\ sums.data # Partial =>
        \A f \in {"artifact", "manifest"} :
            InPlace(d, sums.by, Release(sums.data.manifest), f, Data(sums.data.manifest, f))

LEMMA WholeIs == BuildsStayWhole <=> \A d \in Dirs : WholeAt(d)
BY DEF BuildsStayWhole, WholeAt, InPlace, Name

LEMMA WholeIsNext == BuildsStayWhole' <=> \A d \in Dirs : WholeAt(d)'
BY DEF BuildsStayWhole, WholeAt, InPlace, Name

\* A run goes on, touching its own files only.
LEMMA RunGoesOn ==
    ASSUME BuildsInv, NEW b \in Builds, build[b].pc = "idle" \/ Busy(b),
           NEW r, IsBuild(r), build' = [build EXCEPT ![b] = r], removed' = removed,
           IsOut(out'),
           \A d \in Dirs : \A n \in DOMAIN out[d] :
              out[d][n].by # b => n \in DOMAIN out'[d] /\ out'[d][n] = out[d][n],
           \A d \in Dirs : \A n \in DOMAIN out'[d] :
              \/ n \in DOMAIN out[d] /\ out'[d][n] = out[d][n]
              \/ /\ out'[d][n].by = b
                 /\ \E f \in FileKinds : n[1] = f /\ DataSound(f, out'[d][n].data),
           RunSound(b)',
           \A d \in Dirs : Mine(b, d, <<"sums">>)' => WholeAt(d)'
    PROVE  BuildsInv'
<1>1. BuildsTyped'
  BY DEF BuildsInv, BuildsTyped
<1>2. FilesSound'
  BY DEF BuildsInv, FilesSound
<1>3. ASSUME NEW o \in Builds, o # b PROVE RunSound(o)'
  <2>1. build'[o] = build[o]
    BY <1>3 DEF BuildsInv, BuildsTyped
  <2>2. \A d \in Dirs : \A n : Mine(o, d, n)' => Mine(o, d, n) /\ out'[d][n] = out[d][n]
    BY <1>3 DEF Mine, Exists
  <2>3. \A f, data : build[o].dir \in Dirs /\ Owns(o, f, data) => Owns(o, f, data)'
    BY <1>3, <2>1 DEF Owns, Exists, InPlace
  <2> QED
    BY <2>1, <2>2, <2>3 DEF BuildsInv, RunSound, Busy, Current
<1>4. ASSUME NEW d \in Dirs PROVE WholeAt(d)'
  <2>1. CASE Mine(b, d, <<"sums">>)'
    BY <2>1
  <2>2. ASSUME ~Mine(b, d, <<"sums">>)', Exists(d, <<"sums">>)' PROVE WholeAt(d)'
    <3>1. Exists(d, <<"sums">>) /\ out'[d][<<"sums">>] = out[d][<<"sums">>]
      BY <2>2 DEF Mine, Exists
    <3>2. out[d][<<"sums">>].by # b
      BY <2>2, <3>1 DEF Mine, Exists
    <3>3. WholeAt(d)
      BY WholeIs DEF BuildsInv
    <3> QED
      BY <3>1, <3>2, <3>3 DEF WholeAt, Exists, InPlace
  <2> QED
    BY <2>1, <2>2 DEF WholeAt, InPlace
<1> QED
  BY <1>1, <1>2, <1>3, <1>4, WholeIsNext DEF BuildsInv

LEMMA RunOver ==
    ASSUME NEW b \in Builds, BuildsTyped, build' = [build EXCEPT ![b] = NoBuild("over")]
    PROVE  IsBuild(NoBuild("over")) /\ RunSound(b)'
BY DEF NoBuild, IsBuild, RunSound, Busy, BuildsTyped

LEMMA Short ==
    ASSUME NEW S, NEW c \in Seq(S), Len(c) =< 2
    PROVE  Len(c) \in {0, 1, 2} /\ \A j \in 1..Len(c) : j \in {1, 2}
<1>1. Len(c) \in Nat
  OBVIOUS
<1>2. \A n \in Nat : n =< 2 => n \in {0, 1, 2} /\ \A j \in 1..n : j \in {1, 2}
  OBVIOUS
<1> QED
  BY <1>1, <1>2

LEMMA CreatedIs ==
    ASSUME NEW b \in Builds, RunSound(b), Busy(b)
    PROVE  /\ Current(b) \in FileKinds
           /\ Len(build[b].created) \in {0, 1, 2}
           /\ Current(b) = FileOrder[Len(build[b].created) + 1]
           /\ Current(b) = "sums" <=> Len(build[b].created) = 2
<1>1. Len(build[b].created) \in {0, 1, 2}
  BY Short DEF RunSound
<1>2. CASE Len(build[b].created) = 0
  BY <1>2, FileOrderIs DEF Current, FileKinds
<1>3. CASE Len(build[b].created) = 1
  BY <1>3, FileOrderIs DEF Current, FileKinds
<1>4. CASE Len(build[b].created) = 2
  BY <1>4, FileOrderIs DEF Current, FileKinds
<1> QED
  BY <1>1, <1>2, <1>3, <1>4 DEF Current

\* A run that fails removes some of its own files, and nothing of others.
LEMMA CleanedUp ==
    ASSUME BuildsInv, NEW b \in Builds, Busy(b), NEW own
    PROVE  LET o == Cleanup(b, own) IN
           /\ IsOut(o)
           /\ \A d \in Dirs : \A n \in DOMAIN out[d] :
                 out[d][n].by # b => n \in DOMAIN o[d] /\ o[d][n] = out[d][n]
           /\ \A d \in Dirs : \A n \in DOMAIN o[d] : n \in DOMAIN out[d] /\ o[d][n] = out[d][n]
<1> DEFINE d == build[b].dir
           N == {n \in own : Mine(b, d, n)}
<1>1. d \in Dirs /\ IsOut(out)
  BY DEF BuildsInv, BuildsTyped, RunSound
<1>2. Cleanup(b, own) = Drop(out, d, N)
  BY DEF Cleanup
<1>3. \A n \in N : out[d][n].by = b
  BY DEF Mine
<1> HIDE DEF N, d
<1> QED
  BY <1>1, <1>2, <1>3, Dropped

\* What a run that ends has at its name can be no checksums of others.
LEMMA NoWholeSums ==
    ASSUME BuildsInv, NEW b \in Builds, build[b].pc = "idle" \/ Busy(b), NEW d \in Dirs,
           Mine(b, d, <<"sums">>)
    PROVE  out[d][<<"sums">>].data = Partial
BY DEF BuildsInv, RunSound

LEMMA CleanUpStep ==
    ASSUME BuildsInv, NEW b \in Builds, Busy(b), NEW own, removed' = removed,
           out' = Cleanup(b, own), build' = [build EXCEPT ![b] = NoBuild("over")]
    PROVE  BuildsInv'
<1>1. /\ IsOut(out')
      /\ \A d \in Dirs : \A n \in DOMAIN out[d] :
            out[d][n].by # b => n \in DOMAIN out'[d] /\ out'[d][n] = out[d][n]
      /\ \A d \in Dirs : \A n \in DOMAIN out'[d] : n \in DOMAIN out[d] /\ out'[d][n] = out[d][n]
  BY CleanedUp
<1>2. ASSUME NEW d \in Dirs, Mine(b, d, <<"sums">>)' PROVE WholeAt(d)'
  <2>1. Mine(b, d, <<"sums">>) /\ out'[d][<<"sums">>] = out[d][<<"sums">>]
    BY <1>1, <1>2 DEF Mine, Exists
  <2> QED
    BY <2>1, NoWholeSums DEF WholeAt, InPlace
<1> QED
  BY <1>1, <1>2, RunOver, RunGoesOn DEF BuildsInv

LEMMA BuildStartStep ==
    ASSUME BuildsInv, PipelineAssumption, NEW b \in Builds, BuildStart(b) PROVE BuildsInv'
<1>1. PICK o \in BuildOrders :
        LET m == Manifest(b, o.commit, o.class)
            free == \A j \in 1..3 : ~Exists(o.dir, Name(Release(m), FileOrder[j]))
        IN build' = [build EXCEPT ![b] =
             IF Buildable(o.commit) /\ free
             THEN [pc |-> "create", dir |-> o.dir, manifest |-> m, created |-> <<>>]
             ELSE NoBuild("over")]
  BY DEF BuildStart
<1> DEFINE m == Manifest(b, o.commit, o.class)
           r == [pc |-> "create", dir |-> o.dir, manifest |-> m, created |-> <<>>]
<1>2. build[b].pc = "idle" /\ out' = out /\ removed' = removed
  BY DEF BuildStart
<1>3. CASE build' = [build EXCEPT ![b] = NoBuild("over")]
  BY <1>2, <1>3, RunOver, RunGoesOn, NoWholeSums DEF BuildsInv, BuildsTyped, WholeAt, Mine, Exists, InPlace
<1>4. CASE Buildable(o.commit) /\ build' = [build EXCEPT ![b] = r]
  <2>1. build'[b] = r /\ IsBuild(r)
    BY <1>4 DEF BuildsInv, BuildsTyped, IsBuild
  <2>2. FromCommit(m)
    BY <1>4 DEF FromCommit, Manifest, Buildable
  <2>3. o.dir \in Dirs
    BY DEF PipelineAssumption
  <2>4. RunSound(b)'
    BY <1>2, <2>1, <2>2, <2>3 DEF BuildsInv, RunSound, Busy, Mine, Exists
  <2> QED
    BY <1>2, <1>4, <2>1, <2>4, RunGoesOn, NoWholeSums
       DEF BuildsInv, BuildsTyped, WholeAt, Mine, Exists, InPlace
<1> QED
  BY <1>1, <1>3, <1>4

LEMMA BuildCreateStep == ASSUME BuildsInv, NEW b \in Builds, BuildCreate(b) PROVE BuildsInv'
<1> DEFINE d == build[b].dir
           m == build[b].manifest
           f == Current(b)
           name == Name(Release(m), f)
<1>1. /\ Busy(b) /\ build[b].pc = "create" /\ removed' = removed
      /\ d \in Dirs /\ IsOut(out) /\ f \in FileKinds /\ FromCommit(m)
  BY CreatedIs DEF BuildCreate, Busy, BuildsInv, BuildsTyped, RunSound
<1>2. name[1] = f /\ (f = "sums" <=> name = <<"sums">>)
  BY <1>1, NameIs
<1>3. \A x : DataSound(f, Partial)
  BY DEF DataSound
<1>4. CASE /\ ~Exists(d, name)
           /\ out' = Store(out, d, name, [by |-> b, data |-> Partial])
           /\ build' = [build EXCEPT ![b].pc = "write"]
  <2>1. /\ IsOut(out') /\ out'[d][name] = [by |-> b, data |-> Partial]
        /\ DOMAIN out'[d] = DOMAIN out[d] \cup {name}
        /\ \A x \in DOMAIN out[d] : out'[d][x] = out[d][x]
        /\ \A e \in Dirs : e # d => out'[e] = out[e]
    BY <1>1, <1>4, Stored DEF Exists
  <2>2. build' = [build EXCEPT ![b] = build'[b]] /\ IsBuild(build'[b])
        /\ build'[b] = [pc |-> "write", dir |-> d, manifest |-> m, created |-> build[b].created]
    BY <1>4 DEF BuildsInv, BuildsTyped, IsBuild
  <2>3. Current(b)' = f
    BY <2>2 DEF Current
  <2>4. \A g, data : Owns(b, g, data) => Owns(b, g, data)'
    BY <1>1, <2>1, <2>2 DEF Owns, Exists, InPlace
  <2>5. Owns(b, f, Partial)'
    BY <1>1, <2>1, <2>2, <2>3 DEF Owns, Exists, InPlace
  <2>6. \A e \in Dirs : Mine(b, e, <<"sums">>)' => f = "sums" /\ e = d /\ out'[e][<<"sums">>].data = Partial
    BY <1>1, <1>2, <2>1 DEF BuildsInv, RunSound, Busy, Mine, Exists
  <2>7. RunSound(b)'
    BY <1>1, <2>2, <2>3, <2>4, <2>5, <2>6 DEF BuildsInv, RunSound, Busy
  <2>8. \A e \in Dirs : Mine(b, e, <<"sums">>)' => WholeAt(e)'
    BY <2>6 DEF WholeAt, InPlace
  <2> QED
    BY <1>1, <1>2, <1>3, <2>1, <2>2, <2>7, <2>8, RunGoesOn
<1>5. CASE out' = Cleanup(b, Written(b)) /\ build' = [build EXCEPT ![b] = NoBuild("over")]
  BY <1>1, <1>5, CleanUpStep
<1>6. CASE /\ ~Exists(d, name)
           /\ out' = Store(Cleanup(b, Written(b)), d, name, [by |-> b, data |-> Partial])
           /\ build' = [build EXCEPT ![b] = NoBuild("over")]
  <2> DEFINE o == Cleanup(b, Written(b))
  <2>1. /\ IsOut(o)
        /\ \A e \in Dirs : \A n \in DOMAIN out[e] :
              out[e][n].by # b => n \in DOMAIN o[e] /\ o[e][n] = out[e][n]
        /\ \A e \in Dirs : \A n \in DOMAIN o[e] : n \in DOMAIN out[e] /\ o[e][n] = out[e][n]
    BY <1>1, CleanedUp
  <2> HIDE DEF o
  <2>2. /\ IsOut(out') /\ out'[d][name] = [by |-> b, data |-> Partial]
        /\ DOMAIN out'[d] = DOMAIN o[d] \cup {name}
        /\ \A x \in DOMAIN o[d] : x # name => out'[d][x] = o[d][x]
        /\ \A e \in Dirs : e # d => out'[e] = o[e]
    BY <1>1, <1>6, <2>1, Stored DEF o
  <2>3. \A e \in Dirs : \A n \in DOMAIN out'[e] :
           \/ n \in DOMAIN out[e] /\ out'[e][n] = out[e][n]
           \/ e = d /\ n = name
    BY <2>1, <2>2
  <2>4. \A e \in Dirs : \A n \in DOMAIN out[e] :
           out[e][n].by # b => n \in DOMAIN out'[e] /\ out'[e][n] = out[e][n]
    BY <1>6, <2>1, <2>2 DEF Exists
  <2>5. \A e \in Dirs : Mine(b, e, <<"sums">>)' => out'[e][<<"sums">>].data = Partial
    BY <1>1, <2>2, <2>3, NoWholeSums DEF Mine, Exists
  <2>6. \A e \in Dirs : Mine(b, e, <<"sums">>)' => WholeAt(e)'
    BY <2>5 DEF WholeAt, InPlace
  <2>7. \A e \in Dirs : \A n \in DOMAIN out'[e] :
           \/ n \in DOMAIN out[e] /\ out'[e][n] = out[e][n]
           \/ /\ out'[e][n].by = b
              /\ \E g \in FileKinds : n[1] = g /\ DataSound(g, out'[e][n].data)
    BY <1>1, <1>2, <1>3, <2>2, <2>3
  <2> QED
    BY <1>1, <1>6, <2>2, <2>4, <2>6, <2>7, RunOver, RunGoesOn DEF BuildsInv
<1> QED
  BY <1>1, <1>4, <1>5, <1>6 DEF BuildCreate

LEMMA Lengthened ==
    ASSUME NEW b \in Builds, RunSound(b), Busy(b), Current(b) # "sums"
    PROVE  LET g == Append(build[b].created, Current(b)) IN
           /\ g \in Seq(FileKinds) /\ Len(g) =< 2
           /\ \A j \in 1..Len(g) : FileOrder[j] = Current(b) \/ j \in 1..Len(build[b].created)
<1> DEFINE c == build[b].created
<1>1. c \in Seq(FileKinds) /\ Current(b) \in FileKinds /\ Len(c) \in {0, 1}
      /\ Current(b) = FileOrder[Len(c) + 1]
  BY CreatedIs DEF RunSound
<1> HIDE DEF c
<1>2. Append(c, Current(b)) \in Seq(FileKinds) /\ Len(Append(c, Current(b))) = Len(c) + 1
  BY <1>1
<1>3. \A n \in {0, 1} : n + 1 =< 2 /\ \A j \in 1..(n + 1) : j = n + 1 \/ j \in 1..n
  OBVIOUS
<1>4. /\ Len(Append(c, Current(b))) =< 2
      /\ \A j \in 1..Len(Append(c, Current(b))) : FileOrder[j] = Current(b) \/ j \in 1..Len(c)
  BY <1>1, <1>2, <1>3
<1> QED
  BY <1>2, <1>4 DEF c

\* Writing a file that exists changes what that one file holds.
Rewrite(d, name, data) == [out EXCEPT ![d][name].data = data]

IsRewrite(o, b, d, name, data) ==
    /\ IsOut(o) /\ o[d][name] = [by |-> b, data |-> data]
    /\ \A e \in Dirs : DOMAIN o[e] = DOMAIN out[e]
    /\ \A e \in Dirs : \A n \in DOMAIN out[e] : o[e][n] = out[e][n] \/ (e = d /\ n = name)

LEMMA Rewritten ==
    ASSUME IsOut(out), NEW b, NEW d \in Dirs, NEW name, NEW data, Mine(b, d, name)
    PROVE  IsRewrite(Rewrite(d, name, data), b, d, name, data)
<1> DEFINE w == Rewrite(d, name, data)
<1>1. name \in DOMAIN out[d] /\ out[d][name].by = b
  BY DEF Mine, Exists
<1>2. out[d][name] = [by |-> b, data |-> out[d][name].data]
  BY <1>1 DEF IsOut
<1>3. w = [out EXCEPT ![d] = [out[d] EXCEPT ![name] = [out[d][name] EXCEPT !.data = data]]]
  BY DEF Rewrite
<1>4. [out[d][name] EXCEPT !.data = data] = [by |-> b, data |-> data]
  BY <1>2
<1>5. w[d] = [out[d] EXCEPT ![name] = [by |-> b, data |-> data]]
  BY <1>3, <1>4 DEF IsOut
<1>6. w = [e \in Dirs |-> w[e]] /\ \A e \in Dirs : e # d => w[e] = out[e]
  BY <1>3 DEF IsOut
<1> HIDE DEF w
<1>7. /\ w[d] = [x \in DOMAIN w[d] |-> w[d][x]]
      /\ DOMAIN w[d] = DOMAIN out[d] /\ w[d][name] = [by |-> b, data |-> data]
      /\ \A n \in DOMAIN out[d] : n # name => w[d][n] = out[d][n]
  BY <1>1, <1>5 DEF IsOut
<1>8. w[d] = [x \in DOMAIN w[d] |-> [g \in {"by", "data"} |-> w[d][x][g]]]
  <2>1. \A x \in DOMAIN out[d] : w[d][x] = [g \in {"by", "data"} |-> w[d][x][g]]
    BY <1>7 DEF IsOut
  <2> QED
    BY <1>7, <2>1
<1>9. IsOut(w)
  BY <1>6, <1>8 DEF IsOut
<1> QED
  BY <1>6, <1>7, <1>9 DEF w, IsRewrite

LEMMA BuildWriteStep == ASSUME BuildsInv, NEW b \in Builds, BuildWrite(b) PROVE BuildsInv'
<1>0. PICK d, m, f, name :
        d = build[b].dir /\ m = build[b].manifest /\ f = Current(b) /\ name = Name(Release(m), f)
  OBVIOUS
<1> DEFINE written == IF Mine(b, d, name)
                             THEN [out EXCEPT ![d][name].data = Data(m, f)] ELSE out
<1>1. /\ Busy(b) /\ build[b].pc = "write" /\ removed' = removed
      /\ d \in Dirs /\ IsOut(out) /\ f \in FileKinds /\ FromCommit(m)
      /\ Owns(b, f, Partial) /\ RunSound(b)
  BY <1>0, CreatedIs DEF BuildWrite, Busy, BuildsInv, BuildsTyped, RunSound
<1>2. name[1] = f /\ (f = "sums" <=> name = <<"sums">>)
  BY <1>0, <1>1, NameIs
<1>3. /\ IsOut(written)
      /\ \A e \in Dirs : DOMAIN written[e] = DOMAIN out[e]
      /\ \A e \in Dirs : \A n \in DOMAIN out[e] : written[e][n] = out[e][n] \/ (e = d /\ n = name)
      /\ Mine(b, d, name) => written[d][name] = [by |-> b, data |-> Data(m, f)]
      /\ ~Mine(b, d, name) => written = out
  <2>1. CASE Mine(b, d, name)
    <3>1. written = Rewrite(d, name, Data(m, f))
      BY <2>1 DEF Rewrite
    <3>2. IsRewrite(Rewrite(d, name, Data(m, f)), b, d, name, Data(m, f))
      BY <1>1, <2>1, Rewritten
    <3> HIDE DEF written
    <3> QED
      BY <2>1, <3>1, <3>2 DEF IsRewrite
  <2>2. CASE ~Mine(b, d, name)
    <3>1. written = out
      BY <2>2
    <3> HIDE DEF written
    <3> QED
      BY <1>0, <1>1, <2>2, <3>1
  <2> QED
    BY <2>1, <2>2
<1> HIDE DEF written
<1>4. ~Mine(b, d, name) => <<b, f>> \in removed
  BY <1>0, <1>1 DEF Owns, Mine, InPlace
<1>5. f # "sums" => \A e \in Dirs : ~Mine(b, e, <<"sums">>)
  BY <1>0, <1>1 DEF BuildsInv, RunSound, Busy
<1>6. ASSUME out' = written
      PROVE  /\ IsOut(out')
             /\ \A e \in Dirs : \A n \in DOMAIN out[e] :
                   out[e][n].by # b => n \in DOMAIN out'[e] /\ out'[e][n] = out[e][n]
             /\ \A e \in Dirs : \A n \in DOMAIN out'[e] :
                   \/ n \in DOMAIN out[e] /\ out'[e][n] = out[e][n]
                   \/ /\ out'[e][n].by = b
                      /\ \E g \in FileKinds : n[1] = g /\ DataSound(g, out'[e][n].data)
             /\ f # "sums" => \A e \in Dirs : ~Mine(b, e, <<"sums">>)'
  <2>1. DataSound(f, Data(m, f))
    BY <1>0, <1>1, DataIsSound
  <2>2. ASSUME Mine(b, d, name)
        PROVE  /\ out[d][name].by = b /\ out'[d][name].by = b
               /\ DataSound(f, out'[d][name].data)
    <3>1. out'[d][name] = [by |-> b, data |-> Data(m, f)]
      BY <1>3, <1>6, <2>2
    <3> QED
      BY <2>1, <2>2, <3>1 DEF Mine
  <2>3. \A e \in Dirs : \A n \in DOMAIN out[e] : out'[e][n] = out[e][n] \/ (e = d /\ n = name /\ Mine(b, d, name))
    BY <1>0, <1>3, <1>6
  <2>4. \A e \in Dirs : DOMAIN out'[e] = DOMAIN out[e]
    BY <1>0, <1>3, <1>6
  <2>5. IsOut(out')
    BY <1>0, <1>3, <1>6
  <2>6. f # "sums" => \A e \in Dirs : ~Mine(b, e, <<"sums">>)'
    BY <1>0, <1>2, <1>5, <2>3, <2>4 DEF Mine, Exists
  <2> QED
    BY <1>0, <1>1, <1>2, <2>2, <2>3, <2>4, <2>5, <2>6
<1>7. CASE out' = written /\ f # "sums"
           /\ build' = [build EXCEPT ![b] = [build[b] EXCEPT !.created = Append(@, f), !.pc = "create"]]
  <2> DEFINE g == Append(build[b].created, f)
  <2>1. /\ IsBuild(build'[b]) /\ build' = [build EXCEPT ![b] = build'[b]]
        /\ build'[b] = [pc |-> "create", dir |-> d, manifest |-> m, created |-> g]
    BY <1>0, <1>7 DEF BuildsInv, BuildsTyped, IsBuild
  <2>2. \A k \in FileKinds : \A data : Owns(b, k, data) /\ k # f => Owns(b, k, data)'
    <3>1. \A k \in FileKinds : k # f => Name(Release(m), k) # name
      BY <1>0, <1>2, NameIs
    <3> QED
      BY <1>0, <1>1, <1>3, <1>7, <2>1, <3>1 DEF Owns, Exists, InPlace
  <2>3. <<b, f>> \in removed \/ (Exists(d, name) /\ out'[d][name] = [by |-> b, data |-> Data(m, f)])
    BY <1>0, <1>3, <1>4, <1>7 DEF Mine
  <2>4. ASSUME NEW k \in FileKinds, k = f PROVE Owns(b, k, Data(m, k))'
    BY <1>0, <1>1, <1>3, <1>7, <2>1, <2>3, <2>4 DEF Owns, Exists, InPlace
  <2>5. /\ g \in Seq(FileKinds) /\ Len(g) =< 2
        /\ \A j \in 1..Len(g) : FileOrder[j] = f \/ j \in 1..Len(build[b].created)
    BY <1>0, <1>1, <1>7, Lengthened
  <2>6. \A j \in 1..Len(build[b].created) : FileOrder[j] \in FileKinds
    <3>1. \A j \in 1..Len(build[b].created) : j \in {1, 2}
      BY <1>0, <1>1, Short DEF RunSound
    <3> QED
      BY <3>1, FileOrderIs DEF FileKinds
  <2>7. \A j \in 1..Len(build[b].created) : Owns(b, FileOrder[j], Data(m, FileOrder[j]))
    BY <1>0, <1>1 DEF RunSound
  <2>8. \A j \in 1..Len(g) : Owns(b, FileOrder[j], Data(m, FileOrder[j]))'
    <3> SUFFICES ASSUME NEW j \in 1..Len(g) PROVE Owns(b, FileOrder[j], Data(m, FileOrder[j]))'
      OBVIOUS
    <3>1. CASE FileOrder[j] = f
      BY <1>0, <1>1, <2>4, <3>1
    <3>2. CASE FileOrder[j] # f /\ j \in 1..Len(build[b].created)
      BY <1>0, <2>2, <2>6, <2>7, <3>2
    <3> QED
      BY <2>5, <3>1, <3>2
  <2>9. RunSound(b)'
    <3> HIDE DEF g
    <3>1. /\ build'[b].pc = "create" /\ build'[b].dir = d /\ build'[b].manifest = m
          /\ build'[b].created = g
      BY <2>1
    <3>2. \A e \in Dirs : ~Mine(b, e, <<"sums">>)'
      BY <1>6, <1>7
    <3>3. \A j \in 1..Len(g) : Owns(b, FileOrder[j], Data(build[b].manifest, FileOrder[j]))'
      BY <2>8, <3>1
    <3> QED
      BY <1>1, <2>5, <3>1, <3>2, <3>3 DEF RunSound, Busy
  <2> QED
    BY <1>0, <1>1, <1>6, <1>7, <2>1, <2>9, RunGoesOn
<1>8. CASE out' = written /\ f # "sums" /\ build' = [build EXCEPT ![b] = NoBuild("over")]
  BY <1>0, <1>1, <1>6, <1>8, RunOver, RunGoesOn DEF BuildsInv
<1>9. CASE out' = written /\ f = "sums" /\ build' = [build EXCEPT ![b] = NoBuild("over")]
  <2>1. Len(build[b].created) = 2
    BY <1>0, <1>1, <1>9, CreatedIs
  <2>2. Owns(b, "artifact", Data(m, "artifact")) /\ Owns(b, "manifest", Data(m, "manifest"))
    <3>1. Owns(b, FileOrder[1], Data(m, FileOrder[1])) /\ Owns(b, FileOrder[2], Data(m, FileOrder[2]))
      BY <1>0, <1>1, <2>1 DEF RunSound
    <3> QED
      BY <3>1, FileOrderIs
  <2>3. ASSUME NEW e \in Dirs, Mine(b, e, <<"sums">>)' PROVE WholeAt(e)'
    <3>1. Mine(b, e, <<"sums">>)
      BY <1>0, <1>2, <1>3, <1>9, <2>3 DEF Mine, Exists
    <3>2. e = d
      BY <1>0, <1>1, <3>1 DEF RunSound
    <3>3. out'[d][<<"sums">>] = [by |-> b, data |-> Data(m, "sums")]
      BY <1>0, <1>2, <1>3, <1>9, <3>1, <3>2
    <3>4. Data(m, "sums").manifest = m
      BY DEF Data
    <3>5. ASSUME NEW k \in {"artifact", "manifest"}
          PROVE  \/ <<b, k>> \in removed
                 \/ /\ Exists(d, Name(Release(m), k))'
                    /\ out'[d][Name(Release(m), k)] = [by |-> b, data |-> Data(m, k)]
      <4>1. Name(Release(m), k) # name /\ Owns(b, k, Data(m, k))
        BY <1>0, <1>2, <1>9, <2>2, NameIs DEF FileKinds
      <4> QED
        BY <1>0, <1>1, <1>3, <1>9, <4>1 DEF Owns, Exists, InPlace
    <3> QED
      BY <1>0, <1>1, <3>2, <3>3, <3>4, <3>5 DEF WholeAt, InPlace
  <2> QED
    BY <1>0, <1>1, <1>6, <1>9, <2>3, RunOver, RunGoesOn DEF BuildsInv
<1>10. CASE out' = Cleanup(b, Written(b) \cup {name}) /\ build' = [build EXCEPT ![b] = NoBuild("over")]
  BY <1>0, <1>1, <1>10, CleanUpStep
<1> QED
  BY <1>0, <1>1, <1>7, <1>8, <1>9, <1>10 DEF BuildWrite, written

LEMMA BuildCrashStep == ASSUME BuildsInv, NEW b \in Builds, BuildCrash(b) PROVE BuildsInv'
<1>1. /\ Busy(b) /\ build' = [build EXCEPT ![b] = NoBuild("over")]
      /\ out' = out /\ removed' = removed /\ IsOut(out)
  BY DEF BuildCrash, Busy, BuildsInv, BuildsTyped
<1>2. ASSUME NEW d \in Dirs, Mine(b, d, <<"sums">>)' PROVE WholeAt(d)'
  <2>1. Mine(b, d, <<"sums">>)
    BY <1>1, <1>2 DEF Mine, Exists
  <2> QED
    BY <1>1, <2>1, NoWholeSums DEF WholeAt, InPlace
<1> QED
  BY <1>1, <1>2, RunOver, RunGoesOn DEF BuildsInv

LEMMA RemoveOutputStep == ASSUME BuildsInv, NEW d \in Dirs, RemoveOutput(d) PROVE BuildsInv'
<1>1. PICK name \in DOMAIN out[d] :
        out' = Drop(out, d, {name}) /\ removed' = removed \cup {<<out[d][name].by, name[1]>>}
  BY DEF RemoveOutput
<1>2. build' = build /\ IsOut(out)
  BY DEF RemoveOutput, BuildsInv, BuildsTyped
<1>3. /\ IsOut(out') /\ DOMAIN out'[d] = DOMAIN out[d] \ {name}
      /\ \A x \in DOMAIN out'[d] : out'[d][x] = out[d][x]
      /\ \A e \in Dirs : e # d => out'[e] = out[e]
  BY <1>1, <1>2, Dropped
<1>4. \A e \in Dirs : \A n \in DOMAIN out'[e] : n \in DOMAIN out[e] /\ out'[e][n] = out[e][n]
  BY <1>3
<1>5. ASSUME NEW e \in Dirs, NEW b, NEW f \in FileKinds, NEW id, NEW data, InPlace(e, b, id, f, data)
      PROVE  InPlace(e, b, id, f, data)'
  <2>1. Name(id, f)[1] = f
    BY NameIs
  <2>2. CASE e = d /\ Name(id, f) = name
    BY <1>1, <1>5, <2>1, <2>2 DEF InPlace, Exists
  <2>3. CASE e # d
    BY <1>1, <1>3, <1>5, <2>3 DEF InPlace, Exists
  <2>4. CASE e = d /\ Name(id, f) # name
    BY <1>1, <1>3, <1>5, <2>4 DEF InPlace, Exists
  <2> QED
    BY <2>2, <2>3, <2>4
<1>6. \A e \in Dirs : \A b, n : Mine(b, e, n)' => Mine(b, e, n) /\ out'[e][n] = out[e][n]
  BY <1>4 DEF Mine, Exists
<1>7. ASSUME NEW b \in Builds PROVE RunSound(b)'
  <2>1. ASSUME Busy(b), NEW f \in FileKinds, NEW data, Owns(b, f, data) PROVE Owns(b, f, data)'
    <3>1. build[b].dir \in Dirs
      BY <2>1 DEF BuildsInv, RunSound
    <3>2. InPlace(build[b].dir, b, Release(build[b].manifest), f, data)'
      BY <1>2, <1>5, <2>1, <3>1 DEF Owns
    <3> QED
      BY <1>2, <3>2 DEF Owns
  <2>2. CASE Busy(b)
    <3>1. RunSound(b) /\ Current(b) \in FileKinds
      BY <2>2, CreatedIs DEF BuildsInv
    <3>2. \A j \in 1..Len(build[b].created) : FileOrder[j] \in FileKinds
      <4>1. \A j \in 1..Len(build[b].created) : j \in {1, 2}
        BY <2>2, <3>1, Short DEF RunSound
      <4> QED
        BY <4>1, FileOrderIs DEF FileKinds
    <3>3. \A j \in 1..Len(build[b].created) :
             Owns(b, FileOrder[j], Data(build[b].manifest, FileOrder[j]))'
      BY <1>2, <2>1, <2>2, <3>1, <3>2 DEF RunSound
    <3>4. build[b].pc = "write" => Owns(b, Current(b), Partial)'
      <4>1. Current(b)' = Current(b)
        BY <1>2 DEF Current
      <4> QED
        BY <2>1, <2>2, <3>1, <4>1 DEF RunSound
    <3> QED
      BY <1>2, <1>6, <2>2, <3>1, <3>3, <3>4 DEF RunSound, Busy, Current
  <2>3. CASE ~Busy(b)
    BY <1>2, <1>6, <2>3 DEF BuildsInv, RunSound, Busy, Current
  <2> QED
    BY <2>2, <2>3
<1>8. ASSUME NEW e \in Dirs PROVE WholeAt(e)'
  <2> DEFINE sums == out[e][<<"sums">>]
  <2>1. WholeAt(e)
    BY WholeIs DEF BuildsInv
  <2>2. ASSUME Exists(e, <<"sums">>)', sums.data # Partial, NEW f \in {"artifact", "manifest"}
        PROVE  InPlace(e, sums.by, Release(sums.data.manifest), f, Data(sums.data.manifest, f))'
    BY <1>4, <1>5, <2>1, <2>2 DEF WholeAt, Exists, FileKinds
  <2> QED
    BY <1>4, <2>2 DEF WholeAt, Exists
<1>9. FilesSound'
  BY <1>4 DEF BuildsInv, FilesSound
<1> QED
  BY <1>2, <1>3, <1>7, <1>8, <1>9, WholeIsNext DEF BuildsInv, BuildsTyped

LEMMA BuildsStutter == ASSUME BuildsInv, UNCHANGED <<out, build, removed>> PROVE BuildsInv'
BY DEF BuildsInv, BuildsTyped, FilesSound, BuildsStayWhole, RunSound, Busy, Owns, Mine, Exists, Current, InPlace

LEMMA EarlierIs ==
    ASSUME PipelineAssumption
    PROVE  FromCommit(EarlierManifest) /\ Earlier.dir \in Dirs /\ FirstRun \notin Builds
BY DEF PipelineAssumption, FromCommit, EarlierManifest, Manifest, Buildable

LEMMA BuildsInit == ASSUME PipelineAssumption, PipelineInit PROVE BuildsInv
<1> DEFINE m == EarlierManifest
           e == Earlier.dir
           names == {Name(Release(m), FileOrder[j]) : j \in 1..3}
<1>1. FromCommit(m) /\ e \in Dirs /\ FirstRun \notin Builds
  BY EarlierIs
<1>2. names = {Name(Release(m), f) : f \in FileKinds}
  BY FileOrderIs DEF FileKinds
<1>3. /\ out = [d \in Dirs |-> out[d]]
      /\ \A d \in Dirs : d # e => DOMAIN out[d] = {} /\ out[d] = [n \in {} |-> out[d][n]]
      /\ out[e] = [n \in {Name(Release(m), f) : f \in FileKinds} |->
                      [by |-> FirstRun, data |-> Data(m, n[1])]]
  BY <1>1, FileOrderIs DEF PipelineInit, FileKinds
<1> HIDE DEF m, e
<1>4. DOMAIN out[e] = {Name(Release(m), f) : f \in FileKinds}
  BY <1>3
<1>5. \A f \in FileKinds : out[e][Name(Release(m), f)] = [by |-> FirstRun, data |-> Data(m, f)]
  BY <1>3, NameIs
<1>6. IsOut(out)
  <2>1. \A n \in DOMAIN out[e] : out[e][n] = [f \in {"by", "data"} |-> out[e][n][f]]
    BY <1>4, <1>5
  <2>2. out[e] = [n \in DOMAIN out[e] |-> [f \in {"by", "data"} |-> out[e][n][f]]]
    BY <1>3, <1>4, <2>1
  <2> QED
    BY <1>1, <1>3, <2>2 DEF IsOut
<1>7. FilesSound
  <2>1. \A f \in FileKinds : Name(Release(m), f)[1] = f /\ DataSound(f, Data(m, f))
    BY <1>1, NameIs, DataIsSound
  <2> QED
    BY <1>3, <1>4, <1>5, <2>1 DEF FilesSound
<1>8. build = [b \in Builds |-> NoBuild("idle")]
  BY DEF PipelineInit
<1>9. ASSUME NEW b \in Builds PROVE RunSound(b)
  <2>1. build[b].pc = "idle"
    BY <1>8 DEF NoBuild
  <2>2. \A d \in Dirs : ~Mine(b, d, <<"sums">>)
    BY <1>1, <1>3, <1>4, <1>5 DEF Mine, Exists
  <2> QED
    BY <2>1, <2>2 DEF RunSound, Busy
<1>10. ASSUME NEW d \in Dirs PROVE WholeAt(d)
  <2>1. CASE d # e
    BY <1>3, <2>1 DEF WholeAt, Exists, InPlace
  <2>2. CASE d = e
    <3>1. Name(Release(m), "sums") = <<"sums">>
      BY NameIs DEF FileKinds
    <3>2. out[e][<<"sums">>] = [by |-> FirstRun, data |-> Data(m, "sums")]
      BY <1>5, <3>1 DEF FileKinds
    <3>3. Data(m, "sums").manifest = m
      BY DEF Data
    <3> QED
      BY <1>4, <1>5, <2>2, <3>2, <3>3 DEF WholeAt, Exists, FileKinds, InPlace
  <2> QED
    BY <2>1, <2>2
<1>11. BuildsTyped
  BY <1>6, <1>8 DEF BuildsTyped, IsBuild, NoBuild
<1> QED
  BY <1>7, <1>9, <1>10, <1>11, WholeIs DEF BuildsInv

-----------------------------------------------------------------------------
(* Bundles.                                                                *)

\* Three sound files that verify-release accepts are of one build.
LEMMA VerifiedIsWhole ==
    ASSUME NEW a, NEW m, NEW s, Verified(a, m, s),
           DataSound("artifact", a), DataSound("manifest", m), DataSound("sums", s)
    PROVE  FromCommit(m) /\ a = Artifact(m) /\ s = Data(m, "sums")
<1>1. m # Partial /\ a # Partial /\ s # Partial /\ a.manifest = m /\ s.manifest = m
  BY DEF Verified, SchemaValid, ArchiveSafe, ManifestBound, EmbeddedSame
<1>2. FromCommit(m)
  BY <1>1 DEF DataSound, ManifestOf
<1>3. a = Artifact(m)
  BY <1>1 DEF DataSound, ManifestOf, Data
<1>4. s = Data(m, "sums")
  BY <1>1 DEF DataSound, ManifestOf
<1> QED
  BY <1>2, <1>3, <1>4

LEMMA BundledIsSound ==
    ASSUME NEW r, Whole(r)
    PROVE  /\ IsDeployment(Deployment(r)) /\ Bundle(Deployment(r)).deployment = Deployment(r)
           /\ Bundle(Deployment(r)).manifest = r.manifest
BY DEF IsDeployment, Deployment, Bundle, Whole

LEMMA BundlerGoesOn ==
    ASSUME BundlesInv, NEW k \in Bundlers, NEW r, bundler' = [bundler EXCEPT ![k] = r],
           BundlerSound(k)', bundles' = bundles
    PROVE  BundlesInv'
<1>1. \A j \in Bundlers : j # k => bundler'[j] = bundler[j]
  BY DEF BundlesInv
<1>2. \A j \in Bundlers : BundlerSound(j)'
  BY <1>1 DEF BundlesInv, BundlerSound
<1>3. \A at \in Dirs \X Ids : BundleSound(at)'
  BY DEF BundlesInv, BundleSound
<1> QED
  BY <1>2, <1>3 DEF BundlesInv

LEMMA BundlerOver ==
    ASSUME BundlesInv, NEW k \in Bundlers, bundler' = [bundler EXCEPT ![k] = NoBundler("over")]
    PROVE  BundlerSound(k)'
BY DEF BundlesInv, BundlerSound, IsBundler, NoBundler

LEMMA BundleStartStep == ASSUME BundlesInv, NEW k \in Bundlers, BundleStart(k) PROVE BundlesInv'
<1>1. PICK o \in BundleOrders :
        bundler' = [bundler EXCEPT ![k] = [bundler[k] EXCEPT !.pc = "artifact",
            !.dir = o.dir, !.runtime = o.runtime, !.release = o.release]]
  BY DEF BundleStart
<1>2. IsBundler(bundler[k]) /\ bundles' = bundles
  BY DEF BundleStart, BundlesInv, BundlerSound
<1>3. bundler'[k] = [bundler[k] EXCEPT !.pc = "artifact",
            !.dir = o.dir, !.runtime = o.runtime, !.release = o.release]
  BY <1>1 DEF BundlesInv
<1>4. IsBundler(bundler'[k]) /\ bundler'[k].pc = "artifact"
  BY <1>2, <1>3 DEF IsBundler
<1>5. BundlerSound(k)'
  BY <1>4 DEF BundlerSound
<1> QED
  BY <1>1, <1>2, <1>5, BundlerGoesOn

LEMMA BundleCopyStep ==
    ASSUME BundlesInv, BuildsInv, NEW k \in Bundlers, BundleCopy(k) PROVE BundlesInv'
<1> DEFINE r == bundler[k]
<1>1. r.pc \in {"artifact", "manifest", "sums"} /\ bundles' = bundles /\ BundlerSound(k)
  BY DEF BundleCopy, BundlesInv
<1>2. PICK d \in Dirs :
        LET name == Name(r.release, r.pc)
            data == out[d][name].data IN
        bundler' = [bundler EXCEPT ![k] =
           IF ~Exists(d, name) THEN NoBundler("over")
           ELSE CASE r.pc = "artifact" -> [r EXCEPT !.artifact = data, !.pc = "manifest"]
                  [] r.pc = "manifest" -> [r EXCEPT !.manifest = data, !.pc = "sums"]
                  [] r.pc = "sums" -> [r EXCEPT !.sums = data, !.pc = "verify"]]
  BY DEF BundleCopy
<1> DEFINE name == Name(r.release, r.pc)
           data == out[d][name].data
<1>3. Exists(d, name) => DataSound(r.pc, data)
  <2>1. name[1] = r.pc
    BY <1>1, NameIs DEF FileKinds
  <2> QED
    BY <2>1 DEF BuildsInv, FilesSound, Exists
<1>4. CASE ~Exists(d, name)
  <2>1. bundler' = [bundler EXCEPT ![k] = NoBundler("over")]
    BY <1>2, <1>4
  <2> QED
    BY <1>1, <2>1, BundlerOver, BundlerGoesOn
<1>5. ASSUME Exists(d, name), NEW q, bundler' = [bundler EXCEPT ![k] = q], IsBundler(q),
             \/ /\ r.pc = "artifact" /\ q.artifact = data /\ q.pc = "manifest"
             \/ /\ r.pc = "manifest" /\ q.manifest = data /\ q.pc = "sums"
                /\ q.artifact = r.artifact
             \/ /\ r.pc = "sums" /\ q.sums = data /\ q.pc = "verify"
                /\ q.artifact = r.artifact /\ q.manifest = r.manifest
      PROVE  BundlesInv'
  <2>1. bundler'[k] = q
    BY <1>5 DEF BundlesInv
  <2>2. DataSound(r.pc, data)
    BY <1>3, <1>5
  <2> HIDE DEF data
  <2>3. BundlerSound(k)'
    BY <1>1, <1>5, <2>1, <2>2 DEF BundlerSound
  <2> QED
    BY <1>1, <1>5, <2>3, BundlerGoesOn
<1>6. IsBundler(r)
  BY <1>1 DEF BundlerSound
<1>7. CASE Exists(d, name) /\ r.pc = "artifact"
  <2> DEFINE q == [r EXCEPT !.artifact = data, !.pc = "manifest"]
  <2>1. bundler' = [bundler EXCEPT ![k] = q]
    BY <1>2, <1>7
  <2>2. IsBundler(q) /\ q.artifact = data /\ q.pc = "manifest"
    BY <1>6 DEF IsBundler
  <2> QED
    BY <1>5, <1>7, <2>1, <2>2
<1>8. CASE Exists(d, name) /\ r.pc = "manifest"
  <2> DEFINE q == [r EXCEPT !.manifest = data, !.pc = "sums"]
  <2>1. bundler' = [bundler EXCEPT ![k] = q]
    BY <1>2, <1>8
  <2>2. IsBundler(q) /\ q.manifest = data /\ q.pc = "sums" /\ q.artifact = r.artifact
    BY <1>6 DEF IsBundler
  <2> QED
    BY <1>5, <1>8, <2>1, <2>2
<1>9. CASE Exists(d, name) /\ r.pc = "sums"
  <2> DEFINE q == [r EXCEPT !.sums = data, !.pc = "verify"]
  <2>1. bundler' = [bundler EXCEPT ![k] = q]
    BY <1>2, <1>9
  <2>2. IsBundler(q) /\ q.sums = data /\ q.pc = "verify" /\ q.artifact = r.artifact /\ q.manifest = r.manifest
    BY <1>6 DEF IsBundler
  <2> QED
    BY <1>5, <1>9, <2>1, <2>2
<1> QED
  BY <1>1, <1>4, <1>7, <1>8, <1>9

LEMMA BundleVerifyStep ==
    ASSUME BundlesInv, NEW k \in Bundlers, BundleVerify(k) PROVE BundlesInv'
<1> DEFINE r == bundler[k]
<1>1. r.pc = "verify" /\ bundles' = bundles /\ BundlerSound(k)
  BY DEF BundleVerify, BundlesInv
<1>2. CASE Bundleable(r) /\ bundler' = [bundler EXCEPT ![k] = [r EXCEPT !.pc = "fetch"]]
  <2>1. Whole(r) /\ Release(r.manifest) = r.release
    BY <1>1, <1>2, VerifiedIsWhole DEF BundlerSound, Bundleable, Whole
  <2>2. bundler'[k] = [r EXCEPT !.pc = "fetch"] /\ IsBundler(r)
    BY <1>1, <1>2 DEF BundlesInv, BundlerSound
  <2>3. /\ IsBundler(bundler'[k]) /\ bundler'[k].pc = "fetch"
        /\ bundler'[k].artifact = r.artifact /\ bundler'[k].manifest = r.manifest
        /\ bundler'[k].sums = r.sums /\ bundler'[k].release = r.release
    BY <2>2 DEF IsBundler
  <2>4. BundlerSound(k)'
    BY <2>1, <2>3 DEF BundlerSound, Whole
  <2> QED
    BY <1>1, <1>2, <2>4, BundlerGoesOn
<1>3. CASE bundler' = [bundler EXCEPT ![k] = NoBundler("over")]
  BY <1>1, <1>3, BundlerOver, BundlerGoesOn
<1> QED
  BY <1>2, <1>3 DEF BundleVerify

LEMMA BundlePublishStep ==
    ASSUME BundlesInv, NEW k \in Bundlers, BundlePublish(k) PROVE BundlesInv'
<1> DEFINE r == bundler[k]
           at == <<r.dir, r.release>>
<1>1. /\ Whole(r) /\ Release(r.manifest) = r.release
      /\ bundler' = [bundler EXCEPT ![k] = NoBundler("over")]
  BY DEF BundlePublish, BundlesInv, BundlerSound
<1>2. BundlerSound(k)'
  BY <1>1, BundlerOver
<1>3. CASE bundles' = bundles
  BY <1>1, <1>2, <1>3, BundlerGoesOn
<1>4. CASE bundles' = [bundles EXCEPT ![at] = Bundle(Deployment(r))]
  <2>1. \A x \in Dirs \X Ids : bundles'[x] = IF x = at THEN Bundle(Deployment(r)) ELSE bundles[x]
    BY <1>4 DEF BundlesInv
  <2>2. at[2] = Release(r.manifest)
    BY <1>1
  <2> HIDE DEF r, at
  <2>3. \A x \in Dirs \X Ids : BundleSound(x)'
    BY <1>1, <2>1, <2>2, BundledIsSound DEF BundlesInv, BundleSound
  <2>4. \A j \in Bundlers : BundlerSound(j)'
    BY <1>1, <1>2 DEF BundlesInv, BundlerSound
  <2> QED
    BY <1>1, <1>4, <2>3, <2>4 DEF BundlesInv
<1> QED
  BY <1>3, <1>4 DEF BundlePublish

LEMMA BundlesStutter == ASSUME BundlesInv, UNCHANGED <<bundler, bundles>> PROVE BundlesInv'
BY DEF BundlesInv, BundlerSound, BundleSound

LEMMA EarlierBundleIs ==
    ASSUME PipelineAssumption
    PROVE  /\ IsDeployment(EarlierBundle.deployment)
           /\ EarlierBundle = Bundle(EarlierBundle.deployment)
           /\ EarlierBundle.manifest = EarlierManifest
<1> DEFINE m == EarlierManifest
           r == [artifact |-> Artifact(m), manifest |-> m, sums |-> Data(m, "sums"),
                 runtime |-> HostRuntime]
<1>1. FromCommit(m)
  BY EarlierIs
<1> HIDE DEF m
<1>2. Whole(r) /\ r.manifest = m
  BY <1>1 DEF Whole
<1>3. EarlierBundle = Bundle(Deployment(r))
  BY DEF EarlierBundle, m
<1> HIDE DEF r
<1> QED
  BY <1>2, <1>3, BundledIsSound DEF m

LEMMA BundlesInit == ASSUME PipelineAssumption, PipelineInit PROVE BundlesInv
<1>1. bundler = [k \in Bundlers |-> NoBundler("idle")]
  BY DEF PipelineInit
<1>2. \A k \in Bundlers : BundlerSound(k)
  BY <1>1 DEF BundlerSound, NoBundler, IsBundler
<1>3. bundles = [at \in Dirs \X Ids |->
         IF at = <<Earlier.dir, Release(EarlierManifest)>> THEN EarlierBundle ELSE Nil]
  BY DEF PipelineInit
<1>4. \A at \in Dirs \X Ids : BundleSound(at)
  BY <1>3, EarlierBundleIs DEF BundleSound
<1> QED
  BY <1>1, <1>2, <1>3, <1>4 DEF BundlesInv

-----------------------------------------------------------------------------
(* The host.                                                               *)

Checking == {"check", "runtime", "extract", "compare", "wheels", "publish"}

LEMMA InstallerGoesOn ==
    ASSUME HostInv, NEW i \in Installs, NEW r, installer' = [installer EXCEPT ![i] = r],
           InstallerSound(i)', medium' = medium, trees' = trees
    PROVE  HostInv'
<1>1. \A j \in Installs : j # i => installer'[j] = installer[j]
  BY DEF HostInv
<1>2. \A j \in Installs : InstallerSound(j)'
  BY <1>1 DEF HostInv, InstallerSound
<1>3. \A id \in Ids : TreeSound(id)'
  BY DEF HostInv, TreeSound
<1> QED
  BY <1>2, <1>3 DEF HostInv, MediumSound

LEMMA InstallerOver ==
    ASSUME HostInv, NEW i \in Installs, NEW pc \in {"over", "present", "failed"},
           installer' = [installer EXCEPT ![i] = NoInstaller(pc)]
    PROVE  InstallerSound(i)'
<1>1. installer'[i] = NoInstaller(pc)
  BY DEF HostInv
<1> QED
  BY <1>1 DEF InstallerSound, NoInstaller

LEMMA InstallFailsStep ==
    ASSUME HostInv, NEW i \in Installs, InstallFails(i), medium' = medium, trees' = trees
    PROVE  HostInv'
BY InstallerOver, InstallerGoesOn DEF InstallFails

\* An installer that changes step keeps what it has read.
LEMMA InstallerAdvances ==
    ASSUME HostInv, NEW i \in Installs, NEW r, installer' = [installer EXCEPT ![i] = r],
           r = [f \in {"pc", "plan", "checked", "stage", "wheels"} |-> r[f]],
           r.pc \in Checking,
           IsDeployment(r.plan),
           r.pc \in {"extract", "compare", "wheels", "publish"} => r.plan.runtime = HostRuntime,
           r.pc \in {"compare", "wheels", "publish"} => r.stage = r.plan.artifact,
           r.pc = "publish" => r.wheels = r.plan.wheels,
           medium' = medium, trees' = trees
    PROVE  HostInv'
<1>1. installer'[i] = r
  BY DEF HostInv
<1>2. InstallerSound(i)'
  BY <1>1 DEF InstallerSound
<1> QED
  BY <1>2, InstallerGoesOn

LEMMA InstallReadStep ==
    ASSUME HostInv, NEW i \in Installs, InstallRead(i) PROVE HostInv'
<1> DEFINE r == [installer[i] EXCEPT !.pc = "check", !.plan = medium.deployment]
<1>1. medium' = medium /\ trees' = trees /\ InstallerSound(i)
  BY DEF InstallRead, HostInv
<1>2. CASE installer' = [installer EXCEPT ![i] = NoInstaller("over")]
  BY <1>1, <1>2, InstallerOver, InstallerGoesOn
<1>3. CASE medium.deployment \notin {Nil, Partial} /\ installer' = [installer EXCEPT ![i] = r]
  <2>1. /\ r = [f \in {"pc", "plan", "checked", "stage", "wheels"} |-> r[f]]
        /\ r.pc = "check" /\ r.plan = medium.deployment
    BY <1>1 DEF InstallerSound
  <2>2. IsDeployment(r.plan)
    BY <1>3, <2>1 DEF HostInv, MediumSound
  <2> HIDE DEF r
  <2> QED
    BY <1>1, <1>3, <2>1, <2>2, InstallerAdvances DEF Checking
<1> QED
  BY <1>2, <1>3 DEF InstallRead

LEMMA InstallCheckStep ==
    ASSUME HostInv, NEW i \in Installs, InstallCheck(i) PROVE HostInv'
<1> DEFINE f == CheckOrder[Len(installer[i].checked) + 1]
           pc == IF Len(installer[i].checked) + 1 = Len(CheckOrder) THEN "runtime" ELSE "check"
           r == [installer[i] EXCEPT !.checked = Append(@, f), !.pc = pc]
<1>1. medium' = medium /\ trees' = trees /\ InstallerSound(i) /\ installer[i].pc = "check"
  BY DEF InstallCheck, HostInv
<1>2. CASE installer' = [installer EXCEPT ![i] = NoInstaller("over")]
  BY <1>1, <1>2, InstallerOver, InstallerGoesOn
<1>3. CASE installer' = [installer EXCEPT ![i] = r]
  <2>1. pc \in {"runtime", "check"}
    OBVIOUS
  <2> HIDE DEF pc, f
  <2>2. /\ r = [g \in {"pc", "plan", "checked", "stage", "wheels"} |-> r[g]]
        /\ r.pc = pc /\ r.plan = installer[i].plan
    BY <1>1 DEF InstallerSound
  <2>3. IsDeployment(r.plan)
    BY <1>1, <2>2 DEF InstallerSound
  <2> HIDE DEF r
  <2> QED
    BY <1>1, <1>3, <2>1, <2>2, <2>3, InstallerAdvances DEF Checking
<1> QED
  BY <1>2, <1>3 DEF InstallCheck

LEMMA InstallBeginStep ==
    ASSUME HostInv, NEW i \in Installs, InstallBegin(i) PROVE HostInv'
<1> DEFINE r == [installer[i] EXCEPT !.pc = "extract"]
<1>1. medium' = medium /\ trees' = trees /\ InstallerSound(i) /\ installer[i].pc = "runtime"
  BY DEF InstallBegin, HostInv
<1>2. CASE \E pc \in {"over", "present", "failed"} :
             installer' = [installer EXCEPT ![i] = NoInstaller(pc)]
  BY <1>1, <1>2, InstallerOver, InstallerGoesOn
<1>3. CASE installer[i].plan.runtime = HostRuntime /\ installer' = [installer EXCEPT ![i].pc = "extract"]
  <2>1. installer' = [installer EXCEPT ![i] = r]
    BY <1>3
  <2>2. /\ r = [f \in {"pc", "plan", "checked", "stage", "wheels"} |-> r[f]]
        /\ r.pc = "extract" /\ r.plan = installer[i].plan
    BY <1>1 DEF InstallerSound
  <2>3. IsDeployment(r.plan)
    BY <1>1, <2>2 DEF InstallerSound
  <2> HIDE DEF r
  <2> QED
    BY <1>1, <1>3, <2>1, <2>2, <2>3, InstallerAdvances DEF Checking
<1> QED
  BY <1>2, <1>3 DEF InstallBegin

LEMMA InstallExtractStep ==
    ASSUME HostInv, NEW i \in Installs, InstallExtract(i) PROVE HostInv'
<1> DEFINE a == medium.artifact
           r == [installer[i] EXCEPT !.pc = "compare", !.stage = a]
<1>1. medium' = medium /\ trees' = trees /\ InstallerSound(i) /\ installer[i].pc = "extract"
  BY DEF InstallExtract, HostInv
<1>2. CASE InstallFails(i)
  BY <1>1, <1>2, InstallFailsStep
<1>3. CASE /\ Extractable(installer[i].plan, a)
           /\ installer' = [installer EXCEPT ![i].pc = "compare", ![i].stage = a]
  <2>1. installer' = [installer EXCEPT ![i] = r]
    BY <1>3 DEF HostInv
  <2>2. /\ r = [f \in {"pc", "plan", "checked", "stage", "wheels"} |-> r[f]]
        /\ r.pc = "compare" /\ r.plan = installer[i].plan /\ r.stage = a
    BY <1>1 DEF InstallerSound
  <2>3. IsDeployment(r.plan) /\ r.plan.runtime = HostRuntime /\ r.stage = r.plan.artifact
    BY <1>1, <1>3, <2>2 DEF InstallerSound, Extractable
  <2> HIDE DEF r
  <2> QED
    BY <1>1, <2>1, <2>2, <2>3, InstallerAdvances DEF Checking
<1> QED
  BY <1>2, <1>3 DEF InstallExtract

LEMMA InstallCompareStep ==
    ASSUME HostInv, NEW i \in Installs, InstallCompare(i) PROVE HostInv'
<1> DEFINE r == [installer[i] EXCEPT !.pc = "wheels"]
<1>1. medium' = medium /\ trees' = trees /\ InstallerSound(i) /\ installer[i].pc = "compare"
  BY DEF InstallCompare, HostInv
<1>2. CASE InstallFails(i)
  BY <1>1, <1>2, InstallFailsStep
<1>3. CASE installer' = [installer EXCEPT ![i].pc = "wheels"]
  <2>1. installer' = [installer EXCEPT ![i] = r]
    BY <1>3
  <2>2. /\ r = [f \in {"pc", "plan", "checked", "stage", "wheels"} |-> r[f]]
        /\ r.pc = "wheels" /\ r.plan = installer[i].plan /\ r.stage = installer[i].stage
    BY <1>1 DEF InstallerSound
  <2>3. IsDeployment(r.plan) /\ r.plan.runtime = HostRuntime /\ r.stage = r.plan.artifact
    BY <1>1, <2>2 DEF InstallerSound
  <2> HIDE DEF r
  <2> QED
    BY <1>1, <2>1, <2>2, <2>3, InstallerAdvances DEF Checking
<1> QED
  BY <1>2, <1>3 DEF InstallCompare

LEMMA InstallWheelsStep ==
    ASSUME HostInv, NEW i \in Installs, InstallWheels(i) PROVE HostInv'
<1> DEFINE w == medium.wheels
           r == [installer[i] EXCEPT !.pc = "publish", !.wheels = w]
<1>1. medium' = medium /\ trees' = trees /\ InstallerSound(i) /\ installer[i].pc = "wheels"
  BY DEF InstallWheels, HostInv
<1>2. CASE InstallFails(i)
  BY <1>1, <1>2, InstallFailsStep
<1>3. CASE /\ w = installer[i].plan.wheels
           /\ installer' = [installer EXCEPT ![i].pc = "publish", ![i].wheels = w]
  <2>1. installer' = [installer EXCEPT ![i] = r]
    BY <1>3 DEF HostInv
  <2>2. /\ r = [f \in {"pc", "plan", "checked", "stage", "wheels"} |-> r[f]]
        /\ r.pc = "publish" /\ r.plan = installer[i].plan /\ r.stage = installer[i].stage
        /\ r.wheels = w
    BY <1>1 DEF InstallerSound
  <2>3. /\ IsDeployment(r.plan) /\ r.plan.runtime = HostRuntime /\ r.stage = r.plan.artifact
        /\ r.wheels = r.plan.wheels
    BY <1>1, <1>3, <2>2 DEF InstallerSound
  <2> HIDE DEF r
  <2> QED
    BY <1>1, <2>1, <2>2, <2>3, InstallerAdvances DEF Checking
<1> QED
  BY <1>2, <1>3 DEF InstallWheels

LEMMA InstallPublishStep ==
    ASSUME HostInv, NEW i \in Installs, InstallPublish(i) PROVE HostInv'
<1> DEFINE r == installer[i]
           p == r.plan
           v == [app |-> r.stage, wheels |-> r.wheels, class |-> p.manifest.class,
                 bundle |-> medium.deployment, whole |-> TRUE]
<1>1. /\ medium' = medium /\ InstallerSound(i) /\ r.pc = "publish"
      /\ trees' = [trees EXCEPT ![Release(p.manifest)] = v]
      /\ installer' = [installer EXCEPT ![i] = NoInstaller("over")]
  BY DEF InstallPublish, HostInv
<1>2. IsDeployment(p) /\ p.runtime = HostRuntime /\ r.stage = p.artifact /\ r.wheels = p.wheels
  BY <1>1 DEF InstallerSound
<1>3. /\ FromCommit(p.manifest) /\ p.artifact = Artifact(p.manifest)
      /\ p.wheels = WheelsOf(Tree[p.artifact.source].lock, HostRuntime)
  BY <1>2 DEF IsDeployment, Whole
<1>4. p.artifact.manifest = p.manifest
  BY <1>3 DEF Artifact
<1>5. \A id \in Ids : trees'[id] = IF id = Release(p.manifest) THEN v ELSE trees[id]
  BY <1>1 DEF HostInv
<1>6. /\ v = [f \in {"app", "wheels", "class", "bundle", "whole"} |-> v[f]]
      /\ v.app = p.artifact /\ v.class = p.manifest.class /\ v.wheels = p.wheels
  BY <1>2
<1> HIDE DEF v
<1>7. ASSUME NEW id \in Ids PROVE TreeSound(id)'
  <2>1. CASE id = Release(p.manifest)
    BY <1>3, <1>4, <1>5, <1>6, <2>1 DEF TreeSound
  <2>2. CASE id # Release(p.manifest)
    BY <1>5, <2>2 DEF HostInv, TreeSound
  <2> QED
    BY <2>1, <2>2
<1>8. \A j \in Installs : InstallerSound(j)'
  <2>1. InstallerSound(i)'
    BY <1>1, InstallerOver
  <2> QED
    BY <1>1, <2>1 DEF HostInv, InstallerSound
<1> QED
  BY <1>1, <1>7, <1>8 DEF HostInv, MediumSound

LEMMA InstallDiesStep ==
    ASSUME HostInv, NEW i \in Installs, InstallDies(i) PROVE HostInv'
BY InstallerOver, InstallerGoesOn DEF InstallDies

LEMMA CarryStep == ASSUME HostInv, BundlesInv, Carry PROVE HostInv'
<1>1. /\ installer' = installer /\ trees' = trees
      /\ DOMAIN medium = {"deployment", "artifact", "manifest", "sums", "wheels"}
  BY DEF Carry, HostInv, MediumSound, IsMedium
<1>2. PICK at \in Dirs \X Ids, S \in {DOMAIN medium} \cup {{f} : f \in DOMAIN medium} :
        /\ bundles[at] # Nil
        /\ medium' = [f \in DOMAIN medium |-> IF f \in S THEN bundles[at][f] ELSE medium[f]]
  BY DEF Carry, BundlesInv
<1>3. IsMedium(medium')
  BY <1>1, <1>2 DEF IsMedium
<1>4. IsDeployment(bundles[at].deployment)
  BY <1>2 DEF BundlesInv, BundleSound
<1>5. medium'.deployment \in {bundles[at].deployment, medium.deployment}
  BY <1>1, <1>2
<1>6. MediumSound'
  BY <1>3, <1>4, <1>5 DEF HostInv, MediumSound
<1> QED
  BY <1>1, <1>6 DEF HostInv, InstallerSound, TreeSound

LEMMA SpoilStep == ASSUME HostInv, Spoil PROVE HostInv'
<1>1. installer' = installer
  BY DEF Spoil
<1>2. CASE trees' = trees /\ \E f \in DOMAIN medium : medium' = [medium EXCEPT ![f] = Partial]
  <2>1. PICK f \in DOMAIN medium : medium' = [medium EXCEPT ![f] = Partial]
    BY <1>2
  <2>2. IsMedium(medium') /\ medium'.deployment \in {Partial, medium.deployment}
    BY <2>1 DEF HostInv, MediumSound, IsMedium
  <2>3. MediumSound'
    BY <2>2 DEF HostInv, MediumSound
  <2> QED
    BY <1>1, <1>2, <2>3 DEF HostInv, InstallerSound, TreeSound
<1>3. CASE medium' = medium /\ \E id \in DOMAIN trees :
             trees[id] # Nil /\ trees' = [trees EXCEPT ![id].whole = FALSE]
  <2>1. PICK id \in Ids : trees[id] # Nil /\ trees' = [trees EXCEPT ![id].whole = FALSE]
    BY <1>3 DEF HostInv
  <2> DEFINE v == [trees[id] EXCEPT !.whole = FALSE]
  <2>2. \A x \in Ids : trees'[x] = IF x = id THEN v ELSE trees[x]
    BY <2>1 DEF HostInv
  <2>3. TreeSound(id) /\ trees[id] = [f \in {"app", "wheels", "class", "bundle", "whole"} |-> trees[id][f]]
    BY <2>1 DEF HostInv, TreeSound
  <2>4. /\ v = [f \in {"app", "wheels", "class", "bundle", "whole"} |-> v[f]]
        /\ v.app = trees[id].app /\ v.class = trees[id].class /\ v.wheels = trees[id].wheels
    BY <2>3
  <2> HIDE DEF v
  <2>5. TreeSound(id)'
    BY <2>1, <2>2, <2>3, <2>4 DEF TreeSound
  <2>6. \A x \in Ids : TreeSound(x)'
    BY <2>2, <2>5 DEF HostInv, TreeSound
  <2>7. trees' = [x \in Ids |-> trees'[x]]
    BY <2>1 DEF HostInv
  <2> QED
    BY <1>1, <1>3, <2>6, <2>7 DEF HostInv, MediumSound, InstallerSound
<1> QED
  BY <1>2, <1>3 DEF Spoil

LEMMA HostStutter == ASSUME HostInv, UNCHANGED <<medium, installer, trees>> PROVE HostInv'
BY DEF HostInv, MediumSound, InstallerSound, TreeSound

LEMMA HostInit == ASSUME PipelineAssumption, PipelineInit PROVE HostInv
<1>1. MediumSound
  <2>1. IsDeployment(EarlierBundle.deployment) /\ medium = EarlierBundle
    BY EarlierBundleIs DEF PipelineInit
  <2>2. IsMedium(medium)
    BY <2>1, EarlierBundleIs DEF IsMedium, Bundle
  <2> QED
    BY <2>1, <2>2 DEF MediumSound
<1>2. installer = [i \in Installs |-> NoInstaller("idle")] /\ trees = [id \in Ids |-> Nil]
  BY DEF PipelineInit
<1>3. \A i \in Installs : InstallerSound(i)
  BY <1>2 DEF InstallerSound, NoInstaller
<1>4. \A id \in Ids : TreeSound(id)
  BY <1>2 DEF TreeSound
<1> QED
  BY <1>1, <1>2, <1>3, <1>4 DEF HostInv

-----------------------------------------------------------------------------

LEMMA PipelineStep ==
    ASSUME PipelineAssumption, PipelineInv, [PipelineNext]_rvars PROVE PipelineInv'
<1> USE DEF PipelineInv
<1>1. ASSUME NEW b \in Builds, BuildStep(b) PROVE PipelineInv'
  <2>1. BuildsInv'
    BY <1>1, BuildStartStep, BuildCreateStep, BuildWriteStep, BuildCrashStep DEF BuildStep
  <2>2. UNCHANGED <<bundler, bundles, medium, installer, trees>>
    BY <1>1 DEF BuildStep, BuildStart, BuildCreate, BuildWrite, BuildCrash
  <2> QED
    BY <2>1, <2>2, BundlesStutter, HostStutter
<1>2. ASSUME NEW k \in Bundlers, BundleStep(k) PROVE PipelineInv'
  <2>1. BundlesInv'
    BY <1>2, BundleStartStep, BundleCopyStep, BundleVerifyStep, BundlePublishStep DEF BundleStep
  <2>2. UNCHANGED <<out, build, removed, medium, installer, trees>>
    BY <1>2 DEF BundleStep, BundleStart, BundleCopy, BundleVerify, BundlePublish
  <2> QED
    BY <2>1, <2>2, BuildsStutter, HostStutter
<1>3. ASSUME NEW d \in Dirs, RemoveOutput(d) PROVE PipelineInv'
  <2>1. UNCHANGED <<bundler, bundles, medium, installer, trees>>
    BY <1>3 DEF RemoveOutput
  <2> QED
    BY <1>3, <2>1, RemoveOutputStep, BundlesStutter, HostStutter
<1>4. ASSUME NEW i \in Installs, InstallStep(i) PROVE PipelineInv'
  <2>1. HostInv'
    BY <1>4, InstallReadStep, InstallCheckStep, InstallBeginStep, InstallExtractStep,
       InstallCompareStep, InstallWheelsStep, InstallPublishStep, InstallDiesStep DEF InstallStep
  <2>2. UNCHANGED <<out, build, removed, bundler, bundles>>
    BY <1>4 DEF InstallStep, InstallRead, InstallCheck, InstallBegin, InstallExtract,
                InstallCompare, InstallWheels, InstallPublish, InstallDies
  <2> QED
    BY <2>1, <2>2, BuildsStutter, BundlesStutter
<1>5. CASE Carry
  <2>1. UNCHANGED <<out, build, removed, bundler, bundles>>
    BY <1>5 DEF Carry
  <2> QED
    BY <1>5, <2>1, CarryStep, BuildsStutter, BundlesStutter
<1>6. CASE Spoil
  <2>1. UNCHANGED <<out, build, removed, bundler, bundles>>
    BY <1>6 DEF Spoil
  <2> QED
    BY <1>6, <2>1, SpoilStep, BuildsStutter, BundlesStutter
<1>7. CASE UNCHANGED rvars
  <2>1. UNCHANGED <<out, build, removed, bundler, bundles, medium, installer, trees>>
    BY <1>7 DEF rvars
  <2> QED
    BY <2>1, BuildsStutter, BundlesStutter, HostStutter
<1> QED
  BY <1>1, <1>2, <1>3, <1>4, <1>5, <1>6, <1>7 DEF PipelineNext, BuildSide, HostSide

LEMMA PipelineInvHolds == ASSUME PipelineInv PROVE InstalledAsReleased /\ BuildsStayWhole
<1>1. DOMAIN bundles = Dirs \X Ids /\ DOMAIN trees = Ids
  BY DEF PipelineInv, BundlesInv, HostInv
<1>2. ASSUME NEW at \in Dirs \X Ids, bundles[at] # Nil
      PROVE  LET v == bundles[at] IN
             /\ FromCommit(v.manifest) /\ Release(v.manifest) = at[2]
             /\ v.artifact = Artifact(v.manifest)
             /\ v.sums = [artifact |-> v.artifact, manifest |-> v.manifest]
  <2> DEFINE v == bundles[at]
             dm == v.deployment
  <2>1. Whole(dm) /\ v = Bundle(dm) /\ Release(v.manifest) = at[2]
    BY <1>2 DEF PipelineInv, BundlesInv, BundleSound, IsDeployment
  <2>2. v.artifact = dm.artifact /\ v.manifest = dm.manifest /\ v.sums = dm.sums
    BY <2>1 DEF Bundle
  <2> HIDE DEF v, dm
  <2>3. /\ FromCommit(v.manifest) /\ v.artifact = Artifact(v.manifest)
        /\ v.sums = [artifact |-> v.artifact, manifest |-> v.manifest]
    BY <2>1, <2>2 DEF Whole, Data
  <2> QED
    BY <2>1, <2>3 DEF v
<1>3. \A id \in Ids : TreeSound(id)
  BY DEF PipelineInv, HostInv
<1>4. InstalledAsReleased
  BY <1>1, <1>2, <1>3 DEF InstalledAsReleased, TreeSound
<1> QED
  BY <1>4 DEF PipelineInv, BuildsInv

\* For any repository, builds, bundles and installs, with an operator who
\* removes outputs and swaps or tears the bundle on the medium: a published
\* bundle and an installed release are of one build of the commit they are
\* named after, and no build takes away the files of another.
THEOREM ReleasesStaySound ==
    ASSUME PipelineAssumption
    PROVE  PipelineSpec => []ReleasesHold
<1>1. PipelineInit => PipelineInv
  BY BuildsInit, BundlesInit, HostInit DEF PipelineInv
<1>2. PipelineInv /\ [PipelineNext]_rvars => PipelineInv'
  BY PipelineStep
<1>3. PipelineInv => ReleasesHold
  BY PipelineInvHolds DEF ReleasesHold
<1> QED
  BY <1>1, <1>2, <1>3, PTL DEF PipelineSpec
=============================================================================
