-------------------------- MODULE ReleasePipeline --------------------------
(***************************************************************************)
(* How a release reaches a host: `build-release` turns one git commit into *)
(* three files, `bundle-build` turns those into an offline deployment      *)
(* bundle with the wheels its uv.lock names, an operator carries the       *)
(* bundle to the host, and the installer turns it into releases/<id>.      *)
(* Every hand-over is a directory other processes and the operator write   *)
(* to, so each stage checks what it was given again and again.             *)
(*                                                                         *)
(* A digest is the content itself (SHA-256 is taken to be free of          *)
(* collisions); a file interrupted while it was written holds Partial.     *)
(* The operator replaces a file by a new one and never rewrites it in      *)
(* place: an open descriptor keeps reading what it opened.                 *)
(***************************************************************************)
EXTENDS Integers, FiniteSets, Sequences, FiniteSetsExt

CONSTANTS
    Known,       \* the commits of the repository
    Tree,        \* what git holds at a commit
    Builds,      \* runs of build-release
    Bundlers,    \* runs of bundle-build
    Installs,    \* runs of the installer
    Dirs,        \* directories files are published in
    BuildOrders, \* what an operator may ask build-release for: a commit, a
                 \* directory and the rollback class declared for it
    BundleOrders,\* and bundle-build: a release, a directory, a Python version
    Earlier,     \* the order of a build that was bundled before
    FirstRun,    \* the run that carried it out
    HostRuntime, \* the Python version this host has
    MaxMembers, MaxBytes,  \* archive bounds
    MaxChanges,  \* operator interventions (a bound of the model)
    Nil, Partial

VARIABLES
    out,      \* files of a build: who created each, and what it holds
    build,    \* build-release runs
    bundles,  \* published deployment bundles, by directory and release
    bundler,  \* bundle-build runs
    medium,   \* the bundle directory on the host
    installer,    \* installer runs
    installLock,  \* the installer holding .meyar-ops.lock
    trees,    \* releases/<id> on the host
    removed,  \* files of builds the operator removed (history)
    changes   \* operator interventions so far

rvars == <<out, build, bundles, bundler, medium, installer, installLock, trees, removed, changes>>

----------------------------------------------------------------------------
(* What a commit says of itself, read from its git objects and never run.  *)

Unsafe(t) == {e \in t.files : e.kind # "blob" \/ e.place = "outside"}
Bytes(S) == MapThenSumSet(LAMBDA e : e.size, S)
Has(t, place) == \E e \in t.files : e.place = place

Parents(t) == UNION {r.down : r \in t.revisions}
Acyclic(t) ==
    \A S \in SUBSET {r.id : r \in t.revisions} :
        S # {} => \E r \in t.revisions : r.id \in S /\ r.down \cap S = {}
\* One file per revision, no parent outside the set, no cycle, some head.
Heads(t) == {r.id : r \in t.revisions} \ Parents(t)
HeadsDefined(t) ==
    /\ Has(t, "ini") /\ t.revisions # {}
    /\ \A r, q \in t.revisions : r.id = q.id => r = q
    /\ Parents(t) \subseteq {r.id : r \in t.revisions}
    /\ Acyclic(t)
    /\ Heads(t) # {}

ReleaseId(version, source) == <<version, source>>
SafeName(version) == version \notin {"", "..", "a/b"}

Buildable(c) ==
    /\ c \in Known
    /\ LET t == Tree[c] IN
         /\ t.files # {} /\ Unsafe(t) = {}
         /\ Cardinality(t.files) + 1 =< MaxMembers
         /\ Bytes(t.files) =< MaxBytes
         /\ Has(t, "pyproject") /\ Has(t, "lock")
         /\ SafeName(t.version)
         /\ HeadsDefined(t)

\* A release manifest: the fields its commit determines are the operators
\* above, applied to m.source.
Manifest(b, c, class) == [source |-> c, class |-> class, built |-> b]
Release(m) == ReleaseId(Tree[m.source].version, m.source)
Artifact(m) == [source |-> m.source, manifest |-> m]

----------------------------------------------------------------------------
(* build-release: three files, the checksums last, each created            *)
(* exclusively and removed on failure only by the run that created it.     *)

FileOrder == <<"artifact", "manifest", "sums">>
Name(id, f) == IF f = "sums" THEN <<f>> ELSE <<f, id>>
Exists(d, name) == name \in DOMAIN out[d]
Store(o, d, name, file) == [o EXCEPT ![d] = [n \in DOMAIN @ \cup {name} |->
                                                IF n = name THEN file ELSE @[n]]]
Drop(o, d, names) == [o EXCEPT ![d] = [n \in DOMAIN @ \ names |-> @[n]]]
Mine(b, d, name) == Exists(d, name) /\ out[d][name].by = b

Data(m, f) ==
    CASE f = "artifact" -> Artifact(m)
      [] f = "manifest" -> m
      [] f = "sums" -> [artifact |-> Artifact(m), manifest |-> m]
NoBuild(pc) == [pc |-> pc, dir |-> Nil, manifest |-> Nil, created |-> <<>>]
Written(b) == {Name(Release(build[b].manifest), FileOrder[j]) : j \in 1..Len(build[b].created)}
\* Only paths that still hold the very file this run created.
Cleanup(b, own) ==
    LET d == build[b].dir IN
    Drop(out, d, {n \in own : Mine(b, d, n)})
Current(b) == FileOrder[Len(build[b].created) + 1]

BuildStart(b) ==
    /\ build[b].pc = "idle"
    /\ \E o \in BuildOrders :
         LET m == Manifest(b, o.commit, o.class)
             free == \A j \in 1..3 : ~Exists(o.dir, Name(Release(m), FileOrder[j]))
         IN build' = [build EXCEPT ![b] =
              IF Buildable(o.commit) /\ free
              THEN [pc |-> "create", dir |-> o.dir, manifest |-> m, created |-> <<>>]
              ELSE NoBuild("over")]
    /\ UNCHANGED <<out, bundles, bundler, medium, installer, installLock, trees, removed, changes>>

BuildCreate(b) ==
    LET r == build[b]
        name == Name(Release(r.manifest), Current(b))
    IN
    /\ r.pc = "create"
    /\ \/ /\ ~Exists(r.dir, name)
          /\ out' = Store(out, r.dir, name, [by |-> b, data |-> Partial])
          /\ build' = [build EXCEPT ![b].pc = "write"]
       \/ /\ Exists(r.dir, name)
          /\ out' = Cleanup(b, Written(b))
          /\ build' = [build EXCEPT ![b] = NoBuild("over")]
       \* The file was created but its identity cannot be read: it stays.
       \/ /\ ~Exists(r.dir, name)
          /\ out' = Store(Cleanup(b, Written(b)), r.dir, name, [by |-> b, data |-> Partial])
          /\ build' = [build EXCEPT ![b] = NoBuild("over")]
    /\ UNCHANGED <<bundles, bundler, medium, installer, installLock, trees, removed, changes>>

\* What another run's finished file holds passes the self-check too; an
\* unfinished one ends the run by an exception nobody catches.
BuildWrite(b) ==
    LET r == build[b]
        f == Current(b)
        name == Name(Release(r.manifest), f)
        written == IF Mine(b, r.dir, name)
                   THEN [out EXCEPT ![r.dir][name].data = Data(r.manifest, f)] ELSE out
        next == IF f = "sums" THEN NoBuild("over")
                ELSE [r EXCEPT !.created = Append(@, f), !.pc = "create"]
    IN
    /\ r.pc = "write"
    /\ \/ /\ f = "artifact" => Exists(r.dir, name) /\ written[r.dir][name].data # Partial
          /\ out' = written /\ build' = [build EXCEPT ![b] = next]
       \/ /\ f = "artifact" /\ Exists(r.dir, name) /\ written[r.dir][name].data = Partial
          /\ out' = written /\ build' = [build EXCEPT ![b] = NoBuild("over")]
       \* The disk is full, or the artifact is gone before the self-check.
       \/ /\ out' = Cleanup(b, Written(b) \cup {name})
          /\ build' = [build EXCEPT ![b] = NoBuild("over")]
    /\ UNCHANGED <<bundles, bundler, medium, installer, installLock, trees, removed, changes>>

BuildCrash(b) ==
    /\ build[b].pc \in {"create", "write"}
    /\ build' = [build EXCEPT ![b] = NoBuild("over")]
    /\ UNCHANGED <<out, bundles, bundler, medium, installer, installLock, trees, removed, changes>>

----------------------------------------------------------------------------
(* verify-release, over an artifact a, a manifest m and checksums s.       *)

SchemaValid(m) == m \notin {Nil, Partial}
ArtifactBound(s, a) == s # Partial /\ a = s.artifact
ManifestBound(s, m) == s # Partial /\ m = s.manifest
ArchiveSafe(a, release) ==
    /\ a # Partial
    /\ LET t == Tree[a.source] IN
         /\ Cardinality(t.files) + 1 =< MaxMembers /\ Bytes(t.files) =< MaxBytes
         /\ \A e \in t.files : e.kind = "blob"
         /\ ReleaseId(t.version, a.source) = release
LockBound(m, a) == Tree[a.source].lock = Tree[m.source].lock
EmbeddedSame(m, a) == a.manifest = m
\* Variant: the checksum file is read, and its digests are not compared.
VerifiedUnsummed(a, m, s) ==
    /\ SchemaValid(m) /\ s # Partial
    /\ ArchiveSafe(a, Release(m))
    /\ LockBound(m, a) /\ EmbeddedSame(m, a)
Verified(a, m, s) ==
    /\ SchemaValid(m)
    /\ ArtifactBound(s, a) /\ ManifestBound(s, m)
    /\ ArchiveSafe(a, Release(m))
    /\ LockBound(m, a) /\ EmbeddedSame(m, a)

----------------------------------------------------------------------------
(* bundle-build: private copies, verified; the locked wheels; a rename.    *)

\* What the application may hold: no asset but code, templates and styles.
OnlyApplication(a) == \A e \in Tree[a.source].files : e.place \notin {"asset", "outside"}

\* The packages the lock selects on this runtime: the least set that holds
\* the root's dependencies and is closed under theirs.
Edges(l, p, runtime) == {e.to : e \in {x \in l.deps[p] : runtime \in x.on}}
Selected(l, runtime) ==
    LET all == DOMAIN l.wheels
        closed(S) == /\ Edges(l, "meyar", runtime) \subseteq S
                     /\ \A p \in S \cap all : Edges(l, p, runtime) \subseteq S
    IN {p \in UNION {{e.to : e \in l.deps[q]} : q \in DOMAIN l.deps} :
          \A S \in SUBSET (UNION {{e.to : e \in l.deps[q]} : q \in DOMAIN l.deps}) :
              closed(S) => p \in S}
Fits(l, p) == {w \in l.wheels[p] : w.rank > 0}  \* wheels for this platform
Resolvable(l, runtime) ==
    LET S == Selected(l, runtime) IN
    /\ S \subseteq DOMAIN l.wheels
    /\ {"pillow", "greenlet"} \subseteq S
    /\ \A p \in S : Fits(l, p) # {}
WheelsOf(l, runtime) ==
    [p \in Selected(l, runtime) |->
        (CHOOSE w \in Fits(l, p) : \A v \in Fits(l, p) : w.rank =< v.rank).digest]

\* The deployment manifest repeats the release manifest's fields and binds
\* every file of the bundle by its digest.
Deployment(r) ==
    [artifact |-> r.artifact, manifest |-> r.manifest, sums |-> r.sums, runtime |-> r.runtime,
     wheels |-> WheelsOf(Tree[r.artifact.source].lock, r.runtime)]
Bundle(dm) ==
    [deployment |-> dm, artifact |-> dm.artifact, manifest |-> dm.manifest,
     sums |-> dm.sums, wheels |-> dm.wheels]

NoBundler(pc) == [pc |-> pc, dir |-> Nil, runtime |-> Nil, release |-> Nil,
                  artifact |-> Nil, manifest |-> Nil, sums |-> Nil]
BundleStart(k) ==
    /\ bundler[k].pc = "idle"
    /\ \E o \in BundleOrders :
         bundler' = [bundler EXCEPT ![k] =
            [@ EXCEPT !.pc = "artifact", !.dir = o.dir, !.runtime = o.runtime, !.release = o.release]]
    /\ UNCHANGED <<out, build, bundles, medium, installer, installLock, trees, removed, changes>>

\* The three inputs are three paths: each may come from another directory.
BundleCopy(k) ==
    LET r == bundler[k] IN
    /\ r.pc \in {"artifact", "manifest", "sums"}
    /\ \E d \in Dirs :
         LET name == Name(r.release, r.pc)
             data == out[d][name].data IN
         bundler' = [bundler EXCEPT ![k] =
            IF ~Exists(d, name) THEN NoBundler("over")
            ELSE CASE r.pc = "artifact" -> [r EXCEPT !.artifact = data, !.pc = "manifest"]
                   [] r.pc = "manifest" -> [r EXCEPT !.manifest = data, !.pc = "sums"]
                   [] r.pc = "sums" -> [r EXCEPT !.sums = data, !.pc = "verify"]]
    /\ UNCHANGED <<out, build, bundles, medium, installer, installLock, trees, removed, changes>>

Bundleable(r) ==
    /\ Verified(r.artifact, r.manifest, r.sums)
    /\ Tree[r.manifest.source].python = ">=3.12"
    /\ Release(r.manifest) = r.release
    /\ bundles[<<r.dir, r.release>>] = Nil
    /\ OnlyApplication(r.artifact)
    /\ Resolvable(Tree[r.artifact.source].lock, r.runtime)

BundleVerify(k) ==
    /\ bundler[k].pc = "verify"
    /\ bundler' = [bundler EXCEPT ![k] =
         IF Bundleable(@) THEN [@ EXCEPT !.pc = "fetch"] ELSE NoBundler("over")]
    /\ UNCHANGED <<out, build, bundles, medium, installer, installLock, trees, removed, changes>>

\* A wheel whose bytes differ from the lock's hash, or a target that was
\* published meanwhile, fails the run; its private stage goes with it.
BundlePublish(k) ==
    LET r == bundler[k] IN
    /\ r.pc = "fetch"
    /\ \/ /\ bundles[<<r.dir, r.release>>] = Nil
          /\ bundles' = [bundles EXCEPT ![<<r.dir, r.release>>] = Bundle(Deployment(r))]
          /\ bundler' = [bundler EXCEPT ![k] = NoBundler("over")]
       \/ /\ bundler' = [bundler EXCEPT ![k] = NoBundler("over")]
          /\ UNCHANGED bundles
    /\ UNCHANGED <<out, build, medium, installer, installLock, trees, removed, changes>>

----------------------------------------------------------------------------
(* The operator clears output directories and carries bundles to the host. *)

RemoveOutput(d) ==
    /\ changes < MaxChanges
    /\ \E name \in DOMAIN out[d] :
         /\ out' = Drop(out, d, {name})
         /\ removed' = removed \cup {<<out[d][name].by, name[1]>>}
    /\ changes' = changes + 1
    /\ UNCHANGED <<build, bundles, bundler, medium, installer, installLock, trees>>

Carry ==
    /\ changes < MaxChanges
    /\ \E at \in DOMAIN bundles :
         /\ bundles[at] # Nil
         /\ \E S \in {DOMAIN medium} \cup {{f} : f \in DOMAIN medium} :
              medium' = [f \in DOMAIN medium |->
                            IF f \in S THEN bundles[at][f] ELSE medium[f]]
    /\ medium' # medium
    /\ changes' = changes + 1
    /\ UNCHANGED <<out, build, bundles, bundler, installer, installLock, trees, removed>>

\* A copy that stops half-way, or an installed tree that loses a byte.
Spoil ==
    /\ changes < MaxChanges
    /\ \/ /\ \E f \in DOMAIN medium : medium[f] # Nil /\ medium' = [medium EXCEPT ![f] = Partial]
          /\ UNCHANGED trees
       \/ /\ \E id \in DOMAIN trees :
               /\ trees[id] # Nil
               /\ trees' = [trees EXCEPT ![id].whole = FALSE]
          /\ UNCHANGED medium
    /\ changes' = changes + 1
    /\ UNCHANGED <<out, build, bundles, bundler, installer, installLock, removed>>

----------------------------------------------------------------------------
(* The installer. It reads the deployment manifest once and holds every    *)
(* file of the medium against it, before and while it uses the file.       *)

CheckOrder == <<"artifact", "manifest", "sums", "wheels">>

NoInstaller(pc) == [pc |-> pc, plan |-> Nil, checked |-> <<>>,
                    stage |-> Nil, wheels |-> Nil]
InstallRead(i) ==
    /\ installer[i].pc = "idle"
    /\ installer' = [installer EXCEPT ![i] =
         IF medium.deployment \in {Nil, Partial} THEN NoInstaller("over")
         ELSE [@ EXCEPT !.pc = "check", !.plan = medium.deployment]]
    /\ UNCHANGED <<out, build, bundles, bundler, medium, installLock, trees, removed, changes>>

\* Each file against its digest; the checksum file's two entries against
\* the same digests.
Agrees(plan, f) ==
    /\ medium[f] = plan[f]
    /\ f = "sums" => medium[f].artifact = plan.artifact /\ medium[f].manifest = plan.manifest

InstallCheck(i) ==
    LET r == installer[i]
        f == CheckOrder[Len(r.checked) + 1]
    IN
    /\ r.pc = "check"
    /\ installer' = [installer EXCEPT ![i] =
         IF ~Agrees(r.plan, f) THEN NoInstaller("over")
         ELSE [r EXCEPT !.checked = Append(@, f),
                        !.pc = IF Len(r.checked) + 1 = Len(CheckOrder) THEN "runtime" ELSE "check"]]
    /\ UNCHANGED <<out, build, bundles, bundler, medium, installLock, trees, removed, changes>>

\* An installed release is intact when its tree still has the digest its
\* state records and nothing in it is writable.
Intact(id) == trees[id].whole

InstallBegin(i) ==
    LET r == installer[i]
        id == Release(r.plan.manifest)
    IN
    /\ r.pc = "runtime"
    /\ \/ /\ r.plan.runtime = HostRuntime /\ installLock = Nil /\ trees[id] = Nil
          /\ installLock' = i /\ installer' = [installer EXCEPT ![i].pc = "extract"]
       \/ /\ r.plan.runtime # HostRuntime \/ installLock # Nil
          /\ installer' = [installer EXCEPT ![i] = NoInstaller("over")]
          /\ UNCHANGED installLock
       \/ /\ r.plan.runtime = HostRuntime /\ installLock = Nil /\ trees[id] # Nil
          /\ installer' = [installer EXCEPT ![i] = NoInstaller(
               IF Intact(id) /\ trees[id].bundle = medium.deployment THEN "present" ELSE "failed")]
          /\ UNCHANGED installLock
    /\ UNCHANGED <<out, build, bundles, bundler, medium, trees, removed, changes>>

\* The archive is hashed and read through one descriptor.
Extractable(plan, a) ==
    /\ a = plan.artifact
    /\ ArchiveSafe(a, Release(plan.manifest)) /\ OnlyApplication(a)
    /\ LockBound(plan.manifest, a)
Locked(plan, a) ==
    \A p \in DOMAIN plan.wheels :
        LET listed == Tree[a.source].lock.wheels IN
        p \in DOMAIN listed /\ \E w \in listed[p] : w.digest = plan.wheels[p]
InstallFails(i) ==
    /\ installer' = [installer EXCEPT ![i] = NoInstaller("over")]
    /\ installLock' = Nil

InstallExtract(i) ==
    LET r == installer[i]
        a == medium.artifact
    IN
    /\ r.pc = "extract"
    /\ IF Extractable(r.plan, a)
       THEN /\ installer' = [installer EXCEPT ![i].pc = "compare", ![i].stage = a]
            /\ UNCHANGED installLock
       ELSE InstallFails(i)
    /\ UNCHANGED <<out, build, bundles, bundler, medium, trees, removed, changes>>

InstallCompare(i) ==
    LET r == installer[i] IN
    /\ r.pc = "compare"
    /\ IF EmbeddedSame(medium.manifest, r.stage) /\ Locked(r.plan, r.stage)
       THEN installer' = [installer EXCEPT ![i].pc = "wheels"] /\ UNCHANGED installLock
       ELSE InstallFails(i)
    /\ UNCHANGED <<out, build, bundles, bundler, medium, trees, removed, changes>>

InstallWheels(i) ==
    LET r == installer[i] IN
    /\ r.pc = "wheels"
    /\ IF medium.wheels = r.plan.wheels
       THEN /\ installer' = [installer EXCEPT ![i].pc = "publish", ![i].wheels = medium.wheels]
            /\ UNCHANGED installLock
       ELSE InstallFails(i)
    /\ UNCHANGED <<out, build, bundles, bundler, medium, trees, removed, changes>>

\* The bundle digest the state records is taken from the medium now.
InstallPublish(i) ==
    LET r == installer[i] IN
    /\ r.pc = "publish"
    /\ trees' = [trees EXCEPT ![Release(r.plan.manifest)] =
         [app |-> r.stage, wheels |-> r.wheels, class |-> r.plan.manifest.class,
          bundle |-> medium.deployment, whole |-> TRUE]]
    /\ installer' = [installer EXCEPT ![i] = NoInstaller("over")]
    /\ installLock' = Nil
    /\ UNCHANGED <<out, build, bundles, bundler, medium, removed, changes>>

\* pip fails, the process is killed: the stage is nobody's release and the
\* kernel frees the lock.
InstallDies(i) ==
    /\ installer[i].pc \in {"check", "runtime", "extract", "compare", "wheels", "publish"}
    /\ installer' = [installer EXCEPT ![i] = NoInstaller("over")]
    /\ installLock' = IF installLock = i THEN Nil ELSE installLock
    /\ UNCHANGED <<out, build, bundles, bundler, medium, trees, removed, changes>>

----------------------------------------------------------------------------
PipelineAssumption ==
    /\ \A o \in BuildOrders \cup {Earlier} : o.dir \in Dirs
    /\ Buildable(Earlier.commit)
    /\ FirstRun \notin Builds

Ids == {ReleaseId(Tree[c].version, c) : c \in Known}
EarlierManifest == Manifest(FirstRun, Earlier.commit, Earlier.class)
EarlierBundle ==
    Bundle(Deployment([artifact |-> Artifact(EarlierManifest), manifest |-> EarlierManifest,
                       sums |-> Data(EarlierManifest, "sums"), runtime |-> HostRuntime]))
\* An earlier build was bundled, and its bundle carried to the host.
PipelineInit ==
    /\ out = [d \in Dirs |->
         LET files == IF d = Earlier.dir THEN {FileOrder[j] : j \in 1..3} ELSE {} IN
         [n \in {Name(Release(EarlierManifest), f) : f \in files} |->
             [by |-> FirstRun, data |-> Data(EarlierManifest, n[1])]]]
    /\ build = [b \in Builds |-> NoBuild("idle")]
    /\ bundles = [at \in Dirs \X Ids |->
         IF at = <<Earlier.dir, Release(EarlierManifest)>> THEN EarlierBundle ELSE Nil]
    /\ bundler = [k \in Bundlers |-> NoBundler("idle")]
    /\ medium = EarlierBundle
    /\ installer = [i \in Installs |-> NoInstaller("idle")]
    /\ installLock = Nil
    /\ trees = [id \in Ids |-> Nil]
    /\ removed = {} /\ changes = 0

BuildStep(b) == BuildStart(b) \/ BuildCreate(b) \/ BuildWrite(b) \/ BuildCrash(b)
BundleStep(k) == BundleStart(k) \/ BundleCopy(k) \/ BundleVerify(k) \/ BundlePublish(k)
InstallStep(i) ==
    \/ InstallRead(i) \/ InstallCheck(i) \/ InstallBegin(i) \/ InstallExtract(i)
    \/ InstallCompare(i) \/ InstallWheels(i) \/ InstallPublish(i) \/ InstallDies(i)
\* The builder's machine and the host share the published bundles only.
BuildSide ==
    \/ \E b \in Builds : BuildStep(b)
    \/ \E k \in Bundlers : BundleStep(k)
    \/ \E d \in Dirs : RemoveOutput(d)
HostSide == (\E i \in Installs : InstallStep(i)) \/ Carry \/ Spoil
PipelineNext == BuildSide \/ HostSide
PipelineSpec == PipelineInit /\ [][PipelineNext]_rvars

----------------------------------------------------------------------------
\* A manifest stands for one build of a commit git knows and found fit.
FromCommit(m) == m.source \in Known /\ Buildable(m.source) /\ m = Manifest(m.built, m.source, m.class)

\* A run that failed took only its own files with it: where checksums are
\* published, the artifact and the manifest they bind are beside them, unless
\* the operator removed one. Runs that met in one directory never leave it
\* with half of one and half of another.
BuildsStayWhole ==
    \A d \in Dirs :
        LET sums == out[d][Name(Nil, "sums")] IN
        Exists(d, Name(Nil, "sums")) /\ sums.data # Partial =>
            \A f \in {"artifact", "manifest"} :
                LET name == Name(Release(sums.data.manifest), f) IN
                \/ <<sums.by, f>> \in removed
                \/ /\ Exists(d, name)
                   /\ out[d][name] = [by |-> sums.by, data |-> Data(sums.data.manifest, f)]

\* What is installed under a release's name is what git held at the commit
\* that name is made of, as one build packed it, under the rollback class
\* that build was given, with exactly the wheels its lock selects for this
\* host; and a published bundle is of one build. Files of other builds, torn
\* copies and bundles swapped while they are read never get through.
InstalledAsReleased ==
    /\ \A at \in DOMAIN bundles : bundles[at] # Nil =>
         LET v == bundles[at] IN
         /\ FromCommit(v.manifest) /\ Release(v.manifest) = at[2]
         /\ v.artifact = Artifact(v.manifest)
         /\ v.sums = [artifact |-> v.artifact, manifest |-> v.manifest]
    /\ \A id \in DOMAIN trees : trees[id] # Nil =>
         LET v == trees[id] IN
         /\ FromCommit(v.app.manifest) /\ Release(v.app.manifest) = id
         /\ v.app = Artifact(v.app.manifest)
         /\ v.class = v.app.manifest.class
         /\ v.wheels = WheelsOf(Tree[v.app.source].lock, HostRuntime)

\* What a host installs under a name is what one build made of the commit of
\* that name, and builds that meet in one directory leave each other's files.
ReleasesHold == InstalledAsReleased /\ BuildsStayWhole
=============================================================================
