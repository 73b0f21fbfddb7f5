--------------------------- MODULE ModelProvisioning ---------------------------
(***************************************************************************)
(* The local model runtime of a host: ops/ai_provision.py installs an      *)
(* Ollama binary, its launchd service and the models an active release     *)
(* names, each as files beside the release, and every request of the       *)
(* application checks them again.  The commands share one lock; the        *)
(* daemon, the children of a killed command and the requests do not.       *)
(*                                                                         *)
(* A file is written in place by _write_new: a command that dies between   *)
(* its creation and its last byte leaves it torn, and nothing in the code  *)
(* removes or replaces a file.                                             *)
(***************************************************************************)
EXTENDS Naturals, FiniteSets

CONSTANTS
    Bundles,      \* [runtime, manifest, models: name -> source of the weights]
    Names,        \* tags a daemon can hold
    Manifests,    \* model manifests, by digest
    MaxCleanups,  \* bound: times an operator clears what a failure left
    Absent, Torn

ProvisioningAssumption ==
    /\ \A b \in Bundles : b.manifest \in Manifests /\ DOMAIN b.models \subseteq Names
    /\ MaxCleanups \in Nat /\ Absent # Torn

VARIABLES
    active,        \* the manifest the active release names
    runtime,       \* runtime.json: the digest it names, Absent or Torn
    dirs,          \* runtimes/<digest>
    binding,       \* service.json: the runtime it binds, Absent or Torn
    plist,         \* the runtime the installed job starts, or Absent
    loaded,        \* the runtime of the daemon launchd keeps alive, or Absent
    tags,          \* name -> source of the model the daemon serves, or Absent
    manifests,     \* digest -> Absent, Torn or "whole"
    modelReceipts, \* digest -> Absent, Torn or [runtime, tags]
    command,       \* the command that holds the lock, if one does
    imports,       \* running `ollama create`s: [name, source, own]
    request,       \* [at, digest] of a request that is about to call the model
    late,          \* names an import wrote after its command was killed
    cleanups

files == <<runtime, dirs, binding, plist, manifests, modelReceipts>>
modelVars == <<active, files, loaded, tags, command, imports, request, late, cleanups>>

NoTags == [n \in Names |-> Absent]
NoRequest == [at |-> "idle", digest |-> Absent]
NewCommand(step, b) == [at |-> step, bundle |-> b, left |-> {}, name |-> Absent, got |-> NoTags]
NoCommand == NewCommand("free", Absent)

ModelsInit ==
    /\ active \in Manifests
    /\ runtime = Absent /\ dirs = {} /\ binding = Absent /\ plist = Absent /\ loaded = Absent
    /\ tags = NoTags
    /\ manifests = [d \in Manifests |-> Absent] /\ modelReceipts = [d \in Manifests |-> Absent]
    /\ command = NoCommand /\ imports = {} /\ request = NoRequest
    /\ late = {} /\ cleanups = 0

At(step) == command.at = step
Free == At("free")
Present(file) == file \notin {Absent, Torn}

-----------------------------------------------------------------------------
(* install_ollama.                                                         *)

\* runtime.json of another digest, a torn one, or a directory without one
\* are conflicts; the same whole one is already installed.
MoveRuntime(b) ==
    /\ Free /\ runtime = Absent /\ b.runtime \notin dirs
    /\ dirs' = dirs \cup {b.runtime}
    /\ command' = NewCommand("runtime", b)
    /\ UNCHANGED <<active, runtime, binding, plist, manifests, modelReceipts, loaded, tags, imports,
                   request, late, cleanups>>

WriteRuntime ==
    /\ At("runtime")
    /\ IF runtime = Absent THEN runtime' = Torn /\ UNCHANGED command
       ELSE runtime' = command.bundle.runtime /\ command' = NoCommand
    /\ UNCHANGED <<active, dirs, binding, plist, manifests, modelReceipts, loaded, tags, imports,
                   request, late, cleanups>>

-----------------------------------------------------------------------------
(* run_ollama_service.                                                     *)

RuntimeValid == Present(runtime) /\ runtime \in dirs

\* _service_state and _installed_plist: the record, the runtime and the
\* installed job agree.
ServiceValid == RuntimeValid /\ binding = runtime /\ plist = binding

InstallService ==
    /\ Free /\ RuntimeValid
    /\ binding \in {Absent, runtime} /\ plist \in {Absent, runtime}
    /\ command' = NewCommand("service", Absent)
    /\ UNCHANGED <<active, files, loaded, tags, imports, request, late, cleanups>>

WriteService ==
    /\ At("service") /\ binding # runtime
    /\ binding' = IF binding = Absent THEN Torn ELSE runtime
    /\ UNCHANGED <<active, runtime, dirs, plist, manifests, modelReceipts, loaded, tags, command,
                   imports, request, late, cleanups>>

\* The job is written beside its place and linked: never torn.
PublishPlist ==
    /\ At("service") /\ binding = runtime
    /\ plist' = runtime /\ command' = NoCommand
    /\ UNCHANGED <<active, runtime, dirs, binding, manifests, modelReceipts, loaded, tags, imports,
                   request, late, cleanups>>

\* Start, stop and restart; an import does not survive its daemon.
Launch ==
    /\ Free /\ ServiceValid
    /\ loaded' \in {plist, Absent}
    /\ imports' = IF loaded' = loaded THEN imports ELSE {}
    /\ UNCHANGED <<active, files, tags, command, request, late, cleanups>>

-----------------------------------------------------------------------------
(* install_models.                                                         *)

\* Variant: a name is taken only by a receipt of the same manifest.
NamesFreeOfReceipt(b) == modelReceipts[b.manifest] = Absent
\* No tag is overwritten: a name the daemon serves belongs to someone.
NamesFree(b) == \A n \in DOMAIN b.models : tags[n] = Absent

StartModels(b) ==
    /\ Free
    /\ active = b.manifest
    /\ ServiceValid /\ runtime = b.runtime /\ loaded = runtime
    /\ modelReceipts[b.manifest] = Absent /\ NamesFree(b) /\ manifests[b.manifest] = Absent
    /\ command' = [NewCommand("import", b) EXCEPT !.left = DOMAIN b.models]
    /\ UNCHANGED <<active, files, loaded, tags, imports, request, late, cleanups>>

StartImport ==
    /\ At("import")
    /\ \E n \in command.left :
         /\ imports' = imports \cup {[name |-> n, source |-> command.bundle.models[n], own |-> TRUE]}
         /\ command' = [command EXCEPT !.at = "create", !.left = @ \ {n}, !.name = n]
    /\ UNCHANGED <<active, files, loaded, tags, request, late, cleanups>>

ImportEnds ==
    /\ At("create")
    /\ \E i \in imports :
         /\ i.own
         /\ tags' = [tags EXCEPT ![i.name] = i.source]
         /\ imports' = imports \ {i}
    /\ command' = [command EXCEPT !.at = "read"]
    /\ UNCHANGED <<active, files, loaded, request, late, cleanups>>

\* What the receipt will say is what the daemon says after the import.
ReadTag ==
    /\ At("read") /\ loaded # Absent
    /\ command' = [command EXCEPT !.at = "import", !.got[command.name] = tags[command.name]]
    /\ UNCHANGED <<active, files, loaded, tags, imports, request, late, cleanups>>

\* Manifest first, receipt last, each created and then filled.
WriteManifest ==
    /\ At("import") /\ command.left = {}
    /\ LET d == command.bundle.manifest IN
         /\ manifests[d] # "whole"
         /\ manifests' = [manifests EXCEPT ![d] = IF @ = Absent THEN Torn ELSE "whole"]
    /\ UNCHANGED <<active, runtime, dirs, binding, plist, modelReceipts, loaded, tags, command,
                   imports, request, late, cleanups>>

WriteReceipt ==
    /\ At("import") /\ command.left = {}
    /\ LET d == command.bundle.manifest
           whole == [runtime |-> command.bundle.runtime, tags |-> command.got]
       IN /\ manifests[d] = "whole"
          /\ modelReceipts' = [modelReceipts EXCEPT ![d] = IF @ = Absent THEN Torn ELSE whole]
          /\ command' = IF modelReceipts[d] = Absent THEN command ELSE NoCommand
    /\ UNCHANGED <<active, runtime, dirs, binding, plist, manifests, loaded, tags, imports,
                   request, late, cleanups>>

-----------------------------------------------------------------------------
(* What can happen to a command, its children and its daemon.              *)

\* Any failure: an import that fails or takes too long, a full disk, a daemon
\* that does not answer, an interrupt.  Nothing that was done is undone.
Fail ==
    /\ ~Free /\ command' = NoCommand
    /\ imports' = {i \in imports : ~i.own}
    /\ UNCHANGED <<active, files, loaded, tags, request, late, cleanups>>

\* Killed outright: the kernel frees the lock, and the import goes on.
Killed ==
    /\ ~Free /\ command' = NoCommand
    /\ imports' = {[i EXCEPT !.own = FALSE] : i \in imports}
    /\ UNCHANGED <<active, files, loaded, tags, request, late, cleanups>>

OrphanEnds ==
    /\ \E i \in imports :
         /\ ~i.own
         /\ tags' = [tags EXCEPT ![i.name] = i.source]
         /\ late' = late \cup {i.name}
         /\ imports' = imports \ {i}
    /\ UNCHANGED <<active, files, loaded, command, request, cleanups>>

\* launchd starts the daemon again, from the job that is installed.
Restart ==
    /\ command' = NoCommand /\ imports' = {} /\ request' = NoRequest
    /\ loaded' = plist
    /\ UNCHANGED <<active, files, tags, late, cleanups>>

\* An activation, an update or a rollback moves the release pointer.
SwitchRelease ==
    /\ Free
    /\ active' \in Manifests \ {active}
    /\ UNCHANGED <<files, loaded, tags, command, imports, request, late, cleanups>>

\* The documented inspection after a failure: what no whole file names goes.
CleanUp ==
    /\ Free /\ cleanups < MaxCleanups /\ cleanups' = cleanups + 1
    /\ LET whole == {d \in Manifests : Present(modelReceipts[d])}
           Kept(n) == \E d \in whole : modelReceipts[d].tags[n] # Absent
       IN /\ modelReceipts' = [d \in Manifests |-> IF d \in whole THEN modelReceipts[d] ELSE Absent]
          /\ manifests' = [d \in Manifests |-> IF d \in whole THEN manifests[d] ELSE Absent]
          /\ tags' = [n \in Names |-> IF Kept(n) THEN tags[n] ELSE Absent]
    /\ runtime' = IF runtime = Torn THEN Absent ELSE runtime
    /\ dirs' = dirs \cap {runtime'}
    /\ binding' = IF binding = Torn THEN Absent ELSE binding
    /\ UNCHANGED <<active, plist, loaded, command, imports, request, late>>

-----------------------------------------------------------------------------
(* assert_runtime_local_identity, before every request to the daemon.      *)

Pinned(d) ==
    \A n \in Names : modelReceipts[d].tags[n] \in {Absent, tags[n]}

CheckReceipt ==
    /\ request.at = "idle"
    /\ Present(modelReceipts[active]) /\ manifests[active] = "whole"
    /\ ServiceValid /\ modelReceipts[active].runtime = runtime
    /\ request' = [at |-> "receipt", digest |-> active]
    /\ UNCHANGED <<active, files, loaded, tags, command, imports, late, cleanups>>

CheckTags ==
    /\ request.at = "receipt"
    /\ request' = IF loaded = runtime /\ Pinned(request.digest)
                    THEN [request EXCEPT !.at = "tags"] ELSE NoRequest
    /\ UNCHANGED <<active, files, loaded, tags, command, imports, late, cleanups>>

\* The release may have changed while the daemon answered.
GoesOut ==
    /\ request.at = "tags" /\ request.digest = active
    /\ request' = NoRequest
    /\ UNCHANGED <<active, files, loaded, tags, command, imports, late, cleanups>>

ReleaseChanged ==
    /\ request.at = "tags" /\ request.digest # active
    /\ request' = NoRequest
    /\ UNCHANGED <<active, files, loaded, tags, command, imports, late, cleanups>>

ModelsNext ==
    \/ \E b \in Bundles : MoveRuntime(b) \/ StartModels(b)
    \/ WriteRuntime \/ InstallService \/ WriteService \/ PublishPlist \/ Launch
    \/ StartImport \/ ImportEnds \/ ReadTag \/ WriteManifest \/ WriteReceipt
    \/ Fail \/ Killed \/ OrphanEnds \/ Restart \/ SwitchRelease \/ CleanUp
    \/ CheckReceipt \/ CheckTags \/ GoesOut \/ ReleaseChanged

ModelsSpec == ModelsInit /\ [][ModelsNext]_modelVars

-----------------------------------------------------------------------------
\* What a receipt vouches for stays true, through every later installation,
\* failure, clean-up and change of release, so that a release can be returned
\* to without installing its models again, and a request that has seen the tags
\* still finds them when it goes out.  An import that outlived a killed command
\* is the one thing that can write over a name.
ModelsPinned ==
    /\ \A d \in {x \in Manifests : Present(modelReceipts[x])} :
          /\ manifests[d] = "whole"
          /\ modelReceipts[d].runtime = runtime /\ runtime \in dirs
          /\ \A n \in Names \ late : modelReceipts[d].tags[n] \in {Absent, tags[n]}
    /\ request.at = "tags" /\ request.digest = active =>
          /\ Present(modelReceipts[request.digest])
          /\ \A n \in Names \ late : modelReceipts[request.digest].tags[n] \in {Absent, tags[n]}
=============================================================================
