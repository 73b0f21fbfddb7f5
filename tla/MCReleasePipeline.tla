------------------------- MODULE MCReleasePipeline -------------------------
(***************************************************************************)
(* A behaviour is either the commands of MCHostUpdate on one host, or the  *)
(* way of a release to a host: a build for each update, racing for one      *)
(* directory, one bundle run and an installer run of each operator, beside *)
(* an earlier release's bundle.                                            *)
(***************************************************************************)
EXTENDS MCHostUpdate, ReleasePipeline

CONSTANTS good, asset, link, cyclic, absent, b0, d1, d2, s1, s2

VARIABLE packaging   \* is this behaviour the way of a release?

File(place, kind) == [place |-> place, kind |-> kind, size |-> 1]
UvLock ==
    [deps |-> ("meyar" :> {[to |-> "pillow", on |-> {1, 2}]} @@
               "pillow" :> {[to |-> "greenlet", on |-> {1, 2}], [to |-> "tomli", on |-> {2}]} @@
               "greenlet" :> {} @@ "tomli" :> {}),
     wheels |-> ("pillow" :> {[rank |-> 2, digest |-> "p2"], [rank |-> 1, digest |-> "p1"]} @@
                 "greenlet" :> {[rank |-> 1, digest |-> "g1"], [rank |-> 0, digest |-> "g0"]} @@
                 "tomli" :> {[rank |-> 1, digest |-> "t1"]})]
Plain ==
    [files |-> {File(p, "blob") : p \in {"pyproject", "lock", "ini", "code", "migration"}},
     version |-> "1", python |-> ">=3.12", lock |-> UvLock,
     revisions |-> {[id |-> 1, down |-> {}], [id |-> 2, down |-> {1}]}]
\* A sound commit; one with an image among its sources; one with a symbolic
\* link; one with a cycle of migrations; one git does not know.
MCTree ==
    good :> Plain @@ absent :> Plain
    @@ asset :> [Plain EXCEPT !.files = @ \cup {File("asset", "blob")}]
    @@ link :> [Plain EXCEPT !.files = @ \cup {File("code", "symlink")}]
    @@ cyclic :> [Plain EXCEPT !.revisions = @ \cup {[id |-> 3, down |-> {3}]}]

BuildOrder(c, d, class) == [commit |-> c, dir |-> d, class |-> class]
BundleOrder(c, runtime) == [release |-> <<"1", c>>, dir |-> d1, runtime |-> runtime]
MCEarlier == BuildOrder(good, d2, "FORWARD")
MCBuildOrders == {BuildOrder(c, d1, "APP_ONLY") : c \in {good, asset, link, cyclic, absent}}
MCBundleOrders == {BundleOrder(good, 1), BundleOrder(good, 2), BundleOrder(asset, 1)}

ASSUME PipelineAssumption

\* The two sides share the published bundles, which no later step changes: a
\* behaviour in which an install overlaps a build has the same builds and the
\* same installs as one whose builds ended first.
Ended ==
    /\ \A b \in Builds : build[b].pc = "over"
    /\ \A k \in Bundlers : bundler[k].pc = "over"
Untouched == \A i \in Installs : installer[i].pc = "idle"
WayNext == (Untouched /\ BuildSide) \/ (Ended /\ HostSide)

MCInit ==
    /\ packaging \in BOOLEAN /\ Init
    /\ IF packaging THEN PipelineInit
       ELSE /\ out = [d \in Dirs |-> <<>>] /\ bundles = <<>> /\ medium = Nil /\ trees = <<>>
            /\ build = [b \in Builds |-> NoBuild("idle")]
            /\ bundler = [k \in Bundlers |-> NoBundler("idle")]
            /\ installer = [i \in Installs |-> NoInstaller("idle")]
            /\ installLock = Nil /\ removed = {} /\ changes = 0

\* Bounds: releases are installed before all else, as guards ask only that one
\* is in place and nothing removes one; a second backup is made only for an
\* update that migrates, planned alone, and is begun while the worker of a
\* killed command is alive; and a backup made before any plan, on which no
\* update can rest, is not restored: no command reads what a restore found.
Made(b) == backups[b] # None \/ \E o \in Ops : proc[o].op = "backup" /\ proc[o].bak = b
Planned == {u \in Updates : Plan(u) # None \/ \E o \in Ops : proc[o].op = "prepare" /\ proc[o].upd = u}
Outlived(u) ==
    /\ Planned = {u} /\ Plan(u) # None /\ ClassOf[To(u)] = "FORWARD"
    /\ backups[s1] # None /\ u \in backups[s1].after
Bounded ==
    /\ installed = Releases \/ installed' # installed
    /\ Made(s2)' => \E u \in Updates : Outlived(u)' /\ (Made(s2) \/ worker[u] # "none")
    /\ \A b \in Backups : restored'[b] # restored[b] => backups[b].after # {}

MCNext ==
    \/ ~packaging /\ Next /\ Bounded /\ UNCHANGED <<packaging, rvars>>
    \/ packaging /\ WayNext /\ UNCHANGED <<packaging, vars>>
MCSpec == MCInit /\ [][MCNext]_<<packaging, vars, rvars>>
=============================================================================
