------------------------- MODULE MCModelProvisioning -------------------------
(***************************************************************************)
(* A behaviour is either the analysis of documents by a model, or the      *)
(* installation of the models and the check each request makes of them.    *)
(***************************************************************************)
EXTENDS MCCandidateAnalysis, ModelProvisioning

CONSTANTS tagA, tagB, tagC, tagD, manifest1, manifest2, manifest3

VARIABLE provisioning   \* is this behaviour an installation?

(* Two sets of models of their own, and one that shares a name with each.  *)
MCBundles ==
    {[runtime |-> "q1", manifest |-> manifest1, models |-> tagA :> 1 @@ tagB :> 2],
     [runtime |-> "q1", manifest |-> manifest2, models |-> tagC :> 3 @@ tagD :> 5],
     [runtime |-> "q1", manifest |-> manifest3, models |-> tagA :> 4 @@ tagD :> 5]}

ASSUME ProvisioningAssumption

MCInit ==
    /\ provisioning \in BOOLEAN /\ Init
    /\ IF provisioning THEN ModelsInit
       ELSE /\ active = Absent
            /\ runtime = Absent /\ dirs = {} /\ binding = Absent /\ plist = Absent /\ loaded = Absent
            /\ tags = NoTags /\ manifests = [d \in Manifests |-> Absent]
            /\ modelReceipts = [d \in Manifests |-> Absent] /\ command = NoCommand
            /\ imports = {} /\ request = NoRequest /\ late = {} /\ cleanups = 0

MCNext ==
    \/ ~provisioning /\ Next /\ UNCHANGED <<provisioning, modelVars>>
    \/ provisioning /\ ModelsNext /\ UNCHANGED <<provisioning, vars>>

MCSpec == MCInit /\ [][MCNext]_<<provisioning, vars, modelVars>>
=============================================================================
