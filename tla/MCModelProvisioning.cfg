SPECIFICATION MCSpec
CONSTANTS
    Runs = {r1, r2}
    Directs = {d1}
    NPaths = 2
    Unreadable = {2}
    Outcomes = {"COMPLETED", "FAILED", "BUSY", "ERROR"}
    Limit = 2
    MaxDocs = 2
    MaxVersions = 3
    None = None
    Bundles <- MCBundles
    Absent = Absent
    Torn = Torn
    Names = {tagA, tagB, tagC, tagD}
    Manifests = {manifest1, manifest2, manifest3}
    MaxCleanups = 1
    tagA = tagA
    tagB = tagB
    tagC = tagC
    tagD = tagD
    manifest1 = manifest1
    manifest2 = manifest2
    manifest3 = manifest3
SYMMETRY Symmetry
CHECK_DEADLOCK FALSE
INVARIANTS WritesCurrent ModelsPinned
PROPERTIES RunsKeepReady
