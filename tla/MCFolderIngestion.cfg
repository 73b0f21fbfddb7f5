SPECIFICATION FairSpec
CONSTANTS
    p1 = p1
    p2 = p2
    q1 = q1
    q2 = q2
    s1 = s1
    s2 = s2
    s3 = s3
    x1 = x1
    A = A
    B = B
    one = one
    two = two
    None = None
    Contents = {A, B}
    Rejected = {}
    MaxAttempts = 2
    Scanners = {s1, s2, s3}
    Paths = {p1, p2, q1, q2}
    Folders <- Opposite
    Library <- TwoSources
    Order <- Sorted
    Root <- ThreeRoots
    Deleters = {x1}
    MaxDocs = 5
    MaxScans = 2
    MaxDeletes = 1
    MaxEdits = 1
CHECK_DEADLOCK FALSE
INVARIANTS
    OneOwnerPerContent
    ScansStayCurrent
PROPERTIES
    EvidenceKept
    ScanEnds
