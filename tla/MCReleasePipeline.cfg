CONSTANTS
    good = good
    asset = asset
    link = link
    cyclic = cyclic
    absent = absent
    b0 = b0
    d1 = d1
    d2 = d2
    Tree <- MCTree
    Builds = {u1, u2}
    Installs = {o1, o2}
    BuildOrders <- MCBuildOrders
    BundleOrders <- MCBundleOrders
    Earlier <- MCEarlier
    FirstRun = b0
    Nil = Nil
    Known = {good, asset, link, cyclic}
    Bundlers = {k1}
    Dirs = {d1, d2}
    HostRuntime = 1
    MaxMembers = 9
    MaxBytes = 9
    MaxChanges = 1
    Partial = Partial
    s1 = s1
    s2 = s2
    r1 = r1
    r2 = r2
    r3 = r3
    Ops = {o1, o2}
    Releases = {r1, r2, r3}
    First = r1
    HeadOf <- MCHeadOf
    ClassOf <- MCClassOf
    Updates = {u1, u2}
    Backups = {s1, s2}
    None = None
    MaxGens = 3
SPECIFICATION MCSpec
SYMMETRY Sym
INVARIANTS NewCodeNeverOnOldSchema EvidenceHolds 
PROPERTIES FinalizeSeesNewCode
CHECK_DEADLOCK FALSE
