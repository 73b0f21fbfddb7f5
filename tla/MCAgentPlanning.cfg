CONSTANTS
  u1 = u1
  u2 = u2
  m1 = m1
  m2 = m2
  m3 = m3
  t1 = t1
  t2 = t2
  k1 = k1
  k2 = k2
  k3 = k3
  c1 = c1
  c2 = c2
  o1 = o1
  o2 = o2
  None = None
  Members <- MCMembers
  UserOf <- MCUserOf
  TenantOf <- MCTenantOf
  IdOf <- MCIdOf
  Open <- MCOpen
  OldHashes = {u1}
  Sessions = {k1, k2, k3}
  Clients = {c1, c2}
  Operators = {o1, o2}
  Inputs <- MCInputs
  Plans <- MCPlans
  Snapshots <- MCSnapshots
  Coordinators = {"and"}
  Units = {"years"}
  CountOf <- MCCountOf
  OrdinalOf <- MCOrdinalOf
  Denied = {"gender"}
  Nothing = Nothing
  MaxRef = 2
  MaxSteps = 2
  MaxDrifts = 1
SPECIFICATION MCSpec
SYMMETRY Symmetry
INVARIANTS AuthorityIsCurrent CommitOnlyActive OnlyLogoutsDeadlock PlanAnswersMessage
