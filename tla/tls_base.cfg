SPECIFICATION FairSpec
CONSTANTS
  s1 = s1
  s2 = s2
  wildcard = wildcard
  child1 = child1
  child2 = child2
  static = static
  Sessions = {s1, s2}
  Reconciler = reconciler
  ChildOf <- TwoChildren
  Names = {wildcard, child1, child2}
  Wildcard = wildcard
  StaticPolicies = {static}
  OurPolicy = ourpolicy
  Absent = absent
  CaddyfilePolicies = {static}
  CaddyfileNames = absent
  MaxFaults = 1
  MaxRestarts = 1
INVARIANT TypeOK
PROPERTY PoliciesKept
PROPERTY WildcardStaysManaged
PROPERTY SteadyTicksReadOnly
