SPECIFICATION Spec
SYMMETRY ServerSymmetry
CONSTANTS
  Servers = {s1, s2}
  Builds <- MCBuilds
  Level <- MCLevel
  Knows <- MCKnows
  Table <- MCTable
  Catalog <- MCCatalog
  CustomRoles = {c1}
  CustomGrants <- MCCustomGrants
  MaxStarts = 3
  None = None
  Users = {"u"}
  Orgs = {"o1", "o2"}
  OrgOf <- MCOrgOf
  ProjectOf <- MCProjectOf
  Accounts = {"a1"}
  Teams = {"t1", "t2"}
  Projects = {"p1", "p2"}
  Assignable <- MCAssignable
  MaxChanges = 2
INVARIANTS
  RolesWhole
  SchemaWhole
  AuthorizeIsExact
  KeyDecides
  OwnersNeverLockedOut
PROPERTY
  CustomRolesUntouched
CHECK_DEADLOCK FALSE
