CONSTANTS
  NoOrg = NoOrg
  Users = {u1}
  Orgs = {o1, o2}
  ClerkRoles = {"org:admin"}
  EditedRoles = {"publisher"}
  MaxJoins = 2
  MaxRepeats = 1
  MaxPatches = 1
SPECIFICATION TeamSpec
INVARIANTS
  TeamTypeOK
  TeamFollowsClerk
SYMMETRY Interchangeable
PROPERTIES
  RemovedStaysRemoved
CHECK_DEADLOCK FALSE
