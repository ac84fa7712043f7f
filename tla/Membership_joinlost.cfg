CONSTANTS
  NoOrg = NoOrg
  Users = {u1}
  Orgs = {o1}
  ClerkRoles = {"org:admin", "org:member"}
  EditedRoles = {"publisher"}
  MaxJoins = 1
  MaxRepeats = 1
  MaxPatches = 1
SPECIFICATION TeamFairSpec
PROPERTIES
  JoiningAdmits
CHECK_DEADLOCK FALSE
