CONSTANTS
  NoEmail = NoEmail
  Invites = {i1, i2, i3}
  Emails = {e1, e2}
  Api = {a1, a2}
  Requesters = {{"owner"}, {"publisher"}}
  MaxRevived = 1
SPECIFICATION Spec
INVARIANTS
  TypeOK
  OnePendingInvite
PROPERTIES
  LinkIsSpent
