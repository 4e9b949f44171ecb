\* One file, two admins, three registrations.
CONSTANTS
  ann = ann  bob = bob  eve = eve  l1 = l1  l2 = l2  p1 = p1  c1 = c1  c2 = c2
  Registrations = {ann, bob, eve}
  Existing = {ann}
  KindOf <- Kinds
  WithProfile = {bob, eve}
  WithPassword = {ann, bob}
  EmailOf <- Emails
  Logins = {l1, l2}
  LoginEmail <- EmailsOfLogins
  RoleSets = {{}, {"admin"}}
  Lifetime = 1
  MaxTime = 1
  MaxFaults = 1
  Nobody = Nobody
  Presigns = {p1}
  Completions = {c1, c2}
  LoginOf <- Tokens
  FileOf <- Named
SPECIFICATION Spec
INVARIANTS TypeOK ProfilesAccounted ObjectsAccounted ReadyByOwner
PROPERTY PrivilegesExpire
CHECK_DEADLOCK FALSE
