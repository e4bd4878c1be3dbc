\* Two requests at a time, one of them cut off.  The clock stops and tokens run
\* out: then there may be nothing left to do.
SPECIFICATION Spec
CONSTANTS
  una = una  vic = vic  t1 = t1  t2 = t2  t3 = t3  r1 = r1  r2 = r2  g1 = g1
  Requests = {r1, r2}
  Mine = r1
  NoOwner = NoOwner
  UserIds = {una, vic}
  Addresses = {"a", "b", "_"}
  Matches <- Like
  GoogleAccounts = {g1}
  Repaired = {"createUser"}
  Passwords = {"old", "new"}
  Tokens = {t1, t2, t3}
  CacheTTL = 1
  Scenarios <- SomeScenarios
CHECK_DEADLOCK FALSE
INVARIANTS
  AccountsSound
  SignInsProved
  MailboxSetsPassword
PROPERTY
  OwnerGetsIn
