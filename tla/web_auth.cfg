SPECIFICATION FairSpec
CONSTANTS
  r1 = r1
  r2 = r2
  admin = admin
  ci = ci
  rw = rw
  ro = ro
  i1 = "i1"
  i2 = "i2"
  acct = acct
  bot = bot
  Requests = {r1, r2}
  Inputs <- SomeInputs
  Bytes = {"a", "b"}
  Account = acct
  Contents <- SomeContents
  Garbage = garbage
  NoRecord = norecord
  Repos <- SomeRepos
  Nobody = nobody
  MaxEdits = 1
INVARIANT TypeOK
PROPERTY ForwardedWasAllowed
PROPERTY DeniedWasNotAllowed
PROPERTY UnverifiedHadNoIssuer
INVARIANT DiscoveredOnce
PROPERTY RequestAnswered
CHECK_DEADLOCK FALSE
