SPECIFICATION FairSpec
CONSTANTS
  s1 = s1
  s2 = s2
  app = app
  db = db
  web = web
  alice = alice
  appAlice = appAlice
  dbAlice = dbAlice
  webAlice = webAlice
  Sessions = {s1}
  Sockets = {s1}
  Reconciler = reconciler
  CatchAll = catchall
  NoSocket = nosocket
  NoForward = noforward
  ChildWildcards = {dbAlice}
  TooLong = {webAlice}
  Users = {alice}
  UserOf <- OneUser
  Services = {app, db, web}
  Names = {appAlice, dbAlice, webAlice}
  Permitted <- Everything
  HostOf <- HostsOfOne3
  RejectDuplicateIds = TRUE
  ManagesWildcard = TRUE
  MaxRetries = 1
  MaxRequests = 2
  MaxFaults = 1
  MaxRestarts = 1
PROPERTY RegisteredGetsServed
PROPERTY CatchAllRestored
PROPERTY DisconnectedFinishes
