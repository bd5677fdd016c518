SPECIFICATION Spec
CONSTANTS
  s1 = s1
  s2 = s2
  app = app
  db = db
  web = web
  alice = alice
  appAlice = appAlice
  dbAlice = dbAlice
  webAlice = webAlice
  Sessions = {s1, s2}
  Sockets = {s1, s2}
  Reconciler = reconciler
  CatchAll = catchall
  NoSocket = nosocket
  NoForward = noforward
  ChildWildcards = {}
  TooLong = {}
  Users = {alice}
  UserOf <- OneUser
  Services = {app, db}
  Names = {appAlice, dbAlice}
  Permitted <- NarrowAndWide
  HostOf <- HostsOfOne
  RejectDuplicateIds = TRUE
  ManagesWildcard = TRUE
  MaxRetries = 0
  MaxRequests = 1
  MaxFaults = 1
  MaxRestarts = 1
INVARIANT TypeOK
INVARIANT RegistryBacked
INVARIANT RoutesAuthorised
INVARIANT AnnouncedIsServed
PROPERTY NewerRegistrationKept
PROPERTY ImplementsRegistry
