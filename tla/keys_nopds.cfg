SPECIFICATION Spec
CONSTANTS
  h1 = h1
  h2 = h2
  d1 = d1
  k1 = k1
  app = app
  db = db
  NoEntry = noentry
  Handshakes = {h1, h2}
  Dids = {d1}
  DidOf <- SameDid
  Keys = {k1}
  Offered <- SameKey
  Services = {app, db}
  Pages = 2
  PageOf <- PageBySvc
  TTL = 2
  NegTTL = 1
  Timeout = 1
  MaxTime = 3
  MaxEdits = 0
INVARIANT AcceptedForService
