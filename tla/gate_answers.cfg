SPECIFICATION GateSpec
CONSTANTS
  q1 = q1
  Askers = {q1}
  Domains <- SomeNames
  Static <- SomeStatic
  Forwards <- SomeMatchers
  CatchAllHost <- Endpoint
  Lower <- ToLower
  MaxChanges = 2
INVARIANT GateTypeOK
INVARIANT AllowedWasRouted
INVARIANT DeniedWasUnrouted
