SPECIFICATION FairSpec
CONSTANTS
  k1 = k1
  k2 = k2
  k3 = k3
  Keys = {k1, k2, k3}
  NoKey = nokey
  Torn = torn
  Regenerate = FALSE
  MaxStarts = 3
  MaxKills = 2
  MaxLosses = 2
  MaxRefusals = 2
  MaxSilences = 2
INVARIANT TypeOK
INVARIANT DialsPublishedKey
PROPERTY TunnelComesBack
PROPERTY StopHeeded
CHECK_DEADLOCK FALSE
