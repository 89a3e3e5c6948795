SPECIFICATION Spec
CONSTANTS
  p1 = p1
  p2 = p2
  k1 = k1
  k2 = k2
  nextcloud = nextcloud
  immich = immich
  Procs <- TwoProcs
  Keys <- TwoKeys
  Providers <- TwoProviders
  Retyped <- OneRetyped
  Targets <- TwoBinaries
  BackupsKept = 1
  MaxCopies = 2
  MaxDisturbances = 4
INVARIANT
  ServesConfigured
CHECK_DEADLOCK FALSE
