SPECIFICATION Spec
CONSTANTS
  cA = cA cB = cB acme = acme r1 = r1 r2 = r2 x1 = x1 x2 = x2 x3 = x3 l1 = l1
  Torn = Torn Absent = Absent NoVersion = NoVersion
  MaxRunning = 2 Modes <- MCModes Seed <- MCSeed Offered <- MCOffered Mappings <- MCMappings Analyses <- MCAnalyses Analyzed <- MCAnalyzed
  MaxStarts = 3 MaxStops = 1 MaxTime = 2
INVARIANT ExecutedAsApproved
PROPERTY RegistriesKept
CHECK_DEADLOCK FALSE
