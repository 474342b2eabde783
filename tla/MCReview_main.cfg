SPECIFICATION Spec
CONSTANTS
  a1 = a1 a2 = a2 a3 = a3 c1 = c1 c2 = c2 d1 = d1 k1 = k1 k2 = k2 k3 = k3 b1 = b1 b2 = b2 b3 = b3 b4 = b4 Absent = Absent Torn = Torn Nothing = Nothing
  Profiles <- MCProfiles Sources <- MCSources VendorTenants = {"t1", "t2"} VendorPostgres = FALSE
  MaxVendorSends = 4 MaxVendorStops = 1 MaxVendorFaults = 1
  Tenants = {"", "t1", "*"} Registries <- MCRegistries Routes <- MCRoutes Skew = 0
  MaxTTL = 1 MaxClock = 1 MaxTokens = 1 MaxRequests = 3 MaxCalls = 2 MaxRestarts = 2
  CaseRequests <- MCCaseRequests CaseSeeds <- MCCaseSeeds CasePostgres = TRUE
  MaxCaseRunning = 2 MaxCaseSends = 3 MaxCaseStops = 2 MaxCaseFaults = 1
  DraftRequests <- MCDraftRequests Corpus <- MCCorpus CaseTenant = "t1" Terms <- MCTerms TopK = 2
  Outputs <- Replies Verdicts <- MCVerdicts DraftPostgres = TRUE MaxDraftSends = 3 MaxDraftStops = 1
INVARIANTS CaseVerifies AppliedOnce ReplayIsExact ReviewsStand AccessHolds
PROPERTY DatabaseFollows
CHECK_DEADLOCK FALSE
