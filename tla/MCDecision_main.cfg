SPECIFICATION Spec
CONSTANTS
  MCConfigs <- Configs
  MCHitSets <- HitSets
  MCFiles <- Files
  MCCorpus <- Corpus
  MCReferences <- References
  MCDrafts <- Drafts
  MCProfile <- Profile
  MCBucket <- Bucket
  MCRetrievalPolicy <- RetrievalPolicy
  MCPolicies <- Policies
  MCSubjects <- Subjects
  MCBatches <- Batches
  MCInputs <- Inputs
  MCCompared <- Compared
  MCNameProfile <- ShippedNames
  MCNicknames <- Nicknames
  MCSuffixes <- CorporateSuffixes
  MCHonorifics <- PersonHonorifics
  MCCatalogs <- Catalogs
  MCLimits <- Promotion
  MCMade <- Made
  MCFirst <- Base
  MCSpecs <- Specs
INVARIANTS DispositionIsEarned DecisionsSurvive NoteIsGrounded AgreementNeverHurts NameScoresAgree HitsAreReported DeltasHold
CHECK_DEADLOCK FALSE
