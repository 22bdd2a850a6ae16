\* The corpus store: a core source, a pack, a resource and two bundles.
CONSTANTS
  CoreSources = {"core"}
  PackSources = {"pack"}
  UserSources = {"notes"}
  Versions = {"c1", "c2", "k1", "xOn"}
  SourceOf <- Src
  ContentOf <- Bytes
  MeaningOf <- Meaning
  UseOf <- Use
  NoVersion = NoVersion
  Profiles = {"p"}
  NoProfile = NoProfile
  Bundles <- TwoBundles
  MaxGens = 3
  MaxFailed = 0
  Answers = {}
SPECIFICATION AnswerSpec
CHECK_DEADLOCK FALSE
INVARIANTS
  VerifiesAtAllTimes
  RollbackIsSafe
PROPERTIES
  ResourcesAreKept
