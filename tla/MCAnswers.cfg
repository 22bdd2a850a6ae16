\* An answer beside every change of a resource.
CONSTANTS
  CoreSources = {}
  PackSources = {}
  UserSources = {"notes"}
  Versions = {"xOn", "xOff"}
  SourceOf <- Src
  ContentOf <- Bytes
  MeaningOf <- Meaning
  UseOf <- Use
  NoVersion = NoVersion
  Profiles = {"p"}
  NoProfile = NoProfile
  Bundles = {}
  MaxGens = 3
  MaxFailed = 1
  Answers = {a1}
SPECIFICATION AnswerSpec
CHECK_DEADLOCK FALSE
INVARIANTS
  OneGeneration
  TextLeavesWithConsent
