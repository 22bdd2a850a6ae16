\* A resource is turned off while a failed upload of it waits.
CONSTANTS
  CoreSources = {}
  PackSources = {}
  UserSources = {"notes"}
  Versions = {"xOn", "xOff"}
  SourceOf <- Src
  ContentOf <- Bytes
  MeaningOf <- Meaning
  UseOf <- Use
  NoVersion = NoVersion
  Profiles = {"p"}
  NoProfile = NoProfile
  Bundles = {}
  MaxGens = 3
  MaxFailed = 1
  Answers = {}
SPECIFICATION AnswerSpec
CHECK_DEADLOCK FALSE
INVARIANT
  RevocationStands
