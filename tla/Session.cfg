\* Three requests of one worker.
SPECIFICATION FairSpec
CONSTANTS
  MaxRequest = 3
  Optional <- MCOptional
  Skippable <- MCSkippable
INVARIANTS
  SessionTypeOK
  OwnSettings
PROPERTIES
  AnswersItsRequest
  StuckOnlyOnSilence
