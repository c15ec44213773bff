CONSTANTS
  IncludeLines = 4
  ClassLines = 4
  FunctionLines = 4
  Macros = {"TEST", "MACRO"}
  TestNames = {"TEST"}
  NormalTrigger = 1
  TestTrigger = 2
  SmallClass = 2
  CppHeaders = {"map", "string"}
  Streams = {}
  SvnDirs = {}
  VcsDirs <- MCVcsDirs
  PathOf <- MCPathOf
  Alpha <- MCAlpha
  Needs <- MCNeeds
  Headers <- MCHeaders
  GuardOf <- MCGuardOf
  OldGuardOf <- MCOldGuardOf
  Wordings <- MCWordings
  Commands <- MCCommands
  Disk <- MCDisk
  FileOf <- MCFileOf
  Categories <- MCCategories
  Nolint <- MCNolint
SPECIFICATION FairSpec
INVARIANTS
  LintTypeOK
  PrintedExactly
  CountsAgree
  ClassesAreOpen
  IncludeOrder
  LongFunctions
PROPERTY EveryFileLinted
CHECK_DEADLOCK FALSE
