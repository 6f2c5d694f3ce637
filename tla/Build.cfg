SPECIFICATION FairSpec
CONSTANTS
  Platforms <- MCPlatforms
  First = "amd64"
  NumStages = 2
  BaseName <- MCBaseName
  StageName <- MCStageName
  StagePlatform <- MCStagePlatform
  CopyFrom <- MCCopyFrom
  Scratch = "scratch"
  ExportLists <- MCExportLists
  Blocks = 2
  None = "none"
INVARIANTS
  AllPlatforms
  SolvesSeeded
  ExportExact
PROPERTY
  CancelledBuildReturns
