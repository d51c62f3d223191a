CONSTANTS
  Files <- MCFiles
  Library <- MCLibrary
  Trees <- MCTrees
  ImportsOf <- MCImportsOf
  VersionsOf <- MCVersionsOf
  ContractsOf <- MCContractsOf
  Broken = {"token2"}
  ProjectConfigs <- MCProjectConfigs
  MaxChanges = 2
  MaxCrashes = 1
  Absent = Absent
  Torn = Torn
SPECIFICATION MCCompileSpec
INVARIANTS
  FreshUnlessDoubtful
  CompleteAfterSuccess
  DebugFilesName
