CONSTANTS
  Files <- MCFiles
  Library <- MCLibrary
  Trees <- MCTrees
  ImportsOf <- MCImportsOf
  VersionsOf <- MCVersionsOf
  ContractsOf <- MCContractsOf
  Broken = {}
  ProjectConfigs <- MCProjectConfigs
  MaxChanges = 2
  MaxCrashes = 0
  Absent = Absent
  Torn = Torn
SPECIFICATION MCCompileSpec
INVARIANTS
  AllArtifactsBuilt
