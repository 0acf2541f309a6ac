CONSTANTS
  NULL = NULL
  StringCapacities <- MCStringCapacities
  HashOf <- MCHashOf
  Forms = {"shadowed"}
  ExternalNames = {"g"}
  ExternalTypes = {"i64"}
  ParameterLists <- MCParameterLists
  Definitions <- MCShadowedDefinitions
  Statements = {}
  Conditions = {}
  Results <- MCShadowedResults
  MaxStatements <- MCShadowedMaxStatements
  MaxDepth = 2
  MaxExternals = 1
  MaxCalls = 1
SPECIFICATION Spec
CHECK_DEADLOCK FALSE
INVARIANT ResultIsMeant
