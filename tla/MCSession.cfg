CONSTANTS
  NULL = NULL
  StringCapacities <- MCStringCapacities
  HashOf <- MCHashOf
  Forms = {}
  ExternalNames = {"g"}
  ExternalTypes = {"i64"}
  ParameterLists <- MCParameterLists
  Definitions <- MCDefinitions
  Statements <- MCStatements
  Conditions <- MCConditions
  Results <- MCResults
  MaxStatements <- MCMaxStatements
  MaxDepth = 2
  MaxExternals = 1
  MaxCalls = 1
SPECIFICATION Spec
CHECK_DEADLOCK FALSE
INVARIANTS TypeOK NamesAreCanonical FrameKept ResultIsMeant
PROPERTIES TypesAreCheapest ImplementsLexical
