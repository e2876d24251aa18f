\* Every policy of the layers in MCProvisioning.
SPECIFICATION Spec
CONSTANTS
  Policies <- MCPolicies
  LegacyParams <- MCLegacyParams
  Query <- MCQuery
  Environ <- MCEnviron
  Printed <- MCPrinted
  Globs <- MCGlobs
  Blank = "blank"
  None = None
CONSTRAINT Unfetched
INVARIANTS
  TypeOK
  LayoutComplete
  BootedIsAnswered
  
  ConfigMatchesScript
  LastLayerWins
