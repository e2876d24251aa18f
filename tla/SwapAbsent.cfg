\* A suppressed swap entry, from the layers to the installer.
SPECIFICATION Spec
CONSTANTS
  Policies <- MCPolicies
  LegacyParams <- MCLegacyParams
  Query <- MCQuery
  Environ <- MCEnviron
  Printed <- MCPrinted
  Globs <- MCGlobs
  Blank = "blank"
  None = None
INVARIANT SwapSuppressed
