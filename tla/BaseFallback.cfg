\* The fallback to the base templates, as documented.
SPECIFICATION Spec
CONSTANTS
  DataDirs <- MCDataDirs
  Names <- MCNames
  DebianNames = {"preseed"}
  Unsupported = {"kickstart"}
  Default = "default"
  NoName = "noname"
  NoValue = "novalue"
  Requests <- MCRequests
  StaticName = "helper"
  RefEnvs = {"testing", "noname"}
  Contents = {"missing", "file", "dir", "error"}
  MaxEdits = 1
  None = None
INVARIANT FallsBackToBase
