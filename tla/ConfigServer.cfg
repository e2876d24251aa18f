\* Data directories of up to three files beside the shipped one, every request
\* and one edit during a static request.
SPECIFICATION Spec
CONSTANTS
  DataDirs <- MCDataDirs
  Names <- MCNames
  DebianNames = {"preseed"}
  Unsupported = {"kickstart"}
  Default = "default"
  NoName = "noname"
  NoValue = "novalue"
  Requests <- MCRequests
  StaticName = "helper"
  RefEnvs = {"testing", "noname"}
  Contents = {"missing", "file", "dir", "error"}
  MaxEdits = 1
  None = None
INVARIANTS TypeOK LaterLayerWins ShippedMeansUnchanged  ListingExact EncryptionRespected StaticOrder StaticPrecedence
