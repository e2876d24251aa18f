\* Small mappings files and every order of polls and selections of one host.
SPECIFICATION Spec
CONSTANTS
  t1 = t1
  t2 = t2
  t3 = t3
  None = None
  MappingsFiles <- Files
  Name = {t1, t2, t3}
  Identity <- Identities
  Form <- Forms
  Environ <- Variables
  MacName <- MacText
  Decimal <- Digits
INVARIANTS TypeOK ValidatedResolves ListedIffAccepted
PROPERTY TriedIsBooted
