SPECIFICATION FairSpec
CONSTANTS
  unreadable = unreadable
  unnamed = unnamed
  none = none
  Files <- Settings
  Names = {"custom"}
  Periods = {90, 99}
  Partial = {0, 50}
  Edits <- OneEdit
  Faults = 3
  Unreadable = unreadable
  Unnamed = unnamed
  None = none
INVARIANTS
  TypeOK
  ListedIsReviewed
  CertificateReplacedInTime
  TrustedUnlessDeleted
PROPERTIES
  ImplementsDeclaration
  
