SPECIFICATION AdmissionFairSpec
CONSTANTS
  c1 = c1
  missing = missing
  unreadable = unreadable
  unnamed = unnamed
  absent = absent
  none = none
  Files <- OneSetting
  Names = {}
  Periods = {99}
  Partial = {0}
  Edits = {}
  Faults = 2
  Unreadable = unreadable
  Unnamed = unnamed
  None = none
  Call = {c1}
  Resource = {"svc"}
  TypeOf <- ServiceType
  Lower <- LowerNames
  NoSpec = missing
  Absent = absent
  NoRequest = none
  LabelsOn = FALSE
  ImmutablesOn = TRUE
  ExclusivesOn = FALSE
  Listing <- Listings
  Body <- Services
  Config <- FixClass
PROPERTIES
  
  
  RequestsOutliveTheProcess
