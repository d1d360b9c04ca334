SPECIFICATION Spec
CONSTANTS
  c1 = c1
  c2 = c2
  missing = missing
  unreadable = unreadable
  absent = absent
  none = none
  Call = {c1}
  Resource = {"idx"}
  TypeOf <- IndexType
  Lower <- LowerNames
  NoSpec = missing
  Unreadable = unreadable
  Absent = absent
  NoRequest = none
  LabelsOn = FALSE
  ImmutablesOn = TRUE
  ExclusivesOn = TRUE
  Listing <- Listings
  Body <- Strings
  Config <- SourcesOnly
  Registrations <- IndexWatched
  NetworkFaults = FALSE
PROPERTY
  ExclusivesEnforced
