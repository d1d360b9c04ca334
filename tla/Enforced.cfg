SPECIFICATION Spec
CONSTANTS
  c1 = c1
  c2 = c2
  missing = missing
  unreadable = unreadable
  absent = absent
  none = none
  Call = {c1, c2}
  Resource = {"idx"}
  TypeOf <- IndexType
  Lower <- LowerNames
  NoSpec = missing
  Unreadable = unreadable
  Absent = absent
  NoRequest = none
  LabelsOn = TRUE
  ImmutablesOn = TRUE
  ExclusivesOn = TRUE
  Listing <- Listings
  Body <- Indices
  Config <- IndexConfigs
  Registrations <- IndexWatched
  NetworkFaults = FALSE
SYMMETRY CallSymmetry
PROPERTIES
  ImmutablesEnforced
  ExclusivesEnforced
  LabelsEnforced
