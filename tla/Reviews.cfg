SPECIFICATION Spec
CONSTANTS
  c1 = c1
  c2 = c2
  missing = missing
  unreadable = unreadable
  absent = absent
  none = none
  Call = {c1, c2}
  Resource = {"svc"}
  TypeOf <- ServiceType
  Lower <- LowerNames
  NoSpec = missing
  Unreadable = unreadable
  Absent = absent
  NoRequest = none
  LabelsOn = FALSE
  ImmutablesOn = TRUE
  ExclusivesOn = TRUE
  Listing <- Listings
  Body <- Services
  Config <- ServiceConfigs
  Registrations <- ServiceRewatched
  NetworkFaults = FALSE
SYMMETRY CallSymmetry
INVARIANTS
  TypeOK
  ReviewsInProgress
  RejectionsAreJustified
PROPERTIES
  ImplementsAtomicReview
  ReviewedUpdatesKeepImmutables
