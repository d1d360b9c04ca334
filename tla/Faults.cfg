SPECIFICATION Spec
CONSTANTS
  c1 = c1
  c2 = c2
  missing = missing
  unreadable = unreadable
  absent = absent
  none = none
  Call = {c1, c2}
  Resource = {"svc"}
  TypeOf <- ServiceType
  Lower <- LowerNames
  NoSpec = missing
  Unreadable = unreadable
  Absent = absent
  NoRequest = none
  LabelsOn = TRUE
  ImmutablesOn = TRUE
  ExclusivesOn = TRUE
  Listing <- Listings
  Body <- OddServices
  Config <- OddConfigs
  Registrations <- ServiceWatched
  NetworkFaults = TRUE
SYMMETRY CallSymmetry
INVARIANT
  ReviewsInProgress
PROPERTIES
  ImplementsAtomicReview
  ReviewedUpdatesKeepImmutables
