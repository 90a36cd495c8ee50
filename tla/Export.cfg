SPECIFICATION FairSpec
CONSTANTS
  N = 3
  MaxJobs = 2
  UuidOf <- MCUuidOf
  Filmed <- MCFilmed
  Left <- MCLeft
  Earlier = Earlier
  Torn = Torn
  Hung = {1}
INVARIANTS
  AllAccountedFor
  RegistryMeansWhole
PROPERTIES
  HangDoesNotStarve
  KeepsContract
