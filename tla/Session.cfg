SPECIFICATION FairSpec
CONSTANTS
  Policy = "allow"
  Files <- NotYet
  MaxDials = 2
  MaxFaults = 1
INVARIANTS CurrentInUse RightlyRegistered
PROPERTIES RunGoesOn GivesUp
