SPECIFICATION FairSpec
CONSTANTS
  Stored <- AnyStored
  MaxMessages = 2
  MaxAdds = 4
  MaxBoots = 2
  MaxFails = 1
INVARIANTS StartsAgain NothingForgotten LogComplete
PROPERTIES AddsAndSaves
