CONSTANTS
  Body <- MCBody
  CheckBody <- MCCheckBody
  VerifyBody <- MCVerifyBody
  NameOf <- MCNameOf
  Subsumes <- MCSubsumes
  Libraries <- MCLibraries
  DeclaresIds = TRUE
  Costs = {2}
  MaxOffers = 3
SPECIFICATION Spec
INVARIANTS TypeOK NoRedundantMethod NoTwins IdsUnique
PROPERTIES NothingForgotten ObservationsCounted LoopsEnd
CHECK_DEADLOCK FALSE
