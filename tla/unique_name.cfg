CONSTANTS
  Body <- MCBody
  CheckBody <- MCCheckBody
  VerifyBody <- MCVerifyBody
  NameOf <- MCNameOf
  Subsumes <- MCSubsumes
  Libraries <- MCFullLibrary
  DeclaresIds = TRUE
  Costs = {2}
  MaxOffers = 2
SPECIFICATION Spec
CHECK_DEADLOCK FALSE
INVARIANT IdIsUniqueName
