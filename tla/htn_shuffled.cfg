CONSTANTS
  Object <- MCObject
  Variable <- MCVariable
  Predicate <- MCPredicate
  Primitive <- MCPrimitive
  Compound <- MCCompound
  Arity <- MCArity
  Operators <- MCOperators
  Methods <- MCAnonymous
  InitState <- MCClosedRoad
  InitTasks <- MCShopping
  CommandLines <- MCShuffled
  DeclaresQValues = TRUE
  InitQ <- MCInitQ
  MaxRuns = 1
SPECIFICATION Spec
CHECK_DEADLOCK FALSE
INVARIANT NoPlanMissed OnlyMissingIdsThrow
