CONSTANTS
  Object <- MCObject
  Variable <- MCVariable
  Predicate <- MCPredicate
  Primitive <- MCPrimitive
  Compound <- MCCompound
  Arity <- MCArity
  Operators <- MCOperators
  Methods <- MCMethods
  InitState <- MCInitState
  InitTasks <- MCInitTasks
  CommandLines <- MCCommandLines
  Horizon = 10
SPECIFICATION Spec
CHECK_DEADLOCK FALSE
INVARIANTS NoPlanMissed FewestSteps
PROPERTY SearchEnds
