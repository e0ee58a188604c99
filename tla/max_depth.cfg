CONSTANTS
  Object <- MCObject
  Variable <- MCVariable
  Predicate <- MCPredicate
  Primitive <- MCPrimitive
  Compound <- MCCompound
  Arity <- MCArity
  Operators <- MCOperators
  Methods <- MCMethods
  InitState <- MCInitState
  InitTasks <- MCInitTasks
  CommandLines <- MCInOrder
  DeclaresQValues = TRUE
  InitQ <- MCInitQ
  MaxRuns = 1
SPECIFICATION Spec
CHECK_DEADLOCK FALSE
INVARIANT MaxDepthIsTreeDepth
