CONSTANTS
  Object <- MCObject
  Variable <- MCVariable
  Predicate <- MCPredicate
  Primitive <- MCPrimitive
  Compound <- MCCompound
  Arity <- MCArity
  Operators <- MCOperators
  Methods <- MCMethods
  InitState <- MCInitState
  InitTasks <- MCInitTasks
  CommandLines <- MCInOrder
  DeclaresQValues = TRUE
  InitQ <- MCInitQ
  MaxRuns = 2
SPECIFICATION Spec
CHECK_DEADLOCK FALSE
INVARIANTS TypeOK SolutionsWellFormed WorkWithinDepth DecompositionsInOrder PlansReplay
  LowestQValueFirst QValuesAccountForPlan LibraryKept
PROPERTIES RunsEnd KeepsPromise
