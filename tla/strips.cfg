CONSTANTS
  Object <- MCObject
  Variable <- MCVariable
  Predicate <- MCPredicate
  Primitive <- MCPrimitive
  Compound = {}
  Arity <- MCArity
  Operators <- MCNone
  Methods <- MCNone
  Problems <- MCProblems
  Horizon = 10
SPECIFICATION Spec
CHECK_DEADLOCK FALSE
INVARIANTS PlansConfirmed ShortestPlan
PROPERTY SearchEnds
