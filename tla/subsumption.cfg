CONSTANTS
  Object <- MCObject
  Variable <- MCVariable
  Predicate <- MCPredicate
  Primitive = {}
  Compound = {"h", "s"}
  Arity <- MCArity
  Operators <- NoSchemas
  Methods <- NoSchemas
  CheckerOf <- NoCheckers
  Pairs <- MCPairs
SPECIFICATION Spec
INVARIANTS YesIsRight NoIsRight
CHECK_DEADLOCK FALSE
