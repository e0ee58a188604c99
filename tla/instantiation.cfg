CONSTANTS
  Object <- MCObject
  Variable <- MCVariable
  Predicate <- MCPredicate
  Primitive <- MCNoNames
  Compound <- MCNoNames
  Arity <- MCNone
  Operators <- MCNone
  Methods <- MCNone
  CheckerOf <- MCNone
  TypeOf <- MCTypeOf
  Calls <- MCCalls
SPECIFICATION Spec
CHECK_DEADLOCK FALSE
INVARIANTS FoundAreInstances NoInstanceMissed
PROPERTY SearchEnds
