CONSTANTS
  Object <- MCObject
  Variable <- MCVariable
  Predicate <- MCPredicate
  Primitive = {"!move", "!light", "!push-01", "!push-02", "!clear"}
  Compound = {"go", "both", "repair", "repair-verify", "go-verify", "both-verify", "check-push"}
  Arity <- MCArity
  Operators <- MCOperators
  Methods <- MCMethods
  CheckerOf <- MCCheckerOf
  Tasks <- MCTasks
  Traces <- MCTraces
  FlagChoices <- MCFlagChoices
  VerifierOf <- MCVerifierOf
  DesiredOf <- MCDesiredOf
  Libraries <- MCLibraries
  DeclaresIds = TRUE
  MaxMethods = 20
SPECIFICATION Spec
INVARIANTS TypeOK OutstandingHold AnnotationsHold GeneralizedMethodsSound
           AnnotationsCovered AnnotationsDecompose CostsAddUp CheckersCanEnd
PROPERTIES LearningEnds
