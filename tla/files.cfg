CONSTANTS
  Variable <- MCVariable
  DomainFiles <- MCDomainFiles
  ProblemFiles <- MCProblemFiles
  StripsFiles <- MCStripsFiles
  MaxRuns = 3
SPECIFICATION Spec
CHECK_DEADLOCK FALSE
INVARIANT RewritesAreHarmless
