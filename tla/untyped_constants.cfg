CONSTANTS
  Variable <- MCVariable
  DomainFiles <- MCUntypedConstants
  ProblemFiles <- MCProblemFiles
  StripsFiles <- MCStripsFiles
  MaxRuns = 3
SPECIFICATION Spec
CHECK_DEADLOCK FALSE
INVARIANT WritesThePddlOfTheDomain
