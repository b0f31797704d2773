CONSTANTS
  Name <- MCName
  Words <- MCWords
  SourceFiles <- MCSourceFiles
SPECIFICATION Spec
INVARIANT CpiVerdictIsLexical
INVARIANT UnprovenReadsAreReported
INVARIANT ProofsAreHeard
INVARIANT CandidatesAreUnproven
INVARIANT BumpVerdicts
INVARIANT ArithmeticVerdicts
CHECK_DEADLOCK FALSE
