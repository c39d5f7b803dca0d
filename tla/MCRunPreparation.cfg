SPECIFICATION Spec
CONSTANTS
  Dirs <- MCDirs
  Words <- MCWords
  Ids <- MCIds
  Alphabet <- MCAlphabet
  Defaults <- MCDefaults
  Cases <- MCCases
  Worktrees <- MCWorktrees
INVARIANTS
  PassedMeansGated
  DeclaredStackWins
  NamedLayerDecides
  GraphIsWhole
  ParseAgrees
PROPERTIES
  RerunRunsTheSame
  VerdictComes
CHECK_DEADLOCK FALSE
