SPECIFICATION Spec
CONSTANTS
  W = 1
  MaxIdioms = 12
  Files <- MCFiles
INVARIANTS
  CodeIsWhatIsLeft
  ReachableIsLeast
  IdiomsAreStraightLine
  CountsAreFrequencies
PROPERTIES
  ScanMeetsNoError
  FilesAreAnswered
