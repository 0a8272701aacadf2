\* A volume of 5 blocs and two files.
CONSTANTS
  NSector = 5
  Files = {f1, f2}
SYMMETRY FileSymmetry
SPECIFICATION Spec
INVARIANTS
  TypeOK
  NewBlocIsFresh
  NeverTwiceBetweenFrees
  HeadIsAHeader
  NoBlocLost
  SuperIsSaved
