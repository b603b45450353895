CONSTANTS
  Files = {f1, f2}
  NoFile = NoFile
  Sizes = {1, 2}
  Texts = {a, b}
  MaxRuns = 3
  MaxEdits = 1
  MaxTime = 4
SPECIFICATION Spec
SYMMETRY Symmetry
CHECK_DEADLOCK FALSE
INVARIANTS
  FlagsNeverMixed
  ArchiveOfStage
  MissesOnlyEditsInCopy
