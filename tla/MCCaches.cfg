SPECIFICATION Spec
CONSTANTS
  Files = {"main", "util"}
  Prelude = {}
  MaxVersion = 1
  Imports <- MCImports
  Setups = {"debug", "shared"}
  EntryOf <- MCEntryOf
  Placed <- MCPlaced
  Undo = {TRUE, FALSE}
  Checkers = {c1, c2}
  Inodes = {i1, i2, i3}
  Broken <- MCBroken
  HasCompanion <- MCHasCompanion
  MaxWrites = 3
  NoFile = NoFile
  NoSetup = "none"
SYMMETRY Symmetric
INVARIANTS AnswersCurrent BuildsAnswerCurrent UnchangedIsReused
CHECK_DEADLOCK FALSE
