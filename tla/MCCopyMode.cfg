CONSTANTS
  Separators = {"."}
  Char = "a"
  Output <- MCOutput
  Sizes <- MCSizes
  Instances <- MCInstances
SPECIFICATION Spec
CHECK_DEADLOCK FALSE
INVARIANTS TypeOK CopiesWhatIsShown UnitsSelected WordsFound
PROPERTIES ParagraphsKept CursorKeepsItsCell OutputLeavesView
