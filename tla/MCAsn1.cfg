SPECIFICATION Spec
CONSTANTS
  Base = 16
  Arc = 5
  Width = 4
  Documents <- SomeDocuments
  Corrupted <- SomeCorrupted
CHECK_DEADLOCK FALSE
INVARIANTS
  ReadsWhatWasWritten
  EndedTagsNest
PROPERTY ErrorsLast
