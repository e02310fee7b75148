CONSTANTS
  PageSize = 8
  Unit = 4
  Pages = 2
  Widths = {1, 2, 4}
  AmoWidths = {2, 4}
  Starts <- AroundBoundary
  NotMapped = NotMapped
  MaxAccesses = 2
  MaxChanges = 2
SPECIFICATION Spec
PROPERTIES StoreThroughTables LoadWithinUnit ChangesAreDirty
CHECK_DEADLOCK FALSE
