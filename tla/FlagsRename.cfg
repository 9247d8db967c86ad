SPECIFICATION FlagsSpec
CONSTANTS
  Families = {"rename"}
  MaxFlags = 1
  Files = {f, g}
  Names = {a, b}
  Absent = Absent
  MaxCalls = 1
PROPERTY NoReplaceKeeps
CHECK_DEADLOCK FALSE
