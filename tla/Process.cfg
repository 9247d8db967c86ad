SPECIFICATION ProcessSpec
CONSTANTS
  Families = {"at", "open", "mount", "umount2", "clone", "mlockall", "splice", "rename", "wait", "option", "facility", "advice", "sysconf", "resource", "which_prio", "ptrace", "sockopt"}
  MaxFlags = 2
  Files = {f, g}
  Names = {a, b}
  Absent = Absent
  MaxCalls = 1
  Half = 4
  RLIM_INFINITY = 7
  Pids = {1, 2}
  ExitCodes = {0, 127, 255}
  KillSignals = {9, 11, 34}
  StopSignals = {19}
  JunkWords = {0, 9, 127}
  MaxInt64 = 3
  MaxWrites = 2
  FirstSize = 2
  PathMax = 5
  MaxChanges = 3
  IntHalf = 4
  LongHalf = 16
  Amounts <- MCAmounts
  Dims = {0, 2, 3}
  Base = 4
  Buffers <- MCBuffers
  Values <- MCValues
  Strings <- MCStrings
  Offsets <- MCOffsets
  MaxAccesses = 2
INVARIANTS FlagsAsNamed StFlagsExact ResultIsTrue LimitsRestorable SoftBelowHard WaitTellsTruth ArgumentsReach FallocateKeeps LinkIsWhole BuildIsWhole
  InBounds GetIsExact ConvAgrees SetIsExact RoundTrip
CHECK_DEADLOCK FALSE
