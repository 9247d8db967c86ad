SPECIFICATION Spec
CONSTANTS
  Threads = {t1}
  NoThread = NoThread
  Idents = {a, b}
  None = None
  Reopen = TRUE
  MaskArgs <- MCMaskArgs
  LogLevels = {3, 4}
  MaxOpens = 2
  MaxCalls = 3
INVARIANT TagAlive
