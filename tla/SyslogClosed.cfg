SPECIFICATION Spec
CONSTANTS
  Threads = {t1, t2}
  NoThread = NoThread
  Idents = {a, b}
  None = None
  Reopen = FALSE
  MaskArgs <- MCMaskArgs
  LogLevels = {3, 4}
  MaxOpens = 2
  MaxCalls = 3
INVARIANTS TypeOK TagAlive TagIsCurrent MaskRestorable
