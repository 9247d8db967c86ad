SPECIFICATION Spec
CONSTANTS
  t1 = t1
  t2 = t2
  NoThread = NoThread
  Threads = {t1, t2}
  max_int = 7
  UNIX_BUFFER_SIZE = 2
  BufLen = 3
  FileMax = 3
  ZeroWrites = {"single", "plain", "intr"}
  InitSize = 2
  Junk = 0
  Byte <- MCByte
  MaxCalls = 1
  Ready = {t1, t2}
  Kind <- MixedKind
  Calls <- MixedCalls
  InitFile <- MCInitFile
  InitBuf <- MCInitBuf
INVARIANTS
  InBounds CountIsExact BufferIsExact SentIsPrefix
PROPERTY
  ImplementsContract
