SPECIFICATION FairSpec
CONSTANTS
  t1 = t1
  t2 = t2
  NoThread = NoThread
  Threads = {t1, t2}
  max_int = 7
  UNIX_BUFFER_SIZE = 1
  BufLen = 2
  FileMax = 2
  ZeroWrites = {"all", "single", "plain", "intr"}
  InitSize = 1
  Junk = 0
  Byte <- MCByte
  MaxCalls = 1
  Ready = {t2}
  Kind <- BytesKind
  Calls <- LiveCalls
  InitFile <- MCInitFile
  InitBuf <- MCInitBuf
INVARIANT
  TypeOK
PROPERTIES
  HeapUnderLock Completes
