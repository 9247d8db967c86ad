SPECIFICATION FairSpec
CONSTANTS
  Senders = {t1, t2}
  Requests <- MCRequests
  MaxSends = 2
  sizeof_buf = 2
  Room = 3
  MaxFds = 1
INVARIANTS
  TypeOK SendIsHonest FdsHaveOwners StreamInOrder FdWithItsData EmptyIsEnd RecvfdFinds
PROPERTY
  Delivered
