\* Three alike threads that wait for two blocks with and without a time limit.
SPECIFICATION Spec
CONSTANTS
  t1 = t1
  t2 = t2
  t3 = t3
  event = event
  receivers = receivers
  senders = senders
  readers = readers
  pool = pool
  x = x
  y = y
  b1 = b1
  b2 = b2
  None = None
  Threads <- MCThreads
  Lists <- MCLists
  Times <- FiniteTimes
  Uses <- MemPoolOnly
  Flag = "FIFO"
  Prio <- SamePrio
  Event = event
  Events <- Bits
  MbReceivers = receivers
  MbSenders = senders
  MbSize = 2
  MqReceivers = readers
  MqSize = 2
  Pool = pool
  PoolBlocks <- MCBlocks
  MaxWaiters = 3
  MemSize = 10
  Header = 1
  MinSize = 2
  Mails <- MCMails
SYMMETRY Alike
INVARIANTS
  FreesResumeThreads
CHECK_DEADLOCK FALSE
