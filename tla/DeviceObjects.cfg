\* Three threads that use one object of each kind.
SPECIFICATION Spec
CONSTANTS
  t1 = t1
  t2 = t2
  t3 = t3
  pushers = pushers
  poppers = poppers
  done = done
  x = x
  y = y
  w1 = w1
  w2 = w2
  a1 = a1
  a2 = a2
  a3 = a3
  wlan = wlan
  None = None
  Threads <- MCThreads
  Lists <- MCLists
  Times <- FiniteTimes
  Uses <- AllObjects
  Pushers = pushers
  Poppers = poppers
  Size = 2
  Lwm = 1
  IndexMod = 4
  Mails <- MCMails
  Done = done
  Readers <- MCReaders
  BufSz = 2
  Works <- MCWorks
  Delayed <- MCDelayed
  BufferSize = 4
  Bytes <- MCMails
  BlkMaxNum = 3
  RbbSize = 4
  MaxAlloc = 5
  Bufsz = 3
  QueueSize = 3
  Aps <- MCAps
  Keys <- MCMails
  InfoMax = 2
  Reports <- MCReports
  CacheNum = 3
  Users <- MCUsers
  Joiners <- MCJoiners
  Worker = wlan
  Stations <- MCStations
  MishapMax = 1
SYMMETRY Alike
INVARIANTS
  TypeOK
  NoWakeupLost
  WorksServed
  BlocksApart
  SerialKeepsData
  ConfigsStored
  ScanTableSound
  CallsKeepMutex
  StationStateTrue
PROPERTIES
  BuffersKeepData
CHECK_DEADLOCK FALSE
