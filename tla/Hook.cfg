CONSTANTS
  cSleep = cSleep
  cUsleep = cUsleep
  cRead = cRead
  cReadToo = cReadToo
  cWrite = cWrite
  cConnect = cConnect
  cClose = cClose
  fdShared = fdShared
  fdOther = fdOther

  Worker = {w1, w2}
  Call <- MCCall
  Fd = {fdShared, fdOther}
  Kind <- MCKind
  Target <- MCTarget
  Programs <- MCPrograms
  Deadline = {early, late}
  MaxArrivals = 2
  NoCall = NoCall
  NoDeadline = NoDeadline

SPECIFICATION FairSpec
CHECK_DEADLOCK FALSE
INVARIANTS TypeOK FaultCauses TimerHeld
PROPERTIES KeepsRegistration SleeperWakes DataReturned
