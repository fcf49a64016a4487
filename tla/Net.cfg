CONSTANTS
  Thread = {t1, t2}
  MaxFd = 2
  Slots = 2
  MaxOpened = 3
  NoCtx = NoCtx
  Descriptor = {1, 2}
  MaxSocks = 3
  Listener = {l1, l2}
  Client = {c1}
  SrvWorker = {w1, w2}
  SrvFds = {1, 2}
  MaxStops = 2
  Restarts = TRUE
  Free = Free
  Other = Other

SPECIFICATION NetSpec
CHECK_DEADLOCK FALSE
INVARIANTS NetTypeOK NoStaleContext ModesAgree SocketOwn BindAllOrNothing StrayNeedsTwoStops
PROPERTIES StopCloses AcceptedHandled
