SPECIFICATION Spec
CONSTANTS
  Fd = {f}
  Ctx = {c1, c2}
  Worker = {w1}
  Client = {k}
  PipeCap = 2
  MaxArrivals = 1
  NoCtx = nullctx
  NoFd = nofd
PROPERTIES
  PipeDrained
CHECK_DEADLOCK FALSE
