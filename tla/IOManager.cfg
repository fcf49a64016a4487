SPECIFICATION Spec
CONSTANTS
  Fd = {f}
  Ctx = {c1, c2}
  Worker = {w1, w2}
  Client = {k}
  PipeCap = 1
  MaxArrivals = 1
  NoCtx = nullctx
  NoFd = nofd
INVARIANTS
  TypeOK
  InterestMatches
  NoDanglingInterest
CHECK_DEADLOCK FALSE
