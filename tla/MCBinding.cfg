CONSTANTS
  a = a
  b = b
  f1 = f1
  f2 = f2
  x1 = x1
  x2 = x2
  Handles <- MCHandles
  Files <- MCFiles
  Fds <- MCFds
  Addrs <- MCAddrs
  CallsAfterClose = TRUE
SPECIFICATION Spec
INVARIANT
  NoForeignEffect
