CONSTANTS
  Thread = {t1, t2}
  Mutex = {m1}
  Cond = {k1}
  Rwlock = {}
  Semaphore = {}
  Programs = {{m1, k1}}
  Host = {h1, h2, h3}
  MaxDepth = 2
  MaxCount = 0
  Racy = TRUE
  Wild = Wild
  NoHost = NoHost
  NoThread = NoThread
  NoGuest = NoGuest
SPECIFICATION LockSpec
SYMMETRY Symmetry
INVARIANT MutualExclusion
