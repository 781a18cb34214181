CONSTANTS
  Thread = {t1, t2, t3}
  Mutex = {m1}
  Cond = {k1}
  Rwlock = {r1}
  Semaphore = {s1}
  Programs = {{m1, k1}, {r1}, {s1}}
  Host = {h1, h2, h3}
  MaxDepth = 2
  MaxCount = 2
  Racy = FALSE
  Wild = Wild
  NoHost = NoHost
  NoThread = NoThread
  NoGuest = NoGuest
SPECIFICATION LockSpec
SYMMETRY Symmetry
INVARIANTS
  Exclusion
  HandlesLive
  WaitersReachable
  OneWordPerHost
  PostsKept
PROPERTIES
  ImplementsGuestMutex
