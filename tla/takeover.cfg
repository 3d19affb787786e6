SPECIFICATION Spec
CONSTANTS
  p1 = p1
  p2 = p2
  p3 = p3
  m1 = m1
  m2 = m2
  ann = ann
  bob = bob
  news = news
  s1 = s1
  s2 = s2
  Anon = Anon
  Free = Free
  None = None
  Ended = Ended
  Plays = {p1, p2}
  Macs = {m1}
  Users = {ann, bob}
  Routes = {news}
  Sources = {s1, s2}
  UserOf <- OneUser
  RouteOf <- OneRoute
  Chain <- MixedChain
  Limit <- Single
  Adopted = {s2}
  Leasing = {}
  Linger = FALSE
  Reaper = FALSE
  PreferFree = TRUE
  Immediate = {}
  Attempts = 2
  Restarts = 0
  MaxConn <- NoLimit
INVARIANTS
  PipeCounted
  NoOrphanPipe
CHECK_DEADLOCK FALSE
