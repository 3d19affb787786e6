SPECIFICATION Spec
CONSTANTS
  p1 = p1
  p2 = p2
  p3 = p3
  m1 = m1
  m2 = m2
  ann = ann
  bob = bob
  news = news
  s1 = s1
  s2 = s2
  Anon = Anon
  Free = Free
  None = None
  Ended = Ended
  Plays = {p1, p2}
  Macs = {m1}
  Users = {ann, bob}
  Routes = {news}
  Sources = {s1}
  UserOf <- OneUser
  RouteOf <- OneRoute
  Chain <- OneMac
  Limit <- Single
  Adopted = {}
  Leasing = {bob}
  Linger = TRUE
  Reaper = TRUE
  PreferFree = FALSE
  Immediate = {p1, p2}
  Attempts = 1
  Restarts = 1
  MaxConn <- OneEach
INVARIANTS
  TypeOK
  LocksAccountedFor
  ParkedIsDrained
  RegisteredHasOwner
CHECK_DEADLOCK FALSE
