SPECIFICATION MCSpec
CONSTANTS
  q1 = q1
  q2 = q2
  q3 = q3
  t1 = t1
  t2 = t2
  t3 = t3
  p1 = p1
  m1 = m1
  m2 = m2
  ann = ann
  bob = bob
  news = news
  radio = radio
  s1 = s1
  s2 = s2
  vega = vega
  Anon = Anon
  Free = Free
  Nothing = Nothing
  Macs = {m1, m2}
  Users = {ann, bob}
  Plays = {p1}
  Routes = {news, radio}
  Sources = {s1, s2}
  Portals = {vega}
  Requests = {q1, q2, q3}
  Who <- Asking
  UserOf <- PlaysOfBob
  RouteAsked <- Wanted
  RowsOf <- OneOrTwoRows
  PortalOf <- OnePortal
  MacsOf <- BothMacs
  Limit <- Single
  Stored = {s1}
  MacsFirst = TRUE
  PreferFree = TRUE
  Attempts = 2
  Backoff = 1
  Zaps = 2
  Breaker = 2
  MaxStrikes = 2
  Lapsing = {"hot", "strikes"}
  Tasks = {t1, t2, t3}
  MaxClients = 1
  MaxEvents = 2
  FullIdentity = TRUE
  Order <- BothInOrder
  Checkers = {"sweep", "test"}
  IsSweep <- OnlySweep
  NoMac = NoMac
  MaxChecks = 1
  g1 = g1
  g2 = g2
  c1 = c1
  c2 = c2
  sport = sport
  film = film
  bbc = bbc
  cnn = cnn
  PortalMacs = {m1, m2}
  MacOrder <- BothInOrder
  LiveRows = {s1, s2}
  LiveCmds = {c1, c2, g1}
  Blank = Blank
  Ids = {g1, g2, c1, c2}
  Names = {sport, film, bbc, cnn}
  NoId = NoId
  Unknown = Unknown
  Lineups <- SomeLineups
  MaxCompares = 2
  LinkMacs = {m1}
  Tokens = {k1, k2}
  Tokenless = k0
  StoredToken = k3
  Never = Never
  NoCmd = NoCmd
  Players = {"one", "other"}
  Films = {f1, f2}
  MaxPlays = 1
CHECK_DEADLOCK FALSE
INVARIANTS
  WellTyped BusyIsBusy EveryRouteTried OneStrikePerWalk SessionsHeal
  DisownedByPanel PackagesAgree LessonsHold
PROPERTIES SavedRowsArePlayed
