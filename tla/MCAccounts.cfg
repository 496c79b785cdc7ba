SPECIFICATION MCSpec
CONSTANTS
  People = {p1, p2}
  Wallets = {w1, w2}
  Names = {n}
  Nobody = Nobody
  Callers = {c1, c2}
  MaxRuns = 4
  MaxMishaps = 2
  Members = {p1, p2}
  Journeys = {j1}
  Calls = {c1, c2}
  NoOne = NoOne
  Users = {p1, p2}
  NoUser = NoUser
  Trips = {j1}
  ReportIds = {1, 2, 3}
  Keys = {1, 2, 3}
  Categories = {spam}
  Requests = {s1}
  MaxReports = 1
  Day = 2
  Retention = 2
  Latest = 4
  MaxRulings = 1
  PageSize = 1
SYMMETRY Alike
INVARIANTS SessionForCurrentCredentials IdentitiesLeadHome ShownToItsReader
  ReportsAreErased AtMostTwiceADay PagesMissNothing
CHECK_DEADLOCK FALSE
