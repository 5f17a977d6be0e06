SPECIFICATION MCSpec
CONSTANTS
  None = None
  All = All
  Nil = Nil
  Unknown = Unknown
  Waiting = Waiting
  Sessions = {s1, s2}
  Requests = {w1, w2}
  Retrievals = {w1, w2}
  Tokens = {1, 2, 3}
  Lifetimes = {1, 3}
  Margin = 2
  Timeout = 1
  MaxTroubles = 1
  MaxTime = 3
  RefundEnds = {"succeeded", "failed"}
  MaxFailures = 2
  Ips = {ip1, ip2}
  Limit = 2
  Window = 2
  MaxIps = 1
  LastInstant = 4
  MaxRequests = 5
  Modes = {"off", "sandbox", "send"}
  MaxTexts = 2
  MaxAttempts = 3
  Keys = {w1, w2}
  Browsers = {1, 2}
  EmailOf <- MCEmail
  Registrations = {1, 2, 3}
  Unique = FALSE
  Origins = {"booking", "detail", "profile"}
  Allowed = {"booking", "profile"}
  Profile = "profile"
  MaxOutside = 1
  MaxLost = 1
  Nobody = 0
  SessionEnds = FALSE
  MaxVersion = 4
  MaxSends = 3
  Nothing = None
  Types = {"large"}
  Capacity <- MCCapacity
  Dates = {1}
  Parties = {3, 5}
  MaxFree = 1
  MaxPresses = 2
  Stays <- MCStays
  Rooms <- MCRooms
  Policies <- MCPolicies
  Percents = {0, 1, 30, 99}
  MaxNights = 5
  MaxAmount = 2000
SYMMETRY MCSymmetry
CHECK_DEADLOCK FALSE
INVARIANTS PriceIsRight StripeSafe TokenSafe ContactSafe AccountsSafe PanelKnows SearchHonest
PROPERTIES KeepsPromise DashboardComplete
