SPECIFICATION OfficeSpec
CONSTANTS
  Desks = {"banking", "delivery", "projections", "timeline", "search", "alerts", "tasks", "reports", "contacts", "warehouses", "directory", "blackbook", "staff", "drills", "onboarding", "server"}
  Nil = Nil
  BankLines = {"line1", "line2"}
  BankAccounts = {"usd", "zwg"}
  Days = {1, 9}
  Amounts <- CentsInOut
  Closings <- StatementEnds
  Cashiers = {c1, c2}
  RateToBase <- TwoCurrencies
  NoOne = NoOne
  Senders = {s1, s2}
  MaxAttempts = 2
  MaxPreference = 2
  MaxFaults = 2
  Servers = {v1, v2}
  Handlers = {h1, h2}
  LastVersion = 2
  Facts = {1, 2, 3}
  Voids = {2}
  Moments = {1, 2}
  Documents = {1, 2, 4}
  BookEntries = {3}
  Folded <- FoldedOrder
  PageSize = 1
  Never = Never
  Movers = {m1, m2}
  Recipients = {p1, p2}
  Quantities = {0, 2, 4}
  Levels = {0, 2}
  MaxBreach = 2
  MaxWrites = 3
  Absent = Absent
  Docs = {d1, d2}
  Instants = {0, 1, 3}
  ReportDays = {0, 1, 32, 70}
  Terms = {0, 60}
  Parts = {1, 3}
  MaxPostings = 3
  SnapshotKeys = {k1}
  Accountants = {q1, q2}
  Rules = {"rule"}
  Subjects = {"subject"}
  Subscribers = {"sub1", "sub2"}
  Closers = {"closer1", "closer2"}
  MaxTasks = 2
  Nothing = Nothing
  Contacts = {"contact1", "contact2"}
  Removals = {"removal1", "removal2"}
  Codes = {"code"}
  Clerks = {"clerk1", "clerk2"}
  Unset = Unset
  Warehouses = {"w1", "w2", "w3"}
  WarehouseNames = {"n1", "n2", "n3"}
  Limits = {1, 2}
  Contracted = Contracted
  Unnamed = Unnamed
  Faces = {"plain"}
  Enquirers = {"enquirer1", "enquirer2"}
  Enquiries = {"enquiry1", "enquiry2"}
  DailyLimit = 1
  Hidden = Hidden
  Keys = {"key1", "key2"}
  Importers = {"importer1", "importer2"}
  MaxVersion = 2
  None = None
  Staffers = {"boss", "amy"}
  Principal = "boss"
  StaffRoles = {"OPERATIONS_ADMIN"}
  Requests = {"request1", "request2"}
  Vacant = Vacant
  Manifests = {"manifest"}
  Drills = {"drill"}
  Environments = {"production"}
  Losses <- LostHalfMinutes
  TargetRpo = 1
  Unknown = Unknown
  Subdomains = {"acme"}
  Persons = {"ann", "bob"}
  ReferralCodes = {"code1"}
  Signups = {"signup1", "signup2"}
  Reviewers = {"reviewer1", "reviewer2"}
  MaxReviews = 3
  Clients = {"client1", "client2"}
  MaxPerWindow = 2
  Window = 3
  Second = 2
  Crowd = 2
  CaptureTimeout = 2
  ProbeTimeout = 2
  LastUnit = 5
  MaxRestarts = 1
  Silent = Silent
INVARIANTS  DeliverySound FollowUpsSound 
PROPERTIES OfficeSettles
CHECK_DEADLOCK FALSE
