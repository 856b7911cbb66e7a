CONSTANTS
  Tenants = {t1, t2}
  Outlook = OUTLOOK
  ServiceTypes = {OUTLOOK}
  Credentials = {c1, c2}
  Durations = {1, 2}
  Requests = {r1, r2}
  LastDay = 3
  Null = Null
  Emails <- MCEmails
  Users <- MCUsers
  Admins <- MCAdmins
  Reader = "me"
  Lists <- MCLists
  Items <- MCItems
  Callers = {k1, k2}
  a1 = a1
  a2 = a2
  b = b
  Threads = {a1, a2, b}
  Copies <- MCCopies
  LastTime = 3
  MaxMessages = 3
  PageSize = 1
  Asked <- MCRanges
  Windows <- MCWindows
  Starts <- MCStarts
  Colleagues <- MCColleagues
  Viewer = "me"
  Contacts = {"x", "y", "z"}
  Domains = {"acme", "gmail"}
  ClientDomainOf <- MCDomainOf
  Private = {"gmail"}
  SameId <- MCSameId
  Mail <- MCMail
  Grantable <- MCGrantable
  Searches <- MCSearches
  Openings <- MCOpenings
  MaxChanges = 1
SPECIFICATION MCSpec
INVARIANTS
  TypeOK
  OnboardingInOrder
  FrameIsAsAsked
  SecretsStand
  SuppressionIsAsAsked
  HidesAsAsked
  PagesMissNothing
  ShownWasGranted
  HeldIsShown
PROPERTIES
  ShownWasAllowed
SYMMETRY Symmetry
