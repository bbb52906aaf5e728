SPECIFICATION GatheringSpec
CONSTANTS
  author = author
  u1 = u1
  u2 = u2
  robot = robot
  t1 = t1
  api = api
  web = web
  dev = dev
  prod = prod
  awsA = awsA
  awsB = awsB
  awsLocal = awsLocal
  gcp = gcp
  build = build
  deploy = deploy
  scan = scan
  NoSHA = NoSHA
  NoTime = NoTime
  NoStack = NoStack
  AnyMode = AnyMode
  Never = Never
  User = {author, u1, u2, robot}
  Team = {t1}
  Email = {}
  PageSize = 2
  ReeveRun = "now"
  SelfNames = {}
  Domain <- MCDomain
  CIOnly = {awsA, awsB}
  Commits = 2
  Reviewer = {author, u1, robot}
  Check <- MCCheck
  Context = {build, deploy, scan}
  Projects <- MCProjects
  Mode = {"preview", "apply"}
INVARIANTS ApprovalsExact BlockersSeen OneCommit ScopeCovers ProvidersExact
CHECK_DEADLOCK FALSE
