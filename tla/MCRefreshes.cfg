SPECIFICATION RefreshesSpec
CONSTANTS
  Processes = {p1, p2}
  Contents = {"page", "edited"}
  Extractors = {"parser", "fixed"}
  LastTime = 3
  MaxDisturbances = 1
  Nothing = Nothing
  Feeds <- MCFeeds
  Bodies <- MCBodies
  Seed <- MCSeed
  MaxJobs = 3
  MaxAuthored = 1
  NoRefresh = NoRefresh
  NoBranch = NoBranch
  NoState = NoState
  Ballot <- MCBallot
  Names <- MCNames
  Labels <- MCLabels
  Parent <- MCParent
  CountyExports <- MCCountyExports
  StateExports <- MCStateExports
  PreliminaryExports <- MCPreliminaryExports
  Plans <- MCPlans
  MaxCaptures = 4
  LastTry = 1
  Unknown = Unknown
  mayor = mayor
  council = council
  ada = ada
  bo = bo
  cy = cy
  dee = dee
  paper = paper
  union = union
  district = district
  times = times
  blog = blog
  Races = {mayor, council}
  ChoicesOf <- MCChoices
  Sources = {paper, union, district, times, blog}
  Role <- MCRole
  Category <- MCCategory
  Eligible <- MCEligible
  OverlapGroups <- MCOverlaps
  Comparisons = {times}
  MinimumExplicit = 2
  Grades <- MCGrades
  Unit = 6
  Verdicts <- MCVerdicts
  Items <- MCItems
  MaxDecisions = 3
  NoBuild = NoBuild
  Panel <- MCPanel
  CodeOf <- MCCodes
  Groups <- MCGroups
  Joins <- MCJoins
  RetiredCodes = {"oldc"}
  Gaps = {union}
  BallotOrder <- MCBallotOrder
  Layout <- MCLayout
  Selections <- MCSelections
  Artifacts = {"consensus", "view"}
  MaxExported = 1
  MaxKills = 1
  NoBundle = NoBundle
SYMMETRY MCSymmetry
INVARIANTS
  HistoryIsAChain
  CommittedIsFaithful
  StatedAsCaptured
  PublishedAsScored
  LensIsTheEngine
PROPERTIES
  NoDuplicateCapture
  DenialHolds
  MainIsTold
  ExportIsSound
CHECK_DEADLOCK FALSE
