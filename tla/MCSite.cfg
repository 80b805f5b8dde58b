SPECIFICATION SiteSpec
CONSTANTS
  Receipts <- MCReceipts
  Archive <- MCArchive
  Upload <- MCUpload
  ReportParts <- MCReportParts
  ReceiptParts <- MCReceiptParts
  IndexParts <- MCIndexParts
  Repeated <- MCRepeated
  NoReceipt = NoReceipt
  MaxInterruptions = 2
  None = None
  Commits = {1, 2}
  Repository <- MCRepository
  Archives <- MCArchives
  Altered <- MCAltered
  Screens = {"shots", "others"}
  MaxAttempts = 2
  MaxEdits = 1
  MaxMoves = 1
  DeployedSites <- MCDeployedSites
  Begun <- MCBegun
  MaxUploads = 3
  MaxByHand = 2
  Bundles <- MCBundles
  Descends <- MCDescends
  Genuine <- MCGenuine
  Site <- MCProduction
  Commit = "c2"
  NoPin = "none"
  NoLocation = NoLocation
  NoContract = NoContract
  StaleDays = 7
  WaitTicks = 4
  ExtraTicks = 1
  Deployments <- MCDeployments
  Content <- MCContent
  Interval = 2
  ActiveWindows = {TRUE}
  MaxErrors = 1
INVARIANTS
  CandidateIsItsSource
  EveryAddressLeads
  CallerAlarmUndisturbed
  EvidenceIsUnambiguous
  SealsAreComplete
PROPERTIES
  NoSilentChange
  ImplementsLog
  RepeatedRetentionSeals
  ConfirmedSoundly
  WaitEnds
CHECK_DEADLOCK FALSE
