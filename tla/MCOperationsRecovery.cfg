CONSTANTS
    Calendar <- MCCalendar
    Collecting = TRUE
    LeadDays = 1
    ArtifactWindowDays = 1
    StaleEscalationDays = 2
    CollectionStaleDays = 1
    Artifacts <- MCArtifacts
    LastDate = 5
    MaxOutages = 0
    MaxEdits = 0
    MaxLandings = 0
    NoJob = NoJob
    Links = {u1}
    MaxAlerts = 1
    MaxTrouble = 1
    MaxChanges = 1
    MaxTouches = 0
    NoCheck = NoCheck
    NoAlert = NoAlert
    auto = auto
    person = person
    Sources = {auto, person}
    Policy <- MCPolicy
    Collection = 1
    Issuance = 2
    ElectionDay = 3
    Weekly = 3
    EffectiveFrom = 1
    NoSnapshot = NoSnapshot
    Never = 0
    LastDay = 3
    Snapshots = {s1}
    Outcomes = {"access", "content"}
    MaxFailures = 0
    MaxActs = 0
    NoRun = NoRun
SPECIFICATION OperationsSpec
PROPERTY ClosesOnRecovery
