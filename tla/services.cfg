SPECIFICATION ServicesSpec
CONSTANTS
  p1 = p1
  p2 = p2
  p3 = p3
  ann = ann
  e1 = e1
  e2 = e2
  e3 = e3
  s1 = s1
  s2 = s2
  d1 = d1
  d2 = d2
  u1 = u1
  Callbacks = {p1, p2}
  Inbound = {e1, e2, e3, d1}
  CalledBack = {e1, e3}
  Nameless = {e3}
  SenderOf <- TheSenderOf
  Empty = {e2}
  Authorized = {e1, e2, e3}
  Stream <- TheStream
  PageSize = 2
  Staff = {p3, ann}
  Managers = {ann}
  Answers <- TheAnswers
  MaxCrashes = 1
  Docs = {d1, d2, e1}
  ContentOf <- TheContentOf
  FileOf <- TheFileOf
  Indexers = {p3}
  MaxRuns = 1
  MaxFaults = 1
  MaxPages = 3
  MaxPageChars = 2
  ChunkSize = 2
  Overlap = 1
  MaxSection = 2
  Hits = {d1, d2, e1}
  MaxFound = 2
  RrfK = 60
  Levels = {"national_law", "reference"}
  Dialogues = {p3}
  Policies = {d1, d2}
  Tainted = {d2}
  KeptHits = 1
  MaxTurns = 1
  MaxMessages = 2
  Clerks = {p1, p2}
  Subtasks = {s1, s2}
  MaxUnits = 1
  Curators = {p1, p2}
  Sight <- TheSight
  Askers = {ann}
  Units = {u1}
  Verdicts = {"confirmed", "rejected"}
  MaxAnswers = 2
  Filers = {p1, p2}
  MaxMaterial = 2
  MaxDays = 1
  PageLimits = {1}
  Handlers = {p1, p2}
  PlanSteps = 2
  MaxEvents = 8
  MaxResults = 1
  MaxListResults = 2
  MaxTopK = 2
  MaxEnvelope = 3
  MaxCases = 2
  WorkItems = {d1, d2, e1, s2, s1}
  TypeOf <- TheTypeOf
  PageTypes <- ManagerTypes
  LimitOf <- TheLimitOf
  AttentionLimit = 1
  FinishedLimit = 1
  StampsPerDay = 2
  MaxStamp = 4
SYMMETRY RequestSymmetry
INVARIANTS
  ServicesTypeOK
  EventsCountOnce
  NobodyWaitsInVain
  ToldOnce
  
  TimelineInOrder
  DeletedLeavesNoVectors
  ChunksKnowTheirPage
  AnswerSaysWhatFailed
  BetterHitsComeFirst
  AskedOnce
  PagesMissNothing
  WorkTasksShownOnce
CHECK_DEADLOCK FALSE
