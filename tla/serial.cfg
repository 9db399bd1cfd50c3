SPECIFICATION Spec
CONSTANTS
  c1 = c1
  a1 = a1
  a2 = a2
  agent = agent
  w1 = w1
  w2 = w2
  NoWorker = NoWorker
  NoInstallation = NoInstallation
  Workers = {w1, w2}
  Cases = {c1}
  Approvals <- TwoApprovals
  CaseOf <- OneCase
  Installations = {agent}
  InstallationOf <- FirstByAgent
  StatusWrites = {a1}
  Registered = {a1, a2}
  MaxAttempts = 2
  MaxClaims = 2
  Overlap = {}
  Replays = {"dispatcher"}
INVARIANTS
  TypeOK
  NoOrphanExecution
  OneLivePerCase
  CaseTracksWrite
  ClaimNeverAborts
PROPERTIES
  ImplementsContract
  LegalCaseMoves
CHECK_DEADLOCK FALSE
SYMMETRY WorkerSymmetry
