SPECIFICATION Spec
CONSTANTS
  N = 2
  Stored = {1, 2}
  Lobs <- MCLobs
  Home <- MCHome
  MaxEdits = 2
  MaxCrashes = 2
  MaxFaults = 2
INVARIANTS
  TypeOK
  ArchiveSurvives
  LobDurable
PROPERTIES
  ImplementsAtomicTree
  SuccessIsSaved
CHECK_DEADLOCK FALSE
