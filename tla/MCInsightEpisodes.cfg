SPECIFICATION Spec
CONSTANTS
  e1 = e1
  e2 = e2
  Engines <- MCEngines
  MaxEpisodes = 2
  Restarts = TRUE
CONSTRAINT OneOverlap
INVARIANT TypeOK
PROPERTIES
  NoRenotification
  ClearedRecordCloses
  FiringIsVerified
