CONSTANTS
  Launches = 2
  Limit = 1
SPECIFICATION FairSpec
INVARIANTS TypeOK OneWorker NothingLeftBehind ResultOfLastWorker StopsForCause
PROPERTIES OrphanStops SupervisionEnds Outline
CHECK_DEADLOCK FALSE
