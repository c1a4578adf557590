SPECIFICATION FairSpec
CONSTANTS
  Slaves <- MCSlaves
  OLYMPUS = "olympus"
  Key <- MCKey
  ERASE_FLASH_KEY = 2000
  CHUNK_SIZE = 16
  SectorWords = 4
  FlashWords = 8
  JobLists <- MCJobLists
  MaxFailures = 3
INVARIANTS TypeOK VerifiedIsInstalled StartsWholeProgram CommandsNoVehicle HeaderAcceptedUnlessDataFailed OneAnswer
PROPERTIES Completes
CHECK_DEADLOCK FALSE
