SPECIFICATION Spec
CONSTANTS
  Slaves <- MCSlaves
  OLYMPUS = "olympus"
  Key <- MCKey
  ERASE_FLASH_KEY = 2000
  CHUNK_SIZE = 16
  SectorWords = 4
  FlashWords = 8
  JobLists <- MCOlympusTwice
  MaxFailures = 0
INVARIANT VerifiedIsInstalled
CHECK_DEADLOCK FALSE
