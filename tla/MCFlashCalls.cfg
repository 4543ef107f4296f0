SPECIFICATION CallsSpec
CONSTANTS
  x = x
  Blank = Blank
  Byte <- MCByte
  Modulus = 32
  FLASH_BASE_ADDR = 20
  Bank2Start = 22
  APP_B_START_ADDR = 22
  APP_B_SIZE = 4
  OTA_METADATA_ADDR = 26
  OTA_METADATA_SIZE = 2
  FLASH_END_ADDR = 30
  FLASH_PAGE_SIZE = 2
  Word = 2
  MaxLength = 3
INVARIANTS
  EraseIsWhole
PROPERTY
  OneAreaPerCall
