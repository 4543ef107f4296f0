SPECIFICATION Spec
CONSTANTS
  Blank = Blank
  Modulus = 256
  FLASH_BASE_ADDR = 64
  Bank2Start = 72
  APP_B_START_ADDR = 72
  APP_B_SIZE = 28
  OTA_METADATA_ADDR = 100
  OTA_METADATA_SIZE = 8
  FLASH_END_ADDR = 108
  FLASH_PAGE_SIZE = 4
  Word = 2
  HeaderSize = 5
  SignatureSize = 3
  APP_B_IMAGE_SIZE = 16
  APP_B_MANIFEST_ADDR = 88
  SignatureOffset = 6
  BufferSize = 4
  GcmBlock = 3
  ShaBlock = 5
  ShaTail = 2
  MaskedFields = {4, 5}
  MaxFrame = 3
  PayloadSizes <- MCPayloadSizes
  MaxTransfers = 2
INVARIANTS
  WithinBuffers
  FlashFollowsStream
  HashIsOfImage
  TagIsOfStream
  ManifestReadsBack
  NoWriteRefused
CHECK_DEADLOCK FALSE
