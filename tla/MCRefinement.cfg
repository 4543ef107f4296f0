SPECIFICATION Spec
CONSTANTS
  v1 = v1
  v2 = v2
  bad = bad
  tiny = tiny
  forged = forged
  Erased = Erased
  Partial = Partial
  NoPackage = NoPackage
  Image <- MCImage
  Published <- MCPublished
  TooSmall <- MCTooSmall
  Bootable <- MCBootable
  Packages <- MCPackages
  OTA_MAX_BOOT_COUNT = 3
  ConfirmChecksSlot = FALSE
  MaxFaults = 0
  MaxCrashes = 2
INVARIANT
  FaultFreeInv
PROPERTIES
  ImplementsABUpdate
  ConfirmedByItself
