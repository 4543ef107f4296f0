SPECIFICATION Spec
CONSTANTS
  own = own
  other = other
  APP_IMAGE_SIZE = 9
  SmallestImage = 8
  Images <- MCImages
  Publishers <- MCPublishers
  MaxPairs = 2
  MaxAesKeys = 2
  MaxFailures = 1
SYMMETRY Symmetry
INVARIANTS
  PackedIsAccepted
  InstalledWasPacked
  ToolsAgreeWithDevice
