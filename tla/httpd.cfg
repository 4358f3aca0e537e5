SPECIFICATION HSpec
CONSTANTS
  UShort <- MCUShort
  IntMax <- MCIntMax
  Size <- MCSize
  Words <- MCWords
  Lower <- MCLower
  Addresses <- MCAddresses
  Files <- MCFiles
  Disks <- MCDisks
INVARIANTS HInv ServesAsAsked SavedSettingsLoad
