CONSTANTS
  com1 = com1
  com2 = com2
  Names <- MCNames
  NoName = NoName
  NoComm = NoComm
  NoDevice = NoDevice
  BaundValues <- MCBaundValues
  RepeatBaund = 1
  OtherRates <- MCOtherRates
  OtherPorts = 1
  FirstNeed = 1
  MaxChanges = 2
SPECIFICATION Spec
INVARIANTS
  TypeOK
  EntriesInList
  SettingsOfConnection
PROPERTIES
  RatesComeUp
  DeviceFound
CHECK_DEADLOCK FALSE
