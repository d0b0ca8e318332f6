SPECIFICATION FairSumSpec
CONSTANTS
  Cap = 3
  Rest = 5
  Override = 3
  Gap = 2
  HoldLen = 3
  HoldOn = {1, 3}
  SmokeOn = 1
  SmokeOff = 1
  PrimeTime = {0, 2, 5}
  ByHand = {"on", "off"}
  AllowManual = TRUE
  Lost = 6
  Lists <- MCLists
  Grills = {1}
  Keep = 1
  Day = 1
  MaxHour = 2
  Branches = {"main", "dev"}
  Nights = {2}
  MaxVersion = 2
  MaxDay = 2
  Archives = {"a", "b", "junk"}
  Sound = {"a", "b"}
  MaxStarts = 5
  Clouds = {"gdrive", "onedrive"}
  Found <- MCFound
  Backups <- MCBackups
  Patches <- MCPatches
  MaxFails = 1
  Statuses <- MCStatuses
  NavMax = 5
  Kinds = 1
  MenuTime = 1
  DarkTime = 1
INVARIANTS
  CapHolds
  GoodBackupIsThere
  AppliedIsAsked
  RestoredIsWhole
  SettingsAreSafe
PROPERTIES
  KeepsFeeding
  CodeGoesAway
  RulesStayTheirs
  StrayPressIsHarmless
  IdleComesHome
