SPECIFICATION HSpec
CONSTANTS
  NoVal = NoVal
  TooLong = TooLong
  Commands <- SomeCommands
  CredFile <- Files
  AddrInfos <- SomeAnswers
  Accounts <- Known
  MAX_OPTIONS = 6
CHECK_DEADLOCK FALSE
INVARIANTS
  MountsOnlyCompleteInfo
  UserMountsFollowFstab
  TriesInOrder
PROPERTY MountEnds
