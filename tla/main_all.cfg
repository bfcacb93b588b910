CONSTANTS
  Linked <- MCAll
  Buses <- MCBuses
  Uninitialised <- MCUninitialised
  Words <- MCWords
  NoWord = NoWord
  Lines <- MCLines
  Named <- MCNamed
  Value <- MCValue
  Single <- MCSingle
  Emulates <- MCEmulates
  InquiryByte <- MCInquiryByte
  MaxRuns = 2
SPECIFICATION FairMainSpec
INVARIANTS
  MainTypeOK
  NothingHeldAtExit
  OnlyTheAskedDevice
  ImagesOfOpticalOnly
  DebugReadsBack
  InfoShowsTheBus
  CrashCauses
PROPERTIES
  SettingsChangeAsAsked
  SessionSpec
  RunEnds
CHECK_DEADLOCK FALSE
