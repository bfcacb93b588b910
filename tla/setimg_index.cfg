CONSTANTS
  Linked <- MCAll
  Buses <- MCBuses
  Uninitialised <- MCUninitialised
  Words <- MCWords
  NoWord = NoWord
  Lines <- MCLines
  Named <- MCNamed
  Value <- MCValue
  Single <- MCSingle
  Emulates <- MCEmulates
  InquiryByte <- MCInquiryByte
  MaxRuns = 1
SPECIFICATION MainSpec
INVARIANTS
  IndexIsTaken
CHECK_DEADLOCK FALSE
