SPECIFICATION RelaysSpec
CONSTANTS
  \* stadion.cpp
  N = 4
  Slots = 2
  \* stadion_posix.cpp
  total_runners = 4
  CheckinRoom = 2
  BatonRoom = 1
INVARIANTS
  MailIsForItsReader
  OneBaton
  NothingLeftBehind
PROPERTIES
  RefinesRelay
  Termination
  RefinesRelayP
  TerminationP
