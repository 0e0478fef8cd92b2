CONSTANTS
  m1 = m1
  m2 = m2
  m3 = m3
  Msgs <- MCMsgs
  Channels <- MCChannels
  Chan <- MCChan
  Size <- MCSize
  Wanted <- MCWanted
  MaxBytes = 3
  MaxAge = 2
  None = None
  Calm = TRUE
  MaxNow = 2
SPECIFICATION FairSpec
INVARIANTS TypeOK ReceivedInOrder RepeatsOfLastSecondOnly
PROPERTIES ReceivedInTheEnd PickupsForward
CHECK_DEADLOCK FALSE
