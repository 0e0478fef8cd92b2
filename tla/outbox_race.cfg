CONSTANTS
  m1 = m1
  m2 = m2
  m3 = m3
  Msgs <- MCMsgs
  Channels <- MCChannels
  Chan <- MCChan
  Size <- MCSize
  Wanted <- MCWanted
  MaxBytes = 9
  MaxAge = 2
  None = None
  Calm = FALSE
  MaxNow = 3
SPECIFICATION Spec
INVARIANT NoneLeftBehind
CHECK_DEADLOCK FALSE
