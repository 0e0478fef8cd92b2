CONSTANTS
  m1 = m1
  m2 = m2
  t1 = t1
  t2 = t2
  None = None
  Msgs <- TwoMsgs
  Ids <- MCIds
  Total <- MCTotal
  Channel <- MCChannel
  StreamId <- MCStreamId
  Tasks = {t1, t2}
  HeaderFirst = TRUE
  MaxHeaders <- Once
  MaxCopies <- RepeatFirst
SPECIFICATION FairSpec
INVARIANTS NoSilentLoss CompleteStreamDelivered
PROPERTY EventuallyDelivered
CHECK_DEADLOCK FALSE
