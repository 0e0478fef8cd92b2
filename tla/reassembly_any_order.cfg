CONSTANTS
  m1 = m1
  m2 = m2
  t1 = t1
  t2 = t2
  None = None
  Msgs <- TwoMsgs
  Ids <- MCIds
  Total <- MCTotal
  Channel <- MCChannel
  StreamId <- MCStreamId
  Tasks = {t1, t2}
  HeaderFirst = FALSE
  MaxHeaders <- RepeatFirst
  MaxCopies <- RepeatFirst
SPECIFICATION Spec
INVARIANTS TypeOK Authentic SerialAtMostOncePerHeader
PROPERTY WholeMessagesOnly
SYMMETRY TaskSymmetry
CHECK_DEADLOCK FALSE
