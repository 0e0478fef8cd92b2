CONSTANTS
  small = small
  large = large
  plain = plain
  add = add
  base = base
  chan = chan
  t1 = t1
  t2 = t2
  None = None
  Msgs <- MCMsgs
  Adds <- MCAdds
  Base = base
  Dir <- MCDir
  Size <- MCSize
  Tasks <- MCTasks
  Totals <- MCTotals
  Second = 2
  Epoch = 4
  MaxNow = 5
  MaxBytes = 2
  Age = 0
SPECIFICATION Spec
INVARIANTS
  TypeOK
  SavedIsThere
  OldestFirst
  StuckAfterOneChunk
CHECK_DEADLOCK FALSE
