SPECIFICATION Spec
CONSTANTS
  SubIds = {u1}
  Bodies = {b1}
  NoSub = NoSub
  NoBody = NoBody
  HasOnMessage = TRUE
  MaxUpcalls = 2
INVARIANT ReceiptReported
CHECK_DEADLOCK FALSE
