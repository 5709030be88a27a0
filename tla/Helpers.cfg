SPECIFICATION Spec
CONSTANTS
  m1 = m1
  m2 = m2
  Shields = {1, 2, 3, 4}
  LocktimeOf <- MCLocktimeOf
  Threshold = 1
  PageCap = 2
  MaxStarts = 2
  Messages = {m1, m2}
  Coins = {1, 2, 3, 4, 5}
  ValueOf <- MCValueOf
  Amounts = {1, 2, 3, 4, 5, 6, 8, 9, 11, 12, 14, 16}
  MaxChanges = 1
CHECK_DEADLOCK FALSE
INVARIANTS TypeOK NoneIsPassedOver PostedOnce ChosenSuffices ChosenIsLeast FailsOnlyIfShort
PROPERTIES EachIsRequested EachIsPosted
