SPECIFICATION ReviewSpec
CONSTANTS
  Review = {r1}
  MaxAnswers = 1
  MaxDepth = 0
  MaxSource = 1
PROPERTIES
  OverdueStaysOpen
CHECK_DEADLOCK FALSE
