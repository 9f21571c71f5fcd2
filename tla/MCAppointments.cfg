SPECIFICATION Spec
SYMMETRY Symmetry
CONSTANTS
  Interview = {i1, i2}
  Hold = {h1}
  Start = {0, 1, 3}
  Length = 2
  Buffer = 1
  MaxReschedules = 2
  Group = {g1, g2}
  Booker = {b1}
  MaxSubmissions = 2
  MaxRevision = 1
  MaxReplies = 2
  MaxActions = 2
  Discovery = {d1, d2}
  Selector = {s1}
  Review = {v1, v2}
  MaxAnswers = 2
  MaxDepth = 1
  MaxSource = 2
INVARIANTS
  NoDoubleBooking
  ConfirmedMeansAgreed
  BookedSuitsBoth
  CasesAreCurrent
  OneResponsePerReply
  ReviewIsFinal
  AnswerIsTimed
CHECK_DEADLOCK FALSE
