SPECIFICATION IqSpec
CONSTANTS
  q1 = q1
  q2 = q2
  q3 = q3
  q4 = q4
  Requests = {q1, q2, q3, q4}
  Timed = {q1, q2, q3}
  DeliverLate = {q3}
INVARIANT
  TimeoutThenAnswerAtMost
