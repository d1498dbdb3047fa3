SPECIFICATION Spec
CONSTANTS
  Tab = {t1}
  Request = {q1, q2}
  Mutation = {m1, m2}
  Location = {g1}
  None = None
  StepLimit = 1
INVARIANTS
  RanMeansApproved
