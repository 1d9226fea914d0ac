SPECIFICATION Spec
CONSTANTS
  u1 = u1
  m1 = m1
  m2 = m2
  Users <- OneUser
  Runs = {1, 2}
  Messages = {m1}
  Labels = {news}
  NoLabel = NoLabel
  Requests <- EitherMode
  Pages <- One
  MaxPages = 1
  Readers = {}
  Classifiers = {c1}
  Labelers = {l1}
  MaxFaults = 0
INVARIANT DryRunNeverApplied
CHECK_DEADLOCK FALSE
