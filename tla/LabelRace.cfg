SPECIFICATION Spec
CONSTANTS
  u1 = u1
  m1 = m1
  m2 = m2
  Users <- OneUser
  Runs = {1}
  Messages = {m1, m2}
  Labels = {news}
  NoLabel = NoLabel
  Requests <- ApplyOnly
  Pages <- Both
  MaxPages = 1
  Readers = {}
  Classifiers = {c1}
  Labelers = {l1, l2}
  MaxFaults = 0
INVARIANT LabelsGetApplied
CHECK_DEADLOCK FALSE
