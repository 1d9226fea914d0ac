SPECIFICATION FairSpec
CONSTANTS
  u1 = u1
  m1 = m1
  m2 = m2
  Users <- OneUser
  Runs = {1}
  Messages = {m1}
  Labels = {news}
  NoLabel = NoLabel
  Requests <- DryRunOnly
  Pages <- One
  MaxPages = 1
  Readers = {}
  Classifiers = {c1}
  Labelers = {}
  MaxFaults = 1
PROPERTY RunsGetFinished
CHECK_DEADLOCK FALSE
