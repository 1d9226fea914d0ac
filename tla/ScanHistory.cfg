SPECIFICATION Spec
CONSTANTS
  u1 = u1
  m1 = m1
  m2 = m2
  Users <- OneUser
  Runs = {1, 2}
  Messages = {m1}
  Labels = {news}
  NoLabel = NoLabel
  Requests <- DryRunOnly
  Pages <- One
  MaxPages = 1
  Readers = {}
  Classifiers = {c1}
  Labelers = {}
  MaxFaults = 0
PROPERTY CompleteStaysComplete
CHECK_DEADLOCK FALSE
