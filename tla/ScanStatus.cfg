SPECIFICATION Spec
CONSTANTS
  u1 = u1
  m1 = m1
  m2 = m2
  Users <- OneUser
  Runs = {1, 2}
  Messages = {m1, m2}
  Labels = {news}
  NoLabel = NoLabel
  Requests <- DryRunOnly
  Pages <- UpToTwo
  MaxPages = 2
  Readers = {a1}
  Classifiers = {c1}
  Labelers = {}
  MaxFaults = 1
CONSTRAINT OneLongListing
INVARIANTS
  CountersBalance
  AbandonedOnlyByFailure
PROPERTIES
  FinishedIsFinal
  CompleteAnswersAreTrue
  CompleteEndsByRescan
CHECK_DEADLOCK FALSE
