SPECIFICATION FairSpec
CONSTANTS
  u1 = u1
  m1 = m1
  m2 = m2
  Users <- OneUser
  Runs = {1}
  Messages = {m1}
  Labels = {news, work}
  NoLabel = NoLabel
  Requests <- AllRequests
  Pages <- OneOrNone
  MaxPages = 1
  Readers = {}
  Classifiers = {c1}
  Labelers = {l1}
  MaxFaults = 2
INVARIANTS
  TypeOK
  AppliedIsReal
  MailboxOnlyByApply
  NoSilentLoss
  LabelsGetApplied
PROPERTIES
  EnqueueReturns
  QueuedIsRecorded
  ClassifiedIsSettled
  KeepsDraining
CHECK_DEADLOCK FALSE
