SPECIFICATION Spec
CONSTANTS
  u1 = u1
  m1 = m1
  m2 = m2
  Users <- OneUser
  Runs = {1, 2}
  Messages = {m1, m2}
  Labels = {news}
  NoLabel = NoLabel
  Requests <- EitherMode
  Pages <- OneOrRepeated
  MaxPages = 1
  Readers = {}
  Classifiers = {c1, c2}
  Labelers = {l1, l2}
  MaxFaults = 1
CONSTRAINT SeveralOnlyAlone
SYMMETRY WorkerSymmetry
INVARIANTS
  AppliedIsReal
  MailNeverForgotten
  RowBeforeEvent
  FewLostToRace
PROPERTIES
  ImplementsLedger
  EventsAreHandedOn
CHECK_DEADLOCK FALSE
