------------------------------ MODULE TypeProofs ----------------------------
(***************************************************************************)
(* Type correctness of the pipeline.  TypeOK alone is not inductive: the    *)
(* batch loop takes the Head of the batch, which is a message only because  *)
(* the loop is never entered with an empty batch (BatchOK), and a scan must *)
(* not start with a batch left over (NotStarted).                           *)
(***************************************************************************)
EXTENDS EmailTriage, FiniteSetTheorems, SequenceTheorems, TLAPS

\* The batch loop runs while there is a message left, and ends when there is
\* none (unless the process dies inside it).
BatchOK ==
  \A r \in Runs :
    /\ enqueue[r].pc = "publish" => enqueue[r].todo # <<>>
    /\ enqueue[r].pc \notin {"publish", "killed"} => enqueue[r].todo = <<>>

\* A run without a row has no goroutine yet.
NotStarted ==
  \A r \in Runs : r \notin DOMAIN scanRuns => enqueue[r].pc = "none"

TypeInv == TypeOK /\ BatchOK /\ NotStarted

-----------------------------------------------------------------------------
(* Tables *)

\* Inserting a well-typed row keeps a table well-typed.
LEMMA WithType ==
  ASSUME NEW K, NEW R, NEW f, DOMAIN f \subseteq K, f \in [DOMAIN f -> R],
         NEW k \in K, NEW x \in R
  PROVE  /\ DOMAIN With(f, k, x) \subseteq K
         /\ With(f, k, x) \in [DOMAIN With(f, k, x) -> R]
BY DEF With

\* So does deleting one.
LEMMA WithoutType ==
  ASSUME NEW K, NEW R, NEW f, DOMAIN f \subseteq K, f \in [DOMAIN f -> R],
         NEW k
  PROVE  /\ DOMAIN Without(f, k) \subseteq K
         /\ Without(f, k) \in [DOMAIN Without(f, k) -> R]
BY DEF Without

\* The key of an event is a key of email_messages.
LEMMA KeyType ==
  ASSUME BrokerTypeOK, NEW e, e.run \in Runs, e.msg \in Messages
  PROVE  KeyOf(e) \in MessageKeys
BY RequestsAssumption DEF BrokerTypeOK, KeyOf, MessageKeys, ScanRequest

\* The two variable tuples that frame conditions are made of.
LEMMA StorageUnchanged ==
  ASSUME StorageTypeOK, UNCHANGED storageVars PROVE StorageTypeOK'
BY DEF StorageTypeOK, storageVars
LEMMA BrokerUnchanged ==
  ASSUME BrokerTypeOK, UNCHANGED brokerVars PROVE BrokerTypeOK'
BY DEF BrokerTypeOK, brokerVars, queueVars
LEMMA ScanApiUnchanged ==
  ASSUME ScanApiTypeOK, BatchOK, UNCHANGED scanApiVars
  PROVE  (ScanApiTypeOK /\ BatchOK)'
BY DEF ScanApiTypeOK, BatchOK, scanApiVars
LEMMA GmailUnchanged ==
  ASSUME GmailTypeOK, UNCHANGED gmailVars PROVE GmailTypeOK'
BY DEF GmailTypeOK, gmailVars
LEMMA ClassifierUnchanged ==
  ASSUME ClassifierTypeOK, UNCHANGED classifierVars PROVE ClassifierTypeOK'
BY DEF ClassifierTypeOK, classifierVars
LEMMA LabelUnchanged ==
  ASSUME LabelTypeOK, UNCHANGED labelVars PROVE LabelTypeOK'
BY DEF LabelTypeOK, labelVars

\* A failure is counted, any other step leaves the budget alone.
LEMMA FaultsType ==
  ASSUME FaultsTypeOK, Fault \/ UNCHANGED faults PROVE FaultsTypeOK'
BY MaxFaultsAssumption DEF FaultsTypeOK, Fault

-----------------------------------------------------------------------------
(* Statements and queue operations *)

LEMMA CreateScanRunType ==
  ASSUME StorageTypeOK, BrokerTypeOK, NEW r \in Runs,
         CreateScanRun(r, request[r].user, request[r].mode),
         UNCHANGED <<emailMessages, verdict>>
  PROVE  StorageTypeOK'
<1> DEFINE row == [user |-> request[r].user, mode |-> request[r].mode,
                   status |-> "enqueuing",
                   found |-> 0, processed |-> 0, failed |-> 0]
<1>1. row \in ScanRun
  BY RequestsAssumption DEF BrokerTypeOK, ScanRequest, ScanRun
<1>2. scanRuns' = With(scanRuns, r, row)
  BY DEF CreateScanRun
<1> HIDE DEF row
<1> QED BY <1>1, <1>2, WithType DEF StorageTypeOK

LEMMA UpsertType ==
  ASSUME StorageTypeOK, NEW r \in Runs, NEW k \in MessageKeys,
         NEW l \in Labels, NEW s \in EmailStatuses,
         UpsertEmailMessage(r, k, l, s), UNCHANGED <<scanRuns, verdict>>
  PROVE  StorageTypeOK'
<1> DEFINE row == [run |-> r, predicted |-> l, applied |-> NoLabel, status |-> s]
<1>1. row \in EmailMessage
  BY DEF EmailMessage
<1>2. emailMessages' = With(emailMessages, k, row)
  BY DEF UpsertEmailMessage
<1> HIDE DEF row
<1> QED BY <1>1, <1>2, WithType DEF StorageTypeOK

LEMMA MarkType ==
  ASSUME StorageTypeOK, NEW k \in DOMAIN emailMessages, NEW l \in Labels,
         MarkEmailLabelApplied(k, l), UNCHANGED <<scanRuns, verdict>>
  PROVE  StorageTypeOK'
BY DEF StorageTypeOK, MarkEmailLabelApplied, EmailMessage, EmailStatuses

LEMMA PublishRawType ==
  ASSUME BrokerTypeOK, NEW e \in RawEvent,
         PublishRawEmail(e) \/ UNCHANGED rawQueue,
         UNCHANGED <<request, classifiedQueue>>
  PROVE  BrokerTypeOK'
BY DEF BrokerTypeOK, PublishRawEmail

LEMMA PublishClassifiedType ==
  ASSUME BrokerTypeOK, NEW e \in ClassifiedEvent,
         PublishClassifiedEmail(e) \/ UNCHANGED classifiedQueue,
         UNCHANGED <<request, rawQueue>>
  PROVE  BrokerTypeOK'
BY DEF BrokerTypeOK, PublishClassifiedEmail

-----------------------------------------------------------------------------
(* The API process *)

\* The facts each step below may use.
ApiInv ==
  /\ StorageTypeOK /\ BrokerTypeOK /\ FaultsTypeOK /\ ScanApiTypeOK
  /\ BatchOK /\ NotStarted

\* A step that only moves a goroutine to a state outside the batch loop.
LEMMA MoveType ==
  ASSUME ScanApiTypeOK, BatchOK, NEW r \in Runs,
         enqueue[r].pc # "publish", enqueue[r].pc # "killed",
         NEW pc \in {"list", "complete", "fail", "done"},
         enqueue' = [enqueue EXCEPT ![r].pc = pc],
         NotStarted, r \in DOMAIN scanRuns',
         DOMAIN scanRuns \subseteq DOMAIN scanRuns',
         UNCHANGED <<apiConn, views, handed>>
  PROVE  (ScanApiTypeOK /\ BatchOK /\ NotStarted)'
<1>1. [enqueue[r] EXCEPT !.pc = pc] \in Goroutine
  BY DEF ScanApiTypeOK, Goroutine, GoroutineStates
<1> QED BY <1>1 DEF ScanApiTypeOK, BatchOK, NotStarted, Goroutine

\* The goroutine's record through a page and through the batch loop.
LEMMA WithPageType ==
  ASSUME NEW g \in Goroutine, g.pages < MaxPages,
         NEW page \in Pages, NEW more \in BOOLEAN
  PROVE  WithPage(g, page, more) \in Goroutine
<1>1. g.pages + 1 \in 0 .. MaxPages
  BY ScanApiAssumption DEF Goroutine
<1>2. page \in Seq(Messages) /\ g.found + Len(page) \in Nat
  BY ScanApiAssumption, LenProperties DEF Goroutine
<1> QED BY <1>1, <1>2 DEF WithPage, AfterPage, Goroutine, GoroutineStates

LEMMA TailOfBatch ==
  ASSUME NEW s \in Seq(Messages), s # <<>>
  PROVE  /\ Head(s) \in Messages
         /\ Tail(s) \in Seq(Messages)
         /\ Len(s) \in Nat \ {0}
         /\ Len(Tail(s)) = Len(s) - 1
         /\ Len(s) = 1 <=> Tail(s) = <<>>
<1>1. /\ Head(s) \in Messages
      /\ Tail(s) \in Seq(Messages)
      /\ Len(Tail(s)) = Len(s) - 1
  BY HeadTailProperties
<1>2. Len(s) \in Nat \ {0} /\ (Tail(s) = <<>> <=> Len(Tail(s)) = 0)
  BY <1>1, EmptySeq, LenProperties
<1> QED BY <1>1, <1>2

LEMMA AdvancedType ==
  ASSUME NEW g \in Goroutine, g.todo # <<>>, NEW ok \in BOOLEAN
  PROVE  Advanced(g, ok) \in Goroutine
<1>1. Tail(g.todo) \in Seq(Messages)
  BY TailOfBatch DEF Goroutine
<1>2. (IF ok THEN g.processed + 1 ELSE g.processed) \in Nat
  BY DEF Goroutine
<1>3. (IF ok THEN g.failed ELSE g.failed + 1) \in Nat
  BY DEF Goroutine
<1>4. (IF Len(g.todo) = 1 THEN "progress" ELSE "publish") \in GoroutineStates
  BY DEF GoroutineStates
<1> QED BY <1>1, <1>2, <1>3, <1>4 DEF Advanced, Goroutine

\* Writing a goroutine's totals to its row.
LEMMA WriteType ==
  ASSUME StorageTypeOK, ScanApiTypeOK, NEW r \in Runs,
         \/ WriteProgress(r)
         \/ \E s \in FinishedStatuses : WriteCompletion(r, s)
         \/ UNCHANGED scanRuns,
         UNCHANGED <<emailMessages, verdict>>
  PROVE  StorageTypeOK' /\ DOMAIN scanRuns' = DOMAIN scanRuns
<1> DEFINE g == enqueue[r]
<1>1. g.found \in Nat /\ g.processed \in Nat /\ g.failed \in Nat
  BY DEF ScanApiTypeOK, Goroutine
<1>2. CASE WriteProgress(r)
  BY <1>1, <1>2 DEF StorageTypeOK, WriteProgress, UpdateScanRunProgress, ScanRun
<1>3. ASSUME NEW s \in FinishedStatuses, WriteCompletion(r, s)
      PROVE  StorageTypeOK' /\ DOMAIN scanRuns' = DOMAIN scanRuns
  BY <1>1, <1>3 DEF StorageTypeOK, WriteCompletion, CompleteScanRun, ScanRun
<1>4. CASE UNCHANGED scanRuns
  BY <1>4 DEF StorageTypeOK
<1> QED BY <1>2, <1>3, <1>4

LEMMA ApiStepType ==
  ASSUME ApiInv, ScanApiNext
  PROVE  ApiInv'
<1> USE DEF ApiInv
<1>f. FaultsTypeOK'
  BY FaultsType DEF ScanApiNext, EnqueueStep, StartScan, StartScanReplyLost,
     ListPage, PublishNext, UpdateProgress, FailRun, CompleteRun, ListPageFails,
     UpdateProgressFails, CompletionLost, GetScanRun, GetScanCounts,
     ApiConnBreaks, ApiConnCloses, ApiRestart
<1>1. ASSUME NEW r \in Runs, StartScan(r)
      PROVE  ApiInv'
  <2>1. StorageTypeOK'
    BY <1>1, CreateScanRunType DEF StartScan
  <2>2. r \notin DOMAIN scanRuns /\ DOMAIN scanRuns' = DOMAIN scanRuns \cup {r}
    BY <1>1 DEF StartScan, CreateScanRun, With
  <2>3. (ScanApiTypeOK /\ BatchOK /\ NotStarted)'
    BY <1>1, <2>2, MoveType DEF StartScan, NotStarted
  <2> QED BY <1>1, <2>1, <2>3, <1>f, BrokerUnchanged DEF StartScan
<1>2. ASSUME NEW r \in Runs, StartScanReplyLost(r)
      PROVE  ApiInv'
  <2>1. StorageTypeOK'
    BY <1>2, CreateScanRunType DEF StartScanReplyLost
  <2>2. NotStarted'
    BY <1>2 DEF StartScanReplyLost, CreateScanRun, With, NotStarted, scanApiVars
  <2> QED BY <1>2, <2>1, <2>2, <1>f, BrokerUnchanged, ScanApiUnchanged
            DEF StartScanReplyLost
<1>3. ASSUME NEW r \in Runs, ListPage(r)
      PROVE  ApiInv'
  <2>1. PICK page \in Pages, more \in BOOLEAN :
          enqueue' = [enqueue EXCEPT ![r] = WithPage(@, page, more)]
    BY <1>3 DEF ListPage
  <2>2. enqueue[r] \in Goroutine /\ WithPage(enqueue[r], page, more) \in Goroutine
    BY <1>3, WithPageType DEF ListPage, ScanApiTypeOK
  <2>3. ScanApiTypeOK'
    BY <1>3, <2>1, <2>2 DEF ListPage, ScanApiTypeOK
  <2>4. /\ page = <<>> => WithPage(enqueue[r], page, more).pc # "publish"
        /\ page # <<>> => WithPage(enqueue[r], page, more).pc = "publish"
        /\ WithPage(enqueue[r], page, more).todo = page
    BY <2>2 DEF WithPage, AfterPage, Goroutine
  <2>5. BatchOK' /\ NotStarted'
    BY <1>3, <2>1, <2>4 DEF ListPage, ScanApiTypeOK, BatchOK, NotStarted,
       storageVars
  <2> QED BY <1>3, <2>3, <2>5, <1>f, StorageUnchanged, BrokerUnchanged
            DEF ListPage
<1>4. ASSUME NEW r \in Runs, PublishNext(r)
      PROVE  ApiInv'
  <2> DEFINE g == enqueue[r]
             ok == apiConn # "closed"
  <2>1. g \in Goroutine /\ g.todo # <<>> /\ g.pc = "publish"
    BY <1>4 DEF PublishNext, ScanApiTypeOK, BatchOK
  <2>2. g.todo \in Seq(Messages)
    BY <2>1 DEF Goroutine
  <2>3. enqueue' = [enqueue EXCEPT ![r] = Advanced(g, ok)]
    BY <1>4 DEF PublishNext
  <2>4. Advanced(g, ok) \in Goroutine
    BY <2>1, AdvancedType
  <2>5. ScanApiTypeOK'
    BY <1>4, <2>2, <2>3, <2>4, TailOfBatch, <2>1 DEF PublishNext, ScanApiTypeOK
  <2>6. /\ Advanced(g, ok).pc = IF Len(g.todo) = 1 THEN "progress" ELSE "publish"
        /\ Advanced(g, ok).todo = Tail(g.todo)
    BY <2>1 DEF Advanced, Goroutine
  <2>7. BatchOK' /\ NotStarted'
    BY <1>4, <2>1, <2>2, <2>3, <2>6, TailOfBatch
       DEF PublishNext, ScanApiTypeOK, BatchOK, NotStarted, storageVars
  <2>8. [run |-> r, msg |-> Head(g.todo)] \in RawEvent
    BY <2>1, <2>2, TailOfBatch DEF RawEvent
  <2>9. BrokerTypeOK'
    BY <1>4, <2>8, PublishRawType DEF PublishNext
  <2> QED BY <1>4, <2>5, <2>7, <2>9, <1>f, StorageUnchanged DEF PublishNext
<1>5. ASSUME NEW r \in Runs, UpdateProgress(r) \/ UpdateProgressFails(r)
      PROVE  ApiInv'
  <2>1. StorageTypeOK' /\ DOMAIN scanRuns' = DOMAIN scanRuns
    BY <1>5, WriteType DEF UpdateProgress, UpdateProgressFails
  <2>2. r \in DOMAIN scanRuns
    BY <1>5 DEF UpdateProgress, UpdateProgressFails, NotStarted
  <2>3. (ScanApiTypeOK /\ BatchOK /\ NotStarted)'
    <3>1. CASE UpdateProgress(r)
      <4>1. AfterPage(enqueue[r].more) \in {"list", "complete"}
        BY DEF AfterPage
      <4> QED BY <2>1, <2>2, <3>1, <4>1, MoveType DEF UpdateProgress
    <3>2. CASE UpdateProgressFails(r)
      BY <2>1, <2>2, <3>2, MoveType DEF UpdateProgressFails
    <3> QED BY <1>5, <3>1, <3>2
  <2> QED BY <1>5, <2>1, <2>3, <1>f, BrokerUnchanged
            DEF UpdateProgress, UpdateProgressFails
<1>6. ASSUME NEW r \in Runs, FailRun(r) \/ CompleteRun(r) \/ CompletionLost(r)
      PROVE  ApiInv'
  <2>1. QueuedStatus(enqueue[r].failed) \in FinishedStatuses
    BY DEF QueuedStatus, FinishedStatuses
  <2>2. StorageTypeOK' /\ DOMAIN scanRuns' = DOMAIN scanRuns
    BY <1>6, <2>1, WriteType
       DEF FailRun, CompleteRun, CompletionLost, FinishedStatuses, storageVars
  <2>3. r \in DOMAIN scanRuns
    BY <1>6 DEF FailRun, CompleteRun, CompletionLost, NotStarted
  <2>4. (ScanApiTypeOK /\ BatchOK /\ NotStarted)'
    BY <1>6, <2>2, <2>3, MoveType
       DEF FailRun, CompleteRun, CompletionLost, GoroutineReturns
  <2> QED BY <1>6, <2>2, <2>4, <1>f, BrokerUnchanged
            DEF FailRun, CompleteRun, CompletionLost
<1>7. ASSUME NEW r \in Runs, ListPageFails(r)
      PROVE  ApiInv'
  <2>1. r \in DOMAIN scanRuns /\ UNCHANGED scanRuns
    BY <1>7 DEF ListPageFails, NotStarted, storageVars
  <2> QED BY <1>7, <2>1, <1>f, MoveType, StorageUnchanged, BrokerUnchanged
            DEF ListPageFails
<1>8. ASSUME NEW c \in Readers, NEW r \in Runs, GetScanRun(c, r)
      PROVE  ApiInv'
  <2> DEFINE view == [run |-> r, row |-> scanRuns[r], answer |-> "pending"]
  <2>1. view \in View
    BY <1>8 DEF GetScanRun, StorageTypeOK, View, Answers
  <2>2. views' = With(views, c, view)
    BY <1>8 DEF GetScanRun
  <2> HIDE DEF view
  <2>3. DOMAIN views' \subseteq Readers /\ views' \in [DOMAIN views' -> View]
    BY <2>1, <2>2, WithType DEF ScanApiTypeOK
  <2>4. (ScanApiTypeOK /\ BatchOK /\ NotStarted)'
    BY <1>8, <2>3 DEF GetScanRun, ScanApiTypeOK, BatchOK, NotStarted, storageVars
  <2> QED BY <1>8, <2>4, <1>f, StorageUnchanged, BrokerUnchanged DEF GetScanRun
<1>9. ASSUME NEW c \in Readers, GetScanCounts(c)
      PROVE  ApiInv'
  <2> DEFINE a == ProcessingStatus(views[c].row,
                                   CountEmailMessagesByScanRun(views[c].run))
  <2>1. a \in Answers
    BY DEF ProcessingStatus, Answers
  <2>2. views' = [views EXCEPT ![c].answer = a]
    BY <1>9 DEF GetScanCounts
  <2> HIDE DEF a
  <2>3. (ScanApiTypeOK /\ BatchOK /\ NotStarted)'
    BY <1>9, <2>1, <2>2 DEF GetScanCounts, ScanApiTypeOK, BatchOK, NotStarted, storageVars, View
  <2> QED BY <1>9, <2>3, <1>f, StorageUnchanged, BrokerUnchanged
            DEF GetScanCounts
<1>10. CASE ApiConnBreaks \/ ApiConnCloses
  <2>1. (ScanApiTypeOK /\ BatchOK /\ NotStarted)'
    BY <1>10 DEF ApiConnBreaks, ApiConnCloses, ScanApiTypeOK, BatchOK, NotStarted, storageVars
  <2> QED BY <1>10, <2>1, <1>f, StorageUnchanged, BrokerUnchanged
            DEF ApiConnBreaks, ApiConnCloses
<1>11. CASE ApiRestart
  <2>1. \A r \in Runs : enqueue'[r] \in Goroutine
    BY <1>11 DEF ApiRestart, ScanApiTypeOK, Goroutine, GoroutineStates
  <2>2. (ScanApiTypeOK /\ BatchOK /\ NotStarted)'
    BY <1>11, <2>1 DEF ApiRestart, Active, ScanApiTypeOK, BatchOK, NotStarted,
       storageVars, Goroutine
  <2> QED BY <1>11, <2>2, <1>f, StorageUnchanged, BrokerUnchanged
            DEF ApiRestart
<1> QED BY <1>1, <1>2, <1>3, <1>4, <1>5, <1>6, <1>7, <1>8, <1>9, <1>10, <1>11
          DEF ScanApiNext, EnqueueStep

-----------------------------------------------------------------------------
(* The classifier worker *)

ClassifierInv ==
  StorageTypeOK /\ BrokerTypeOK /\ FaultsTypeOK /\ ClassifierTypeOK

\* Ending a delivery, or moving it on, keeps the table of handlers typed.
LEMMA EndHandlingType ==
  ASSUME ClassifierTypeOK, NEW w, EndHandling(w)
  PROVE  /\ DOMAIN classifying' \subseteq Classifiers
         /\ classifying' \in [DOMAIN classifying' -> Handling]
BY WithoutType DEF ClassifierTypeOK, EndHandling

LEMMA RequeueRawType ==
  ASSUME BrokerTypeOK, ClassifierTypeOK, NEW w, RequeueRaw(w),
         UNCHANGED <<request, classifiedQueue>>
  PROVE  BrokerTypeOK'
<1>1. w \in DOMAIN classifying => classifying[w].event \in RawEvent
  BY DEF ClassifierTypeOK, Handling
<1>2. CASE UNCHANGED rawQueue
  BY <1>2, BrokerUnchanged DEF brokerVars, queueVars
<1>3. CASE w \in DOMAIN classifying /\ PublishRawEmail(classifying[w].event)
  BY <1>1, <1>3, PublishRawType
<1> QED BY <1>2, <1>3 DEF RequeueRaw

LEMMA RecordType ==
  ASSUME StorageTypeOK, BrokerTypeOK, ClassifierTypeOK, NEW w,
         At(w, "upsert"), RecordClassification(w),
         UNCHANGED <<scanRuns, verdict>>
  PROVE  StorageTypeOK'
<1> DEFINE e == classifying[w].event
           s == IF request[e.run].mode = "dry_run" THEN "dry_run"
                ELSE "classified"
<1>1. e \in RawEvent /\ classifying[w].label \in Labels
  BY DEF ClassifierTypeOK, Handling, At
<1>2. e.run \in Runs /\ KeyOf(e) \in MessageKeys
  BY <1>1, KeyType DEF RawEvent
<1>3. s \in EmailStatuses
  BY DEF EmailStatuses
<1>4. UpsertEmailMessage(e.run, KeyOf(e), classifying[w].label, s)
  BY DEF RecordClassification
<1> HIDE DEF e, s
<1> QED BY <1>1, <1>2, <1>3, <1>4, UpsertType

LEMMA ClassifierStepType ==
  ASSUME ClassifierInv, ClassifierNext
  PROVE  ClassifierInv'
<1> USE DEF ClassifierInv
<1>f. FaultsTypeOK'
  BY FaultsType DEF ClassifierNext, ClassifierStep, ReceiveRaw, LoadRules,
     Upsert, PublishClassified, AckRaw, AbandonRaw, RestartClassifier,
     ClassifyFails, LoseClassifierConnection, CrashClassifier
<1>1. ASSUME NEW w \in Classifiers, NEW e \in RawEvent, ReceiveRaw(w, e)
      PROVE  ClassifierInv'
  <2> DEFINE h == [pc |-> "load", event |-> e, label |-> NoLabel]
  <2>1. h \in Handling
    BY DEF Handling
  <2>2. classifying' = With(classifying, w, h)
    BY <1>1 DEF ReceiveRaw
  <2> HIDE DEF h
  <2>3. /\ DOMAIN classifying' \subseteq Classifiers
        /\ classifying' \in [DOMAIN classifying' -> Handling]
    BY <2>1, <2>2, WithType DEF ClassifierTypeOK
  <2>4. ClassifierTypeOK'
    BY <1>1, <2>3 DEF ReceiveRaw, ClassifierTypeOK
  <2>5. BrokerTypeOK'
    BY <1>1 DEF ReceiveRaw, DeliverRaw, StaleRaw, BrokerTypeOK
  <2> QED BY <1>1, <2>4, <2>5, <1>f, StorageUnchanged DEF ReceiveRaw
<1>2. ASSUME NEW w \in Classifiers, LoadRules(w)
      PROVE  ClassifierInv'
  <2> DEFINE h == classifying[w]
             l == verdict[KeyOf(h.event)]
  <2>1. h \in Handling /\ h.event \in RawEvent /\ w \in DOMAIN classifying
    BY <1>2 DEF LoadRules, At, ClassifierTypeOK, Handling
  <2>2. l \in Labels
    BY <2>1, KeyType DEF RawEvent, StorageTypeOK
  <2>3. [h EXCEPT !.pc = "upsert", !.label = l] \in Handling
    BY <2>1, <2>2 DEF Handling
  <2>4. classifying' = [classifying EXCEPT ![w] =
                          [h EXCEPT !.pc = "upsert", !.label = l]]
    BY <1>2 DEF LoadRules
  <2>5. ClassifierTypeOK'
    BY <1>2, <2>1, <2>3, <2>4 DEF LoadRules, ClassifierTypeOK
  <2> QED BY <1>2, <2>5, <1>f, StorageUnchanged, BrokerUnchanged DEF LoadRules
<1>3. ASSUME NEW w \in Classifiers, Upsert(w)
      PROVE  ClassifierInv'
  <2>1. StorageTypeOK'
    BY <1>3, RecordType DEF Upsert
  <2>2. ClassifierTypeOK'
    BY <1>3 DEF Upsert, At, ClassifierTypeOK, Handling
  <2> QED BY <1>3, <2>1, <2>2, <1>f, BrokerUnchanged DEF Upsert
<1>4. ASSUME NEW w \in Classifiers, PublishClassified(w)
      PROVE  ClassifierInv'
  <2> DEFINE e == [run   |-> classifying[w].event.run,
                   msg   |-> classifying[w].event.msg,
                   label |-> classifying[w].label]
  <2>1. e \in ClassifiedEvent
    BY <1>4 DEF PublishClassified, At, ClassifierTypeOK, Handling, RawEvent,
       ClassifiedEvent
  <2>2. BrokerTypeOK'
    BY <1>4, <2>1, PublishClassifiedType DEF PublishClassified
  <2>3. ClassifierTypeOK'
    BY <1>4 DEF PublishClassified, At, ClassifierTypeOK, Handling
  <2> QED BY <1>4, <2>2, <2>3, <1>f, StorageUnchanged DEF PublishClassified
<1>5. ASSUME NEW w \in Classifiers, AckRaw(w) \/ AbandonRaw(w)
      PROVE  ClassifierInv'
  <2>1. ClassifierTypeOK'
    BY <1>5, EndHandlingType DEF AckRaw, AbandonRaw, ClassifierTypeOK
  <2> QED BY <1>5, <2>1, <1>f, StorageUnchanged, BrokerUnchanged
            DEF AckRaw, AbandonRaw
<1>6. ASSUME NEW w \in Classifiers, RestartClassifier(w)
      PROVE  ClassifierInv'
  <2>1. ClassifierTypeOK'
    BY <1>6 DEF RestartClassifier, ClassifierTypeOK
  <2> QED BY <1>6, <2>1, <1>f, StorageUnchanged, BrokerUnchanged
            DEF RestartClassifier
<1>7. ASSUME NEW w \in Classifiers, ClassifyFails(w)
      PROVE  ClassifierInv'
  <2>1. BrokerTypeOK'
    BY <1>7, RequeueRawType DEF ClassifyFails
  <2>2. ClassifierTypeOK'
    BY <1>7, EndHandlingType DEF ClassifyFails, ClassifierTypeOK
  <2>3. StorageTypeOK'
    BY <1>7, RecordType, StorageUnchanged DEF ClassifyFails, storageVars
  <2> QED BY <2>1, <2>2, <2>3, <1>f
<1>8. ASSUME NEW w \in Classifiers, LoseClassifierConnection(w)
      PROVE  ClassifierInv'
  <2>1. BrokerTypeOK'
    BY <1>8, RequeueRawType DEF LoseClassifierConnection
  <2>2. ClassifierTypeOK'
    BY <1>8 DEF LoseClassifierConnection, ClassifierTypeOK
  <2> QED BY <1>8, <2>1, <2>2, <1>f, StorageUnchanged
            DEF LoseClassifierConnection
<1>9. ASSUME NEW w \in Classifiers, CrashClassifier(w)
      PROVE  ClassifierInv'
  <2>1. BrokerTypeOK'
    BY <1>9, RequeueRawType DEF CrashClassifier
  <2>2. ClassifierTypeOK'
    BY <1>9, EndHandlingType DEF CrashClassifier, ClassifierTypeOK
  <2> QED BY <1>9, <2>1, <2>2, <1>f, StorageUnchanged DEF CrashClassifier
<1> QED BY <1>1, <1>2, <1>3, <1>4, <1>5, <1>6, <1>7, <1>8, <1>9
          DEF ClassifierNext, ClassifierStep

-----------------------------------------------------------------------------
(* The label worker *)

LabelInv ==
  /\ StorageTypeOK /\ BrokerTypeOK /\ FaultsTypeOK
  /\ GmailTypeOK /\ LabelTypeOK

\* The event a goroutine handles, and the key of its message.
LEMMA JobEvent ==
  ASSUME LabelTypeOK, BrokerTypeOK, NEW t \in DOMAIN labelling
  PROVE  /\ labelling[t] \in Job
         /\ labelling[t].event \in ClassifiedEvent
         /\ labelling[t].event.run \in Runs
         /\ labelling[t].event.msg \in Messages
         /\ labelling[t].event.label \in Labels
         /\ KeyOf(labelling[t].event) \in MessageKeys
BY KeyType DEF LabelTypeOK, Job, ClassifiedEvent

LEMMA EndJobType ==
  ASSUME LabelTypeOK, NEW t, EndJob(t)
  PROVE  /\ DOMAIN labelling' \subseteq Labelers
         /\ labelling' \in [DOMAIN labelling' -> Job]
BY WithoutType DEF LabelTypeOK, EndJob

LEMMA GoToType ==
  ASSUME LabelTypeOK, NEW t,
         NEW pc \in {"list", "create", "modify", "mark", "ack"}, GoTo(t, pc)
  PROVE  /\ DOMAIN labelling' \subseteq Labelers
         /\ labelling' \in [DOMAIN labelling' -> Job]
<1>1. CASE t \in DOMAIN labelling
  <2>1. [labelling[t] EXCEPT !.pc = pc] \in Job
    BY <1>1 DEF LabelTypeOK, Job
  <2> QED BY <2>1 DEF LabelTypeOK, GoTo
<1>2. CASE t \notin DOMAIN labelling
  BY <1>2 DEF LabelTypeOK, GoTo
<1> QED BY <1>1, <1>2

LEMMA DropType ==
  ASSUME LabelTypeOK, BrokerTypeOK, NEW t \in DOMAIN labelling, Drop(t),
         UNCHANGED labelConn
  PROVE  LabelTypeOK'
BY EndJobType, JobEvent DEF LabelTypeOK, Drop

LEMMA RequeueType ==
  ASSUME LabelTypeOK, BrokerTypeOK, NEW t \in DOMAIN labelling, Requeue(t),
         UNCHANGED <<request, rawQueue, labelConn, dropped>>
  PROVE  LabelTypeOK' /\ BrokerTypeOK'
<1>1. BrokerTypeOK'
  BY JobEvent, PublishClassifiedType DEF Requeue
<1>2. LabelTypeOK'
  BY EndJobType DEF Requeue, LabelTypeOK
<1> QED BY <1>1, <1>2

LEMMA RequeueHeldType ==
  ASSUME LabelTypeOK, BrokerTypeOK, RequeueHeld, UNCHANGED <<request, rawQueue>>
  PROVE  BrokerTypeOK'
<1>1. ASSUME NEW e \in ClassifiedEvent
      PROVE  Held(e) \in Nat
  <2>1. {t \in DOMAIN labelling : labelling[t].event = e} \subseteq Labelers
    BY DEF LabelTypeOK
  <2> QED BY <2>1, LabelersAssumption, FS_Subset, FS_CardinalityType DEF Held
<1> QED BY <1>1 DEF RequeueHeld, BrokerTypeOK

\* What a call to Gmail or to the database leaves behind.
LEMMA ModifyType ==
  ASSUME GmailTypeOK, LabelTypeOK, BrokerTypeOK, NEW t \in DOMAIN labelling,
         ModifyMessage(t), UNCHANGED mailboxLabels
  PROVE  GmailTypeOK'
<1> DEFINE e == labelling[t].event
           mail == [labels |-> mailbox[e.msg].labels \cup {e.label},
                    inbox  |-> FALSE,
                    unread |-> mailbox[e.msg].unread /\ ~request[e.run].markRead]
<1>1. e.msg \in Messages /\ e.label \in Labels /\ e.run \in Runs
  BY JobEvent
<1>2. mail \in Mail
  BY <1>1 DEF GmailTypeOK, Mail
<1>3. mailbox' = [mailbox EXCEPT ![e.msg] = mail]
  BY <1>1 DEF ModifyMessage, ApplyLabelToMessage, GmailTypeOK
<1> HIDE DEF mail
<1> QED BY <1>1, <1>2, <1>3 DEF GmailTypeOK

LEMMA CallEffectType ==
  ASSUME LabelInv, NEW t, CallEffect(t), UNCHANGED <<scanRuns, verdict>>
  PROVE  t \in DOMAIN labelling /\ GmailTypeOK' /\ StorageTypeOK'
<1> USE DEF LabelInv
<1> DEFINE e == labelling[t].event
<1>0. t \in DOMAIN labelling
  BY DEF CallEffect, Doing
<1>1. CASE CreateLabel(e.label) /\ UNCHANGED <<mailbox, emailMessages>>
  BY <1>0, <1>1, JobEvent DEF CreateLabel, GmailTypeOK, StorageTypeOK
<1>2. CASE ModifyMessage(t) /\ UNCHANGED <<mailboxLabels, emailMessages>>
  BY <1>0, <1>2, ModifyType DEF StorageTypeOK
<1>3. CASE /\ KeyOf(e) \in DOMAIN emailMessages
           /\ MarkEmailLabelApplied(KeyOf(e), e.label)
           /\ UNCHANGED gmailVars
  BY <1>0, <1>3, MarkType, JobEvent, GmailUnchanged
<1> QED BY <1>0, <1>1, <1>2, <1>3 DEF CallEffect

LEMMA LabelStepType ==
  ASSUME LabelInv, LabelNext
  PROVE  LabelInv'
<1> USE DEF LabelInv
<1>f. FaultsTypeOK'
  BY FaultsType DEF LabelNext, LabelerStep, ReceiveClassified, ListLabels,
     EnsureLabelCreates, Apply, MarkApplied, AckClassified, AbandonClassified,
     TransientFailure, PermanentFailure, LoseLabelConnection,
     RestartLabelWorker, CrashLabelWorker
<1>1. ASSUME NEW t \in Labelers, NEW e \in ClassifiedEvent,
             ReceiveClassified(t, e)
      PROVE  LabelInv'
  <2> DEFINE job == [pc |-> IF request[e.run].mode = "apply"
                              THEN "list" ELSE "ack",
                     event |-> e]
  <2>1. job \in Job
    BY DEF Job
  <2>2. labelling' = With(labelling, t, job)
    BY <1>1 DEF ReceiveClassified
  <2> HIDE DEF job
  <2>3. /\ DOMAIN labelling' \subseteq Labelers
        /\ labelling' \in [DOMAIN labelling' -> Job]
    BY <2>1, <2>2, WithType DEF LabelTypeOK
  <2>4. LabelTypeOK'
    BY <1>1, <2>3 DEF ReceiveClassified, LabelTypeOK
  <2>5. BrokerTypeOK'
    BY <1>1 DEF ReceiveClassified, DeliverClassified, StaleClassified, BrokerTypeOK
  <2> QED BY <1>1, <2>4, <2>5, <1>f, StorageUnchanged, GmailUnchanged
            DEF ReceiveClassified
<1>2. ASSUME NEW t \in Labelers, ListLabels(t)
      PROVE  LabelInv'
  <2>1. LabelTypeOK'
    BY <1>2, GoToType DEF ListLabels, LabelTypeOK
  <2> QED BY <1>2, <2>1, <1>f, StorageUnchanged, GmailUnchanged,
             BrokerUnchanged DEF ListLabels
<1>3. ASSUME NEW t \in Labelers, EnsureLabelCreates(t)
      PROVE  LabelInv'
  <2> DEFINE label == labelling[t].event.label
  <2>1. t \in DOMAIN labelling /\ label \in Labels
    BY <1>3, JobEvent DEF EnsureLabelCreates, Doing
  <2>2. CASE Drop(t) /\ UNCHANGED mailboxLabels
    BY <1>3, <2>1, <2>2, <1>f, DropType, StorageUnchanged, BrokerUnchanged
       DEF EnsureLabelCreates, GmailTypeOK
  <2>3. CASE CreateLabel(label) /\ GoTo(t, "modify") /\ UNCHANGED dropped
    <3>1. LabelTypeOK'
      BY <1>3, <2>3, GoToType DEF EnsureLabelCreates, LabelTypeOK
    <3>2. GmailTypeOK'
      BY <1>3, <2>1, <2>3 DEF EnsureLabelCreates, CreateLabel, GmailTypeOK
    <3> QED BY <1>3, <3>1, <3>2, <1>f, StorageUnchanged, BrokerUnchanged
              DEF EnsureLabelCreates
  <2> QED BY <1>3, <2>2, <2>3 DEF EnsureLabelCreates
<1>4. ASSUME NEW t \in Labelers, Apply(t)
      PROVE  LabelInv'
  <2>1. LabelTypeOK'
    BY <1>4, GoToType DEF Apply, LabelTypeOK
  <2>2. GmailTypeOK'
    BY <1>4, ModifyType DEF Apply, Doing
  <2> QED BY <1>4, <2>1, <2>2, <1>f, StorageUnchanged, BrokerUnchanged DEF Apply
<1>5. ASSUME NEW t \in Labelers, MarkApplied(t)
      PROVE  LabelInv'
  <2> DEFINE e == labelling[t].event
  <2>1. t \in DOMAIN labelling
    BY <1>5 DEF MarkApplied, Doing
  <2>2. CASE Drop(t) /\ UNCHANGED emailMessages
    BY <1>5, <2>1, <2>2, <1>f, DropType, StorageUnchanged, GmailUnchanged,
       BrokerUnchanged DEF MarkApplied, storageVars
  <2>3. CASE /\ KeyOf(e) \in DOMAIN emailMessages
             /\ MarkEmailLabelApplied(KeyOf(e), e.label)
             /\ GoTo(t, "ack")
             /\ UNCHANGED dropped
    <3>1. StorageTypeOK'
      BY <1>5, <2>1, <2>3, JobEvent, MarkType DEF MarkApplied
    <3>2. LabelTypeOK'
      BY <1>5, <2>3, GoToType DEF MarkApplied, LabelTypeOK
    <3> QED BY <1>5, <3>1, <3>2, <1>f, GmailUnchanged, BrokerUnchanged
              DEF MarkApplied
  <2> QED BY <1>5, <2>2, <2>3 DEF MarkApplied
<1>6. ASSUME NEW t \in Labelers, AckClassified(t) \/ AbandonClassified(t)
      PROVE  LabelInv'
  <2>1. LabelTypeOK'
    BY <1>6, EndJobType DEF AckClassified, AbandonClassified, LabelTypeOK
  <2> QED BY <1>6, <2>1, <1>f, StorageUnchanged, GmailUnchanged,
             BrokerUnchanged DEF AckClassified, AbandonClassified
<1>7. ASSUME NEW t \in Labelers, TransientFailure(t)
      PROVE  LabelInv'
  <2>1. t \in DOMAIN labelling /\ GmailTypeOK' /\ StorageTypeOK'
    <3>1. CASE CallEffect(t)
      BY <1>7, <3>1, CallEffectType DEF TransientFailure
    <3>2. CASE InCall(t) /\ UNCHANGED <<gmailVars, emailMessages>>
      BY <1>7, <3>2, GmailUnchanged, StorageUnchanged
         DEF TransientFailure, InCall, Doing, storageVars
    <3> QED BY <1>7, <3>1, <3>2 DEF TransientFailure
  <2>2. LabelTypeOK' /\ BrokerTypeOK'
    BY <1>7, <2>1, RequeueType DEF TransientFailure
  <2> QED BY <2>1, <2>2, <1>f
<1>8. ASSUME NEW t \in Labelers, PermanentFailure(t)
      PROVE  LabelInv'
  <2>1. t \in DOMAIN labelling
    BY <1>8 DEF PermanentFailure, Doing
  <2> QED BY <1>8, <2>1, <1>f, DropType, StorageUnchanged, GmailUnchanged,
             BrokerUnchanged DEF PermanentFailure
<1>9. CASE LoseLabelConnection
  <2>1. LabelTypeOK'
    BY <1>9 DEF LoseLabelConnection, LabelTypeOK
  <2> QED BY <1>9, <2>1, <1>f, RequeueHeldType, StorageUnchanged,
             GmailUnchanged DEF LoseLabelConnection
<1>10. CASE RestartLabelWorker
  <2>1. LabelTypeOK'
    BY <1>10 DEF RestartLabelWorker, LabelTypeOK
  <2> QED BY <1>10, <2>1, <1>f, StorageUnchanged, GmailUnchanged,
             BrokerUnchanged DEF RestartLabelWorker
<1>11. CASE CrashLabelWorker
  <2>1. LabelTypeOK'
    BY <1>11 DEF CrashLabelWorker, LabelTypeOK
  <2> QED BY <1>11, <2>1, <1>f, RequeueHeldType, StorageUnchanged,
             GmailUnchanged DEF CrashLabelWorker
<1> QED BY <1>1, <1>2, <1>3, <1>4, <1>5, <1>6, <1>7, <1>8, <1>9, <1>10, <1>11
          DEF LabelNext, LabelerStep

-----------------------------------------------------------------------------
(* The pipeline *)

LEMMA TypeInvInit == Init => TypeInv
<1> SUFFICES ASSUME Init PROVE TypeInv
  OBVIOUS
<1>1. StorageTypeOK /\ BrokerTypeOK /\ FaultsTypeOK
  BY MaxFaultsAssumption DEF Init, StorageInit, StorageTypeOK, BrokerInit,
     BrokerTypeOK, FaultsInit, FaultsTypeOK
<1>2. ScanApiTypeOK /\ BatchOK /\ NotStarted
  BY ScanApiAssumption DEF Init, ScanApiInit, ScanApiTypeOK, Goroutine,
     GoroutineStates, BatchOK, NotStarted
<1>3. GmailTypeOK /\ ClassifierTypeOK /\ LabelTypeOK
  BY DEF Init, GmailInit, GmailTypeOK, Mail, ClassifierInit, ClassifierTypeOK,
     LabelInit, LabelTypeOK
<1> QED BY <1>1, <1>2, <1>3 DEF TypeInv, TypeOK

LEMMA TypeInvNext == TypeInv /\ [Next]_vars => TypeInv'
<1> SUFFICES ASSUME TypeInv, [Next]_vars PROVE TypeInv'
  OBVIOUS
<1> USE DEF TypeInv, TypeOK
<1>1. CASE ScanApiNext /\ UNCHANGED apiLeaves
  BY <1>1, ApiStepType, GmailUnchanged, ClassifierUnchanged, LabelUnchanged
     DEF ApiInv, apiLeaves
<1>2. CASE ClassifierNext /\ UNCHANGED classifierLeaves
  <2>1. ClassifierInv'
    BY <1>2, ClassifierStepType DEF ClassifierInv
  <2>2. UNCHANGED scanRuns
    BY <1>2 DEF ClassifierNext, ClassifierStep, ReceiveRaw, LoadRules, Upsert,
       PublishClassified, AckRaw, AbandonRaw, RestartClassifier, ClassifyFails,
       LoseClassifierConnection, CrashClassifier, storageVars
  <2>3. NotStarted'
    BY <1>2, <2>2 DEF NotStarted, classifierLeaves, scanApiVars
  <2> QED BY <1>2, <2>1, <2>3, ScanApiUnchanged, GmailUnchanged, LabelUnchanged
            DEF ClassifierInv, classifierLeaves
<1>3. CASE LabelNext /\ UNCHANGED labelLeaves
  <2>1. LabelInv'
    BY <1>3, LabelStepType DEF LabelInv
  <2>2. UNCHANGED scanRuns
    BY <1>3 DEF LabelNext, LabelerStep, ReceiveClassified, ListLabels,
       EnsureLabelCreates, Apply, MarkApplied, AckClassified,
       AbandonClassified, TransientFailure, PermanentFailure,
       LoseLabelConnection, RestartLabelWorker, CrashLabelWorker, storageVars
  <2>3. NotStarted'
    BY <1>3, <2>2 DEF NotStarted, labelLeaves, scanApiVars
  <2> QED BY <1>3, <2>1, <2>3, ScanApiUnchanged, ClassifierUnchanged
            DEF LabelInv, labelLeaves
<1>4. CASE /\ EditRules
           /\ UNCHANGED <<brokerVars, faults, scanApiVars, gmailVars,
                          classifierVars, labelVars>>
  <2>1. StorageTypeOK' /\ UNCHANGED scanRuns
    BY <1>4 DEF EditRules, StorageTypeOK
  <2>2. FaultsTypeOK' /\ NotStarted'
    BY <1>4, <2>1 DEF FaultsTypeOK, NotStarted, scanApiVars
  <2> QED BY <1>4, <2>1, <2>2, BrokerUnchanged, ScanApiUnchanged,
             GmailUnchanged, ClassifierUnchanged, LabelUnchanged
<1>5. CASE UNCHANGED vars
  <2>1. FaultsTypeOK' /\ NotStarted'
    BY <1>5 DEF vars, FaultsTypeOK, NotStarted, scanApiVars, storageVars
  <2> QED BY <1>5, <2>1, StorageUnchanged, BrokerUnchanged, ScanApiUnchanged,
             GmailUnchanged, ClassifierUnchanged, LabelUnchanged DEF vars
<1> QED BY <1>1, <1>2, <1>3, <1>4, <1>5 DEF Next

\* Every variable of the pipeline keeps its type in every reachable state, for
\* any number of scans, messages, labels, workers and failures: rows are rows
\* of their tables, no queue holds fewer than no copies of an event, and every
\* handler holds an event and a label it really received.
THEOREM TypeCorrect == Spec => []TypeOK
<1>1. TypeInv => TypeOK
  BY DEF TypeInv
<1> QED BY <1>1, TypeInvInit, TypeInvNext, PTL DEF Spec

=============================================================================
