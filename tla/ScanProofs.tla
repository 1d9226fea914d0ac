------------------------------ MODULE ScanProofs ----------------------------
(***************************************************************************)
(* What a client sees of a scan: the counters of its row balance in every   *)
(* state, and a finished row never changes again.                           *)
(*                                                                          *)
(* A row can only balance because the goroutine writes its totals between   *)
(* batches (BatchOK: nothing is left to publish then), and it is only final *)
(* because a goroutine that could still write works on an unfinished row    *)
(* (EnqueuingWhileActive).                                                  *)
(*                                                                          *)
(* And an answer "complete" of getScan is true: the rows of a run are among *)
(* the messages it handed over, so as many of them are the same ones.       *)
(* A finished run stays complete until a rescan takes one of its rows, and  *)
(* only a failure leaves a row without goroutine and without final status.  *)
(***************************************************************************)
EXTENDS DeliveryProofs

EnqueuingWhileActive ==
  \A r \in Runs : Active(r) => scanRuns[r].status = "enqueuing"

ScanRowInv == TypeInv /\ CountersBalance /\ EnqueuingWhileActive

-----------------------------------------------------------------------------

\* The totals of one goroutine, and of one row.
GoroutineBalances(g) == g.found = g.processed + g.failed + Len(g.todo)
RowBalances(row) == row.found = row.processed + row.failed

LEMMA BalanceByParts ==
  CountersBalance <=> /\ \A r \in DOMAIN scanRuns : RowBalances(scanRuns[r])
                      /\ \A r \in Runs : GoroutineBalances(enqueue[r])
BY DEF CountersBalance, RowBalances, GoroutineBalances

\* A page adds as many messages to the total as to the batch; the batch loop
\* takes one message and counts it once.
LEMMA WithPageBalances ==
  ASSUME NEW g \in Goroutine, g.todo = <<>>, GoroutineBalances(g),
         NEW page \in Pages, NEW more \in BOOLEAN
  PROVE  GoroutineBalances(WithPage(g, page, more))
<1>1. page \in Seq(Messages)
  BY ScanApiAssumption
<1>2. Len(page) \in Nat
  BY <1>1, LenProperties
<1>3. Len(<<>>) = 0
  BY EmptySeq
<1>4. /\ WithPage(g, page, more).found = g.found + Len(page)
      /\ WithPage(g, page, more).processed = g.processed
      /\ WithPage(g, page, more).failed = g.failed
      /\ WithPage(g, page, more).todo = page
  BY DEF WithPage, Goroutine
<1> QED BY <1>2, <1>3, <1>4 DEF GoroutineBalances, Goroutine

LEMMA AdvancedBalances ==
  ASSUME NEW g \in Goroutine, g.todo # <<>>, GoroutineBalances(g),
         NEW ok \in BOOLEAN
  PROVE  GoroutineBalances(Advanced(g, ok))
<1>1. /\ Len(g.todo) \in Nat \ {0}
      /\ Len(Tail(g.todo)) = Len(g.todo) - 1
  BY TailOfBatch DEF Goroutine
<1>2. /\ Advanced(g, ok).found = g.found
      /\ Advanced(g, ok).processed = IF ok THEN g.processed + 1 ELSE g.processed
      /\ Advanced(g, ok).failed = IF ok THEN g.failed ELSE g.failed + 1
      /\ Advanced(g, ok).todo = Tail(g.todo)
  BY DEF Advanced, Goroutine
<1> QED BY <1>1, <1>2 DEF GoroutineBalances, Goroutine

\* A goroutine that only changes its pc keeps its totals.
LEMMA MoveBalances ==
  ASSUME NEW g \in Goroutine, GoroutineBalances(g), NEW pc
  PROVE  GoroutineBalances([g EXCEPT !.pc = pc])
BY DEF GoroutineBalances, Goroutine

\* Writing the totals between batches leaves a balanced row.
LEMMA WrittenRowBalances ==
  ASSUME TypeInv, CountersBalance, NEW r \in DOMAIN scanRuns,
         enqueue[r].todo = <<>>,
         WriteProgress(r) \/ \E s \in FinishedStatuses : WriteCompletion(r, s)
  PROVE  /\ DOMAIN scanRuns' = DOMAIN scanRuns
         /\ \A q \in DOMAIN scanRuns : q # r => scanRuns'[q] = scanRuns[q]
         /\ RowBalances(scanRuns'[r])
         /\ WriteProgress(r) => scanRuns'[r].status = scanRuns[r].status
<1> DEFINE g == enqueue[r]
<1>1. r \in Runs /\ g \in Goroutine /\ scanRuns[r] \in ScanRun
  BY DEF TypeInv, TypeOK, ScanApiTypeOK, StorageTypeOK
<1>2. g.found = g.processed + g.failed
  BY <1>1, EmptySeq DEF CountersBalance, Goroutine
<1>3. CASE WriteProgress(r)
  BY <1>1, <1>2, <1>3 DEF WriteProgress, UpdateScanRunProgress, RowBalances,
     ScanRun
<1>4. ASSUME NEW s \in FinishedStatuses, WriteCompletion(r, s)
      PROVE  /\ DOMAIN scanRuns' = DOMAIN scanRuns
             /\ \A q \in DOMAIN scanRuns : q # r => scanRuns'[q] = scanRuns[q]
             /\ RowBalances(scanRuns'[r])
  BY <1>1, <1>2, <1>4 DEF WriteCompletion, CompleteScanRun, RowBalances, ScanRun
<1> QED BY <1>3, <1>4

-----------------------------------------------------------------------------

\* What every step has to keep.
RowsKept ==
  /\ CountersBalance'
  /\ EnqueuingWhileActive'
  /\ \A r \in Runs : Finished(r) => scanRuns'[r] = scanRuns[r]

\* A step of one goroutine that leaves the table alone.
LEMMA GoroutineStep ==
  ASSUME ScanRowInv, NEW r \in Runs, NEW g \in Goroutine,
         enqueue' = [enqueue EXCEPT ![r] = g], GoroutineBalances(g),
         Active(r) \/ g.pc \in {"none", "done", "killed"}, UNCHANGED scanRuns
  PROVE  RowsKept
<1>1. CountersBalance'
  BY DEF ScanRowInv, TypeInv, TypeOK, ScanApiTypeOK, CountersBalance,
     GoroutineBalances
<1>2. EnqueuingWhileActive'
  BY DEF ScanRowInv, TypeInv, TypeOK, ScanApiTypeOK, EnqueuingWhileActive, Active
<1> QED BY <1>1, <1>2 DEF RowsKept

\* A step that writes one row: the goroutine was active, so the row was not
\* finished; it stays unfinished or the goroutine returns.
LEMMA RowStep ==
  ASSUME ScanRowInv, NEW r \in Runs, Active(r), enqueue[r].todo = <<>>,
         NEW pc, enqueue' = [enqueue EXCEPT ![r].pc = pc],
         \/ WriteProgress(r)
         \/ pc = "done" /\ \E s \in FinishedStatuses : WriteCompletion(r, s)
  PROVE  RowsKept
<1> USE DEF ScanRowInv
<1>1. r \in DOMAIN scanRuns
  BY DEF TypeInv, NotStarted, Active
<1>2. /\ DOMAIN scanRuns' = DOMAIN scanRuns
      /\ \A q \in DOMAIN scanRuns : q # r => scanRuns'[q] = scanRuns[q]
      /\ RowBalances(scanRuns'[r])
      /\ WriteProgress(r) => scanRuns'[r].status = scanRuns[r].status
  BY <1>1, WrittenRowBalances
<1>3. scanRuns[r].status = "enqueuing"
  BY DEF EnqueuingWhileActive
<1>4. enqueue[r] \in Goroutine /\ GoroutineBalances(enqueue[r])
  BY DEF TypeInv, TypeOK, ScanApiTypeOK, CountersBalance, GoroutineBalances
<1>5. \A q \in Runs : GoroutineBalances(enqueue'[q])
  BY <1>4, MoveBalances DEF TypeInv, TypeOK, ScanApiTypeOK, CountersBalance,
     GoroutineBalances
<1>6. CountersBalance'
  BY <1>2, <1>5 DEF CountersBalance, RowBalances, GoroutineBalances
<1>7. EnqueuingWhileActive'
  <2> SUFFICES ASSUME NEW q \in Runs, Active(q)'
               PROVE  scanRuns'[q].status = "enqueuing"
    BY DEF EnqueuingWhileActive
  <2>1. CASE q = r
    BY <1>2, <1>3, <2>1 DEF Active, TypeInv, TypeOK, ScanApiTypeOK, Goroutine
  <2>2. CASE q # r
    <3>1. Active(q)
      BY <2>2 DEF Active, TypeInv, TypeOK, ScanApiTypeOK
    <3>2. q \in DOMAIN scanRuns
      BY <3>1 DEF TypeInv, NotStarted, Active
    <3> QED BY <1>2, <2>2, <3>1, <3>2 DEF EnqueuingWhileActive
  <2> QED BY <2>1, <2>2
<1>8. ASSUME NEW q \in Runs, Finished(q)
      PROVE  scanRuns'[q] = scanRuns[q]
  BY <1>2, <1>3, <1>8 DEF Finished, FinishedStatuses
<1> QED BY <1>6, <1>7, <1>8 DEF RowsKept

LEMMA CreateStep ==
  ASSUME ScanRowInv, NEW r \in Runs,
         CreateScanRun(r, request[r].user, request[r].mode),
         enqueue' = [enqueue EXCEPT ![r].pc = "list"] \/ UNCHANGED enqueue
  PROVE  RowsKept
<1> USE DEF ScanRowInv
<1>1. /\ r \notin DOMAIN scanRuns
      /\ DOMAIN scanRuns' = DOMAIN scanRuns \cup {r}
      /\ \A q \in DOMAIN scanRuns : scanRuns'[q] = scanRuns[q]
      /\ scanRuns'[r].status = "enqueuing" /\ RowBalances(scanRuns'[r])
  BY DEF CreateScanRun, With, RowBalances
<1>2. \A q \in Runs : GoroutineBalances(enqueue'[q])
  <2>1. \A q \in Runs : enqueue[q] \in Goroutine /\ GoroutineBalances(enqueue[q])
    BY DEF TypeInv, TypeOK, ScanApiTypeOK, CountersBalance, GoroutineBalances
  <2>2. CASE enqueue' = [enqueue EXCEPT ![r].pc = "list"]
    <3> DEFINE g == [enqueue[r] EXCEPT !.pc = "list"]
    <3>1. GoroutineBalances(g)
      BY <2>1, MoveBalances
    <3>2. enqueue' = [enqueue EXCEPT ![r] = g]
      BY <2>2
    <3> HIDE DEF g
    <3> QED BY <2>1, <3>1, <3>2 DEF TypeInv, TypeOK, ScanApiTypeOK
  <2> QED BY <2>1, <2>2
<1>3. CountersBalance'
  BY <1>1, <1>2 DEF CountersBalance, RowBalances, GoroutineBalances
<1>4. EnqueuingWhileActive'
  <2> SUFFICES ASSUME NEW q \in Runs, Active(q)'
               PROVE  scanRuns'[q].status = "enqueuing"
    BY DEF EnqueuingWhileActive
  <2>1. CASE q # r
    <3>1. Active(q)
      BY <2>1 DEF Active, TypeInv, TypeOK, ScanApiTypeOK
    <3>2. q \in DOMAIN scanRuns
      BY <3>1 DEF TypeInv, NotStarted, Active
    <3> QED BY <1>1, <3>1, <3>2 DEF EnqueuingWhileActive
  <2> QED BY <1>1, <2>1
<1> QED BY <1>1, <1>3, <1>4 DEF RowsKept, Finished

LEMMA ScanApiRows ==
  ASSUME ScanRowInv, ScanApiNext
  PROVE  RowsKept
<1> USE DEF ScanRowInv
<1>0. ASSUME NEW r \in Runs
      PROVE  /\ enqueue[r] \in Goroutine /\ GoroutineBalances(enqueue[r])
             /\ enqueue[r].pc \notin {"publish", "killed"}
                  => enqueue[r].todo = <<>>
  BY DEF TypeInv, TypeOK, ScanApiTypeOK, CountersBalance, GoroutineBalances,
     BatchOK
<1>1. ASSUME NEW r \in Runs, StartScan(r) \/ StartScanReplyLost(r)
      PROVE  RowsKept
  BY <1>1, CreateStep DEF StartScan, StartScanReplyLost, scanApiVars
<1>2. ASSUME NEW r \in Runs, ListPage(r)
      PROVE  RowsKept
  <2>1. PICK page \in Pages, more \in BOOLEAN :
          enqueue' = [enqueue EXCEPT ![r] = WithPage(enqueue[r], page, more)]
    BY <1>2 DEF ListPage
  <2>2. WithPage(enqueue[r], page, more) \in Goroutine
    BY <1>0, <1>2, WithPageType DEF ListPage
  <2>3. GoroutineBalances(WithPage(enqueue[r], page, more))
    BY <1>0, <1>2, WithPageBalances DEF ListPage
  <2> QED BY <1>2, <2>1, <2>2, <2>3, GoroutineStep
            DEF ListPage, Active, storageVars
<1>3. ASSUME NEW r \in Runs, PublishNext(r)
      PROVE  RowsKept
  <2> DEFINE ok == apiConn # "closed"
  <2>1. enqueue[r].todo # <<>>
    BY <1>3 DEF PublishNext, TypeInv, BatchOK
  <2>2. enqueue' = [enqueue EXCEPT ![r] = Advanced(enqueue[r], ok)]
    BY <1>3 DEF PublishNext
  <2>3. Advanced(enqueue[r], ok) \in Goroutine
    BY <1>0, <2>1, AdvancedType
  <2>4. GoroutineBalances(Advanced(enqueue[r], ok))
    BY <1>0, <2>1, AdvancedBalances
  <2> QED BY <1>3, <2>2, <2>3, <2>4, GoroutineStep
            DEF PublishNext, Active, storageVars
<1>4. ASSUME NEW r \in Runs, WriteProgress(r),
             UpdateProgress(r) \/ UpdateProgressFails(r)
      PROVE  RowsKept
  BY <1>0, <1>4, RowStep DEF UpdateProgress, UpdateProgressFails, Active
<1>5. ASSUME NEW r \in Runs, FailRun(r) \/ CompleteRun(r)
      PROVE  RowsKept
  <2>1. QueuedStatus(enqueue[r].failed) \in FinishedStatuses
        /\ "failed" \in FinishedStatuses
    BY DEF QueuedStatus, FinishedStatuses
  <2> QED BY <1>0, <1>5, <2>1, RowStep
            DEF FailRun, CompleteRun, GoroutineReturns, Active
<1>6. ASSUME NEW r \in Runs,
             \/ ListPageFails(r)
             \/ CompletionLost(r)
             \/ UpdateProgressFails(r) /\ UNCHANGED scanRuns
      PROVE  RowsKept
  <2>1. PICK pc \in {"fail", "done"} : enqueue' = [enqueue EXCEPT ![r].pc = pc]
    BY <1>6 DEF ListPageFails, CompletionLost, GoroutineReturns,
       UpdateProgressFails
  <2> DEFINE g == [enqueue[r] EXCEPT !.pc = pc]
  <2>2. g \in Goroutine /\ GoroutineBalances(g)
    BY <1>0, MoveBalances DEF Goroutine, GoroutineStates
  <2>3. Active(r) /\ UNCHANGED scanRuns
    BY <1>6 DEF ListPageFails, CompletionLost, UpdateProgressFails, Active,
       storageVars
  <2>4. enqueue' = [enqueue EXCEPT ![r] = g]
    BY <2>1 DEF TypeInv, TypeOK, ScanApiTypeOK
  <2> QED BY <2>2, <2>3, <2>4, GoroutineStep
<1>7. CASE UNCHANGED <<scanRuns, enqueue>>
  BY <1>7 DEF RowsKept, CountersBalance, EnqueuingWhileActive, Active
<1>8. CASE ApiRestart
  <2>1. \A r \in Runs : GoroutineBalances(enqueue'[r])
    BY <1>0, <1>8, MoveBalances DEF ApiRestart
  <2>2. \A r \in Runs : ~Active(r)'
    BY <1>0, <1>8 DEF ApiRestart, Active, Goroutine
  <2>3. UNCHANGED scanRuns
    BY <1>8 DEF ApiRestart, storageVars
  <2> QED BY <2>1, <2>2, <2>3 DEF RowsKept, CountersBalance, GoroutineBalances,
            EnqueuingWhileActive
<1>9. ASSUME NEW r \in Runs, UpdateProgressFails(r)
      PROVE  RowsKept
  BY <1>4, <1>6, <1>9 DEF UpdateProgressFails
<1>10. ASSUME NEW r \in Runs, UpdateProgress(r)
       PROVE  RowsKept
  BY <1>4, <1>10 DEF UpdateProgress
<1>11. CASE \/ \E c \in Readers, r \in Runs : GetScanRun(c, r)
            \/ \E c \in Readers : GetScanCounts(c)
            \/ ApiConnBreaks
            \/ ApiConnCloses
  BY <1>7, <1>11 DEF GetScanRun, GetScanCounts, ApiConnBreaks, ApiConnCloses,
     storageVars
<1> QED BY <1>1, <1>2, <1>3, <1>5, <1>6, <1>8, <1>9, <1>10, <1>11
          DEF ScanApiNext, EnqueueStep

LEMMA RowsKeptByNext ==
  ASSUME ScanRowInv, [Next]_vars
  PROVE  RowsKept
<1>1. CASE ScanApiNext
  BY <1>1, ScanApiRows
<1>2. CASE UNCHANGED <<scanRuns, enqueue>>
  BY <1>2 DEF ScanRowInv, RowsKept, CountersBalance, EnqueuingWhileActive,
     Active
<1>3. ClassifierNext => UNCHANGED scanRuns
  BY DEF ClassifierNext, ClassifierStep, ReceiveRaw, LoadRules, Upsert,
     PublishClassified, AckRaw, AbandonRaw, RestartClassifier, ClassifyFails,
     LoseClassifierConnection, CrashClassifier, storageVars
<1>4. LabelNext => UNCHANGED scanRuns
  BY DEF LabelNext, LabelerStep, ReceiveClassified, ListLabels,
     EnsureLabelCreates, Apply, MarkApplied, AckClassified,
     AbandonClassified, TransientFailure, PermanentFailure,
     LoseLabelConnection, RestartLabelWorker, CrashLabelWorker, storageVars
<1> QED BY <1>1, <1>2, <1>3, <1>4 DEF Next, vars, EditRules, storageVars,
          scanApiVars, classifierLeaves, labelLeaves

LEMMA ScanRowInvInit == Init => ScanRowInv
<1> SUFFICES ASSUME Init PROVE ScanRowInv
  OBVIOUS
<1>1. CountersBalance /\ EnqueuingWhileActive
  BY EmptySeq DEF Init, StorageInit, ScanApiInit, CountersBalance,
     EnqueuingWhileActive, Active
<1> QED BY <1>1, TypeInvInit DEF ScanRowInv

LEMMA ScanRowInvNext == ScanRowInv /\ [Next]_vars => ScanRowInv'
BY RowsKeptByNext, TypeInvNext DEF ScanRowInv, RowsKept

\* In every state, also between two statements of a scan and whatever fails,
\* total_found of a row is total_processed plus total_failed, and a goroutine
\* has counted or still holds every message it was given.
THEOREM CountersAlwaysBalance == Spec => []CountersBalance
<1>1. ScanRowInv => CountersBalance
  BY DEF ScanRowInv
<1> QED BY <1>1, ScanRowInvInit, ScanRowInvNext, PTL DEF Spec

\* A row with a finished status is never written again.
THEOREM FinishedStaysFinal == Spec => FinishedIsFinal
<1>1. ScanRowInv /\ [Next]_vars
        => [\A r \in Runs : Finished(r) => scanRuns'[r] = scanRuns[r]]_vars
  BY RowsKeptByNext DEF RowsKept
<1> QED BY <1>1, ScanRowInvInit, ScanRowInvNext, PTL DEF Spec, FinishedIsFinal

-----------------------------------------------------------------------------
(* An answer "complete" is true *)

\* A row belongs to the user of its run, which has published the message.
RowsOwned ==
  \A k \in DOMAIN emailMessages :
    LET r == emailMessages[k].run IN
    k[1] = request[r].user /\ k[2] \in handed[r]

\* A goroutine counts every message it hands over, some of them twice, and
\* its last write to the row says how many.
HandedCounted ==
  \A r \in Runs :
    /\ Cardinality(handed[r]) <= enqueue[r].processed
    /\ Finished(r) => scanRuns[r].processed = enqueue[r].processed

\* A finished row that a client holds is still the row of its run.
ViewsCurrent ==
  \A c \in DOMAIN views :
    views[c].row.status \in FinishedStatuses =>
      Finished(views[c].run) /\ scanRuns[views[c].run] = views[c].row

AnswerInv ==
  LedgerInv /\ ScanRowInv /\ RowsOwned /\ HandedCounted /\ ViewsCurrent

LEMMA RowsOwnedNext ==
  ASSUME LedgerInv, RowsOwned, [Next]_vars
  PROVE  RowsOwned'
<1> USE DEF LedgerInv, AppliedInv, RowInv
<1>0. request' = request /\ \A r \in Runs : handed[r] \subseteq handed'[r]
  BY NothingIsTakenBack
<1>1. \A k \in DOMAIN emailMessages : emailMessages[k].run \in Runs
  BY DEF TypeInv, TypeOK, StorageTypeOK, EmailMessage
<1>2. CASE UNCHANGED emailMessages
  BY <1>0, <1>1, <1>2 DEF RowsOwned
<1>3. ASSUME NEW w \in Classifiers, Records(w) PROVE RowsOwned'
  <2>0. PICK e \in RawEvent : e = classifying[w].event
    BY <1>3 DEF Records, At, TypeInv, TypeOK, ClassifierTypeOK, Handling
  <2>1. e.run \in Runs /\ e.msg \in handed[e.run]
    BY <1>3, <2>0 DEF Records, At, OnBehalf, ClassifyingOnBehalf, RawEvent
  <2>2. PICK row : row.run = e.run
                   /\ emailMessages' = With(emailMessages, KeyOf(e), row)
    BY <1>3, <2>0 DEF Records, RecordClassification, UpsertEmailMessage
  <2> QED BY <1>0, <1>1, <2>1, <2>2 DEF RowsOwned, With, KeyOf
<1>4. ASSUME NEW t \in Labelers, Marks(t) PROVE RowsOwned'
  <2>1. /\ DOMAIN emailMessages' = DOMAIN emailMessages
        /\ \A k \in DOMAIN emailMessages :
             emailMessages'[k].run = emailMessages[k].run
    BY <1>4 DEF Marks, MarkEmailLabelApplied, TypeInv, TypeOK, StorageTypeOK,
       EmailMessage
  <2> QED BY <1>0, <1>1, <2>1 DEF RowsOwned
<1> QED BY <1>2, <1>3, <1>4, LedgerSteps DEF Offers, Modifies

\* A goroutine's count only changes with its publish call, and what it writes
\* when it finishes the row is that count.
LEMMA CountsChange ==
  ASSUME TypeInv, ScanApiNext, NEW r \in Runs
  PROVE  \/ PublishNext(r)
         \/ /\ handed'[r] = handed[r]
            /\ enqueue'[r].processed = enqueue[r].processed
            /\ Finished(r)' => \/ Finished(r)
                               \/ scanRuns'[r].processed = enqueue[r].processed
<1> DEFINE Claim ==
      /\ handed'[r] = handed[r]
      /\ enqueue'[r].processed = enqueue[r].processed
      /\ Finished(r)' => \/ Finished(r)
                         \/ scanRuns'[r].processed = enqueue[r].processed
<1> USE DEF TypeInv, TypeOK, ScanApiTypeOK
<1>0. enqueue \in [Runs -> Goroutine]
  OBVIOUS
<1>a. ASSUME NEW q \in Runs, NEW pc, enqueue' = [enqueue EXCEPT ![q].pc = pc]
      PROVE  enqueue'[r].processed = enqueue[r].processed
  <2>1. enqueue[q] \in Goroutine
    BY <1>0
  <2>2. [enqueue[q] EXCEPT !.pc = pc].processed = enqueue[q].processed
    BY <2>1 DEF Goroutine
  <2> QED BY <1>0, <1>a, <2>2
<1>1. ASSUME NEW q \in Runs, StartScan(q) \/ StartScanReplyLost(q) PROVE Claim
  <2>1. /\ handed' = handed
        /\ enqueue'[r].processed = enqueue[r].processed
    BY <1>0, <1>1 DEF StartScan, StartScanReplyLost, Goroutine, scanApiVars
  <2>2. CreateScanRun(q, request[q].user, request[q].mode)
    BY <1>1 DEF StartScan, StartScanReplyLost
  <2>3. PICK row : /\ row.status = "enqueuing"
                   /\ scanRuns' = With(scanRuns, q, row)
                   /\ q \notin DOMAIN scanRuns
    BY <2>2 DEF CreateScanRun
  <2>4. Finished(r)' => Finished(r)
    BY <2>3 DEF With, Finished, FinishedStatuses
  <2> QED BY <2>1, <2>4
<1>2. ASSUME NEW q \in Runs, ListPage(q) PROVE Claim
  <2>1. enqueue'[r].processed = enqueue[r].processed
    <3>1. PICK page, more : enqueue' =
            [enqueue EXCEPT ![q] = WithPage(@, page, more)]
      BY <1>2 DEF ListPage
    <3>2. WithPage(enqueue[q], page, more).processed = enqueue[q].processed
      BY <1>0 DEF WithPage, Goroutine
    <3> QED BY <1>0, <3>1, <3>2
  <2> QED BY <1>2, <2>1 DEF ListPage, Finished, storageVars
<1>3. ASSUME NEW q \in Runs, PublishNext(q), q # r PROVE Claim
  <2>1. enqueue'[r] = enqueue[r] /\ handed'[r] = handed[r]
    BY <1>0, <1>3 DEF PublishNext
  <2> QED BY <1>3, <2>1 DEF PublishNext, Finished, storageVars
<1>4. ASSUME NEW q \in Runs, UpdateProgress(q) \/ UpdateProgressFails(q)
      PROVE  Claim
  <2>1. /\ handed' = handed
        /\ enqueue'[r].processed = enqueue[r].processed
    <3>1. PICK pc : enqueue' = [enqueue EXCEPT ![q].pc = pc]
      BY <1>4 DEF UpdateProgress, UpdateProgressFails
    <3> QED BY <1>4, <1>a, <3>1 DEF UpdateProgress, UpdateProgressFails
  <2>2. CASE UNCHANGED scanRuns
    BY <2>1, <2>2 DEF Finished
  <2>3. CASE WriteProgress(q)
    <3>1. /\ DOMAIN scanRuns' = DOMAIN scanRuns
          /\ \A p \in DOMAIN scanRuns : scanRuns'[p].status = scanRuns[p].status
      BY <2>3 DEF WriteProgress, UpdateScanRunProgress, StorageTypeOK, ScanRun
    <3> QED BY <2>1, <3>1 DEF Finished
  <2> QED BY <1>4, <2>2, <2>3 DEF UpdateProgress, UpdateProgressFails
<1>5. ASSUME NEW q \in Runs, FailRun(q) \/ CompleteRun(q) PROVE Claim
  <2>1. /\ handed' = handed
        /\ enqueue'[r].processed = enqueue[r].processed
    <3>1. enqueue' = [enqueue EXCEPT ![q].pc = "done"]
      BY <1>5 DEF FailRun, CompleteRun, GoroutineReturns
    <3> QED BY <1>5, <1>a, <3>1 DEF FailRun, CompleteRun
  <2>2. PICK status : WriteCompletion(q, status)
    BY <1>5 DEF FailRun, CompleteRun
  <2>3. /\ DOMAIN scanRuns' = DOMAIN scanRuns
        /\ r # q => scanRuns'[r] = scanRuns[r] \/ r \notin DOMAIN scanRuns
    BY <2>2 DEF WriteCompletion, CompleteScanRun, StorageTypeOK
  <2>4. r = q /\ r \in DOMAIN scanRuns
             => scanRuns'[r].processed = enqueue[r].processed
    <3> SUFFICES ASSUME r = q, r \in DOMAIN scanRuns
                 PROVE  scanRuns'[r].processed = enqueue[r].processed
      OBVIOUS
    <3>1. scanRuns[r] \in ScanRun
      BY DEF StorageTypeOK
    <3> QED BY <2>2, <3>1 DEF WriteCompletion, CompleteScanRun, StorageTypeOK,
              ScanRun
  <2> QED BY <2>1, <2>3, <2>4 DEF Finished
<1>6. ASSUME NEW q \in Runs, ListPageFails(q) \/ CompletionLost(q) PROVE Claim
  <2>1. enqueue'[r].processed = enqueue[r].processed
    <3>1. PICK pc : enqueue' = [enqueue EXCEPT ![q].pc = pc]
      BY <1>6 DEF ListPageFails, CompletionLost, GoroutineReturns
    <3> QED BY <1>a, <3>1
  <2> QED BY <1>6, <2>1 DEF ListPageFails, CompletionLost, Finished, storageVars
<1>7. CASE UNCHANGED <<handed, enqueue, scanRuns>>
  BY <1>7 DEF Finished
<1>8. CASE ApiRestart
  <2>1. enqueue'[r].processed = enqueue[r].processed
    BY <1>0, <1>8 DEF ApiRestart, Goroutine
  <2> QED BY <1>8, <2>1 DEF ApiRestart, Finished, storageVars
<1>9. CASE \/ \E c \in Readers, q \in Runs : GetScanRun(c, q)
           \/ \E c \in Readers : GetScanCounts(c)
           \/ ApiConnBreaks
           \/ ApiConnCloses
  BY <1>7, <1>9 DEF GetScanRun, GetScanCounts, ApiConnBreaks, ApiConnCloses,
     storageVars
<1> QED BY <1>1, <1>2, <1>3, <1>4, <1>5, <1>6, <1>8, <1>9
          DEF ScanApiNext, EnqueueStep

\* scan_runs is written by the API process alone.
LEMMA OnlyApiWritesRuns ==
  ASSUME [Next]_vars, ~ScanApiNext
  PROVE  UNCHANGED <<scanRuns, enqueue, views, handed>>
<1>1. ClassifierNext => UNCHANGED scanRuns
  BY DEF ClassifierNext, ClassifierStep, ReceiveRaw, LoadRules, Upsert,
     PublishClassified, AckRaw, AbandonRaw, RestartClassifier, ClassifyFails,
     LoseClassifierConnection, CrashClassifier, storageVars
<1>2. LabelNext => UNCHANGED scanRuns
  BY DEF LabelNext, LabelerStep, ReceiveClassified, ListLabels,
     EnsureLabelCreates, Apply, MarkApplied, AckClassified,
     AbandonClassified, TransientFailure, PermanentFailure,
     LoseLabelConnection, RestartLabelWorker, CrashLabelWorker, storageVars
<1> QED BY <1>1, <1>2 DEF Next, vars, EditRules, storageVars, scanApiVars,
          classifierLeaves, labelLeaves

LEMMA HandedFinite ==
  ASSUME TypeInv, NEW r \in Runs
  PROVE  IsFiniteSet(handed[r]) /\ Cardinality(handed[r]) \in Nat
<1>1. handed[r] \in SUBSET Messages
  BY DEF TypeInv, TypeOK, ScanApiTypeOK
<1> QED BY <1>1, FS_Subset, FS_CardinalityType, StorageAssumption

LEMMA HandedCountedNext ==
  ASSUME ScanRowInv, HandedCounted, [Next]_vars
  PROVE  HandedCounted'
<1> USE DEF ScanRowInv
<1>1. CASE UNCHANGED <<handed, enqueue, scanRuns>>
  BY <1>1 DEF HandedCounted, Finished
<1>2. CASE ScanApiNext
  <2> SUFFICES ASSUME NEW r \in Runs
               PROVE  /\ Cardinality(handed'[r]) <= enqueue'[r].processed
                      /\ Finished(r)'
                           => scanRuns'[r].processed = enqueue'[r].processed
    BY DEF HandedCounted
  <2>0. /\ Cardinality(handed[r]) <= enqueue[r].processed
        /\ Finished(r) => scanRuns[r].processed = enqueue[r].processed
    BY DEF HandedCounted
  <2>1. Finished(r) => scanRuns'[r] = scanRuns[r]
    BY RowsKeptByNext DEF RowsKept
  <2>2. CASE PublishNext(r)
    <3> DEFINE g == Head(enqueue[r].todo)
    <3>1. /\ enqueue[r] \in Goroutine
          /\ IsFiniteSet(handed[r]) /\ Cardinality(handed[r]) \in Nat
      BY HandedFinite DEF TypeInv, TypeOK, ScanApiTypeOK
    <3>2. ~Finished(r) /\ UNCHANGED scanRuns
      BY <2>2 DEF PublishNext, EnqueuingWhileActive, Active, Finished,
         FinishedStatuses, storageVars
    <3>3. enqueue'[r].processed = IF apiConn # "closed"
                                    THEN enqueue[r].processed + 1
                                    ELSE enqueue[r].processed
      <4>1. enqueue'[r] = Advanced(enqueue[r], apiConn # "closed")
        BY <2>2 DEF PublishNext, TypeInv, TypeOK, ScanApiTypeOK
      <4> QED BY <3>1, <4>1 DEF Advanced, Goroutine
    <3>4. handed'[r] = IF apiConn # "closed" THEN handed[r] \cup {g}
                                             ELSE handed[r]
      BY <2>2 DEF PublishNext, TypeInv, TypeOK, ScanApiTypeOK
    <3>5. Cardinality(handed[r] \cup {g}) <= Cardinality(handed[r]) + 1
      <4> HIDE DEF g
      <4>1. \/ Cardinality(handed[r] \cup {g}) = Cardinality(handed[r])
            \/ Cardinality(handed[r] \cup {g}) = Cardinality(handed[r]) + 1
        BY <3>1, FS_AddElement
      <4> QED BY <3>1, <4>1
    <3>6. /\ enqueue[r].processed \in Nat
          /\ Cardinality(handed[r] \cup {g}) \in Nat
      BY <3>1, FS_AddElement, FS_CardinalityType DEF Goroutine
    <3>7. Cardinality(handed'[r]) <= enqueue'[r].processed
      <4> HIDE DEF g
      <4>1. CASE apiConn = "closed"
        BY <2>0, <3>3, <3>4, <4>1
      <4>2. CASE apiConn # "closed"
        BY <2>0, <3>1, <3>3, <3>4, <3>5, <3>6, <4>2
      <4> QED BY <4>1, <4>2
    <3> QED BY <3>2, <3>7 DEF Finished
  <2>3. CASE ~PublishNext(r)
    BY <1>2, <2>0, <2>1, <2>3, CountsChange
  <2> QED BY <2>2, <2>3
<1> QED BY <1>1, <1>2, OnlyApiWritesRuns

\* What a step does to the calls of getScan in progress.
LEMMA ViewStep ==
  ASSUME TypeInv, [Next]_vars
  PROVE  \/ UNCHANGED views
         \/ /\ UNCHANGED scanRuns
            /\ \E c \in Readers, r \in DOMAIN scanRuns :
                 views' = With(views, c,
                   [run |-> r, row |-> scanRuns[r], answer |-> "pending"])
         \/ /\ UNCHANGED scanRuns
            /\ \E c \in Readers : GetScanCounts(c)
         \/ views' = [c \in {} |-> {}]
<1>1. CASE ScanApiNext
  <2>1. ASSUME NEW q \in Runs, StartScan(q) \/ StartScanReplyLost(q)
        PROVE  UNCHANGED views
    BY <2>1 DEF StartScan, StartScanReplyLost, scanApiVars
  <2>2. ASSUME NEW q \in Runs, EnqueueStep(q)
        PROVE  UNCHANGED views
    BY <2>2 DEF EnqueueStep, ListPage, PublishNext, UpdateProgress, FailRun,
       CompleteRun
  <2>3. ASSUME NEW q \in Runs,
               ListPageFails(q) \/ UpdateProgressFails(q) \/ CompletionLost(q)
        PROVE  UNCHANGED views
    BY <2>3 DEF ListPageFails, UpdateProgressFails, CompletionLost
  <2>4. ASSUME NEW c \in Readers, NEW r \in Runs, GetScanRun(c, r)
        PROVE  /\ UNCHANGED scanRuns
               /\ r \in DOMAIN scanRuns
               /\ views' = With(views, c,
                    [run |-> r, row |-> scanRuns[r], answer |-> "pending"])
    BY <2>4 DEF GetScanRun, storageVars
  <2>5. ASSUME NEW c \in Readers, GetScanCounts(c)
        PROVE  UNCHANGED scanRuns
    BY <2>5 DEF GetScanCounts, storageVars
  <2>6. CASE ApiConnBreaks \/ ApiConnCloses
    BY <2>6 DEF ApiConnBreaks, ApiConnCloses
  <2>7. CASE ApiRestart
    BY <2>7 DEF ApiRestart
  <2> QED BY <1>1, <2>1, <2>2, <2>3, <2>4, <2>5, <2>6, <2>7 DEF ScanApiNext
<1>2. CASE ~ScanApiNext
  BY <1>2, OnlyApiWritesRuns
<1> QED BY <1>1, <1>2

LEMMA RunsStay ==
  ASSUME TypeInv, [Next]_vars
  PROVE  DOMAIN scanRuns \subseteq DOMAIN scanRuns'
<1>1. ASSUME NEW q \in Runs, StartScan(q) \/ StartScanReplyLost(q)
      PROVE  DOMAIN scanRuns \subseteq DOMAIN scanRuns'
  BY <1>1 DEF StartScan, StartScanReplyLost, CreateScanRun, With
<1>2. ASSUME NEW q \in Runs,
             \/ EnqueueStep(q) \/ ListPageFails(q)
             \/ UpdateProgressFails(q) \/ CompletionLost(q)
      PROVE  DOMAIN scanRuns = DOMAIN scanRuns'
  BY <1>2 DEF EnqueueStep, ListPage, PublishNext, UpdateProgress, FailRun,
     CompleteRun, ListPageFails, UpdateProgressFails, CompletionLost,
     WriteProgress, WriteCompletion, UpdateScanRunProgress, CompleteScanRun,
     storageVars
<1>3. ScanApiNext => DOMAIN scanRuns \subseteq DOMAIN scanRuns'
  BY <1>1, <1>2 DEF ScanApiNext, GetScanRun, GetScanCounts, ApiConnBreaks,
     ApiConnCloses, ApiRestart, storageVars
<1> QED BY <1>3, OnlyApiWritesRuns

LEMMA ViewsCurrentNext ==
  ASSUME ScanRowInv, ViewsCurrent, [Next]_vars
  PROVE  ViewsCurrent'
<1> USE DEF ScanRowInv
<1>1. ASSUME NEW r \in Runs, Finished(r)
      PROVE  Finished(r)' /\ scanRuns'[r] = scanRuns[r]
  BY <1>1, RowsKeptByNext, RunsStay DEF RowsKept, Finished
<1>2. \A c \in DOMAIN views : views[c].run \in Runs
  BY DEF TypeInv, TypeOK, ScanApiTypeOK, View
<1>3. CASE UNCHANGED views
  BY <1>1, <1>2, <1>3 DEF ViewsCurrent
<1>4. ASSUME UNCHANGED scanRuns, NEW c \in Readers, NEW r \in DOMAIN scanRuns,
             views' = With(views, c,
               [run |-> r, row |-> scanRuns[r], answer |-> "pending"])
      PROVE  ViewsCurrent'
  BY <1>4 DEF ViewsCurrent, With, Finished
<1>5. ASSUME UNCHANGED scanRuns, NEW c \in Readers, GetScanCounts(c)
      PROVE  ViewsCurrent'
  <2>1. /\ DOMAIN views' = DOMAIN views
        /\ \A d \in DOMAIN views :
             views'[d].row = views[d].row /\ views'[d].run = views[d].run
    BY <1>5 DEF GetScanCounts, TypeInv, TypeOK, ScanApiTypeOK, View
  <2> QED BY <1>5, <2>1 DEF ViewsCurrent, Finished
<1>6. CASE views' = [c \in {} |-> {}]
  BY <1>6 DEF ViewsCurrent
<1> QED BY <1>3, <1>4, <1>5, <1>6, ViewStep

LEMMA DisjointUnion ==
  ASSUME NEW S, IsFiniteSet(S), NEW T, IsFiniteSet(T), S \cap T = {}
  PROVE  /\ IsFiniteSet(S \cup T)
         /\ Cardinality(S \cup T) = Cardinality(S) + Cardinality(T)
<1>1. Cardinality(S) \in Nat /\ Cardinality(T) \in Nat
  BY FS_CardinalityType
<1>2. Cardinality(S \cap T) = 0
  BY FS_EmptySet
<1>3. /\ IsFiniteSet(S \cup T)
      /\ Cardinality(S \cup T) =
           Cardinality(S) + Cardinality(T) - Cardinality(S \cap T)
  BY FS_Union
<1> QED BY <1>1, <1>2, <1>3

LEMMA RowsFinite ==
  ASSUME TypeInv, NEW r \in Runs
  PROVE  Cardinality({k \in DOMAIN emailMessages : emailMessages[k].run = r})
           \in Nat
<1>1. IsFiniteSet(MessageKeys)
  BY FS_Product, StorageAssumption DEF MessageKeys
<1>2. {k \in DOMAIN emailMessages : emailMessages[k].run = r}
        \subseteq MessageKeys
  BY DEF TypeInv, TypeOK, StorageTypeOK
<1> QED BY <1>1, <1>2, FS_Subset, FS_CardinalityType

\* The three counters of a run add up to its rows.
LEMMA CountsAddUp ==
  ASSUME TypeInv, NEW r \in Runs
  PROVE  LET rows == {k \in DOMAIN emailMessages : emailMessages[k].run = r}
             counts == CountEmailMessagesByScanRun(r)
         IN  Cardinality(rows) =
               counts["dry_run"] + counts["classified"] + counts["applied"]
<1> DEFINE rows == {k \in DOMAIN emailMessages : emailMessages[k].run = r}
           of(s) == {k \in DOMAIN emailMessages :
                       emailMessages[k].run = r /\ emailMessages[k].status = s}
<1>1. IsFiniteSet(MessageKeys)
  BY FS_Product, StorageAssumption DEF MessageKeys
<1>2. \A s : of(s) \subseteq MessageKeys
  BY DEF TypeInv, TypeOK, StorageTypeOK
<1>3. \A s : IsFiniteSet(of(s)) /\ Cardinality(of(s)) \in Nat
  BY <1>1, <1>2, FS_Subset, FS_CardinalityType
<1>4. rows = (of("dry_run") \cup of("classified")) \cup of("applied")
  BY DEF TypeInv, TypeOK, StorageTypeOK, EmailMessage, EmailStatuses
<1>5. /\ of("dry_run") \cap of("classified") = {}
      /\ (of("dry_run") \cup of("classified")) \cap of("applied") = {}
  OBVIOUS
<1> DEFINE counts == CountEmailMessagesByScanRun(r)
<1>6. /\ counts["dry_run"] = Cardinality(of("dry_run"))
      /\ counts["classified"] = Cardinality(of("classified"))
      /\ counts["applied"] = Cardinality(of("applied"))
  BY DEF CountEmailMessagesByScanRun, EmailStatuses
<1> HIDE DEF rows, of, counts
<1>7. /\ IsFiniteSet(of("dry_run") \cup of("classified"))
      /\ Cardinality(of("dry_run") \cup of("classified")) =
           Cardinality(of("dry_run")) + Cardinality(of("classified"))
  BY <1>3, <1>5, DisjointUnion
<1>8. Cardinality(rows) =
        Cardinality(of("dry_run")) + Cardinality(of("classified"))
          + Cardinality(of("applied"))
  BY <1>3, <1>4, <1>5, <1>7, DisjointUnion
<1> QED BY <1>6, <1>8 DEF rows, counts

\* As many rows as messages handed over means that they are the same messages.
LEMMA EnoughRows ==
  ASSUME TypeInv, RowsOwned, NEW r \in Runs,
         LET counts == CountEmailMessagesByScanRun(r) IN
         Cardinality(handed[r]) <=
           counts["dry_run"] + counts["classified"] + counts["applied"]
  PROVE  handed[r] = RecordedFor(r)
<1> DEFINE rows == {k \in DOMAIN emailMessages : emailMessages[k].run = r}
           all  == {request[r].user} \X handed[r]
<1>1. rows \subseteq all
  <2> SUFFICES ASSUME NEW k \in rows PROVE k \in all
    OBVIOUS
  <2>1. k \in MessageKeys
    BY DEF TypeInv, TypeOK, StorageTypeOK
  <2>2. k[1] = request[r].user /\ k[2] \in handed[r]
    BY DEF RowsOwned
  <2> QED BY <2>1, <2>2 DEF MessageKeys
<1>2. /\ IsFiniteSet(all)
      /\ Cardinality(all) = Cardinality(handed[r])
      /\ Cardinality(handed[r]) \in Nat
  <2>1. IsFiniteSet(handed[r]) /\ Cardinality(handed[r]) \in Nat
    BY HandedFinite
  <2>2. /\ IsFiniteSet({request[r].user})
        /\ Cardinality({request[r].user}) = 1
    BY FS_Singleton
  <2>3. /\ IsFiniteSet(all)
        /\ Cardinality(all) =
             Cardinality({request[r].user}) * Cardinality(handed[r])
    BY <2>1, <2>2, FS_Product
  <2> QED BY <2>1, <2>2, <2>3
<1>3. Cardinality(handed[r]) <= Cardinality(rows)
  BY CountsAddUp
<1>4. /\ IsFiniteSet(rows) /\ Cardinality(rows) \in Nat
      /\ Cardinality(rows) <= Cardinality(all)
      /\ Cardinality(all) = Cardinality(rows) => all = rows
  BY <1>1, <1>2, FS_Subset, FS_CardinalityType
<1>5. all = rows
  <2> HIDE DEF all, rows
  <2> QED BY <1>2, <1>3, <1>4
<1>6. RecordedFor(r) = {k[2] : k \in all}
  BY <1>5 DEF RecordedFor
<1>7. \A g \in handed[r] : <<request[r].user, g>> \in all
  OBVIOUS
<1>8. \A g \in handed[r] : g \in {k[2] : k \in all}
  <2> TAKE g \in handed[r]
  <2>1. <<request[r].user, g>>[2] = g
    OBVIOUS
  <2> QED BY <1>7, <2>1
<1>9. \A k \in all : k[2] \in handed[r]
  OBVIOUS
<1> QED BY <1>6, <1>8, <1>9

\* The step of getScan that answers "complete" about a finished run.
LEMMA AnswerStep ==
  ASSUME AnswerInv, [Next]_vars, NEW c \in Readers,
         c \in DOMAIN views, c \in DOMAIN views',
         views[c].answer = "pending", views'[c].answer = "complete",
         views[c].row.status \in FinishedStatuses
  PROVE  handed[views[c].run] = RecordedFor(views[c].run)
<1> USE DEF AnswerInv, ScanRowInv
<1> DEFINE r == views[c].run
           row == views[c].row
           counts == CountEmailMessagesByScanRun(r)
           total == counts["dry_run"] + counts["classified"] + counts["applied"]
<1>1. r \in Runs /\ row \in ScanRun
  BY DEF TypeInv, TypeOK, ScanApiTypeOK, View
<1>2. views'[c].answer = ProcessingStatus(row, counts)
  <2>1. views' # views
    OBVIOUS
  <2>2. ASSUME NEW d \in Readers, NEW q \in DOMAIN scanRuns,
               views' = With(views, d,
                 [run |-> q, row |-> scanRuns[q], answer |-> "pending"])
        PROVE  FALSE
    BY <2>2 DEF With
  <2>3. PICK d \in Readers : GetScanCounts(d)
    BY <2>1, <2>2, ViewStep
  <2>4. d = c
    BY <2>3 DEF GetScanCounts
  <2>5. views[c] \in View
    BY DEF TypeInv, TypeOK, ScanApiTypeOK
  <2> QED BY <2>3, <2>4, <2>5 DEF GetScanCounts, View
<1>3. row.processed <= total
  BY <1>1, <1>2 DEF ProcessingStatus, ScanRun
<1>4. Finished(r) /\ scanRuns[r] = row
  BY DEF ViewsCurrent
<1>5. Cardinality(handed[r]) <= row.processed
  BY <1>1, <1>4 DEF HandedCounted
<1>6. /\ Cardinality(handed[r]) \in Nat
      /\ row.processed \in Nat
      /\ total \in Nat
  <2>1. Cardinality(handed[r]) \in Nat /\ row.processed \in Nat
    BY <1>1, HandedFinite DEF ScanRun
  <2>2. total \in Nat
    BY <1>1, CountsAddUp, RowsFinite
  <2> QED BY <2>1, <2>2
<1>7. Cardinality(handed[r]) <= total
  <2> HIDE DEF r, row, total
  <2> QED BY <1>3, <1>5, <1>6
<1> QED BY <1>1, <1>7, EnoughRows

LEMMA AnswerInvInit == Init => AnswerInv
<1> SUFFICES ASSUME Init PROVE AnswerInv
  OBVIOUS
<1>1. LedgerInv /\ ScanRowInv
  BY LedgerInvInit, ScanRowInvInit
<1>2. RowsOwned /\ ViewsCurrent
  BY DEF Init, StorageInit, ScanApiInit, RowsOwned, ViewsCurrent
<1>3. HandedCounted
  BY FS_EmptySet DEF Init, StorageInit, ScanApiInit, HandedCounted, Finished
<1> QED BY <1>1, <1>2, <1>3 DEF AnswerInv

LEMMA AnswerInvNext == AnswerInv /\ [Next]_vars => AnswerInv'
BY LedgerInvNext, ScanRowInvNext, RowsOwnedNext, HandedCountedNext,
   ViewsCurrentNext DEF AnswerInv

\* Whatever two snapshots a getScan call combines, "complete" about a
\* finished run is true, for any number of scans, clients, pages and failures.
THEOREM CompleteAnswersAlwaysTrue == Spec => CompleteAnswersAreTrue
<1> DEFINE TrueAnswers ==
      \A c \in Readers :
        /\ c \in DOMAIN views /\ c \in DOMAIN views'
        /\ views[c].answer = "pending" /\ views'[c].answer = "complete"
        /\ views[c].row.status \in FinishedStatuses
        => handed[views[c].run] = RecordedFor(views[c].run)
<1>1. AnswerInv /\ [Next]_vars => [TrueAnswers]_vars
  BY AnswerStep
<1> QED BY <1>1, AnswerInvInit, AnswerInvNext, PTL
         DEF Spec, CompleteAnswersAreTrue

-----------------------------------------------------------------------------
(* What ends an answer "complete" *)

\* The rows that count for run r, and what its three counters add up to.
RowsOf(r) == {k \in DOMAIN emailMessages : emailMessages[k].run = r}

Recorded(r) ==
  LET counts == CountEmailMessagesByScanRun(r)
  IN  counts["dry_run"] + counts["classified"] + counts["applied"]

CountsAreRows ==
  \A r \in Runs :
    /\ IsFiniteSet(RowsOf(r)) /\ Cardinality(RowsOf(r)) \in Nat
    /\ Cardinality(RowsOf(r)) = Recorded(r)

LEMMA CountsAlwaysRows == TypeInv => CountsAreRows
<1> SUFFICES ASSUME TypeInv, NEW r \in Runs
             PROVE  /\ IsFiniteSet(RowsOf(r)) /\ Cardinality(RowsOf(r)) \in Nat
                    /\ Cardinality(RowsOf(r)) = Recorded(r)
  BY DEF CountsAreRows
<1>1. IsFiniteSet(MessageKeys)
  BY FS_Product, StorageAssumption DEF MessageKeys
<1>2. RowsOf(r) \subseteq MessageKeys
  BY DEF TypeInv, TypeOK, StorageTypeOK, RowsOf
<1>3. IsFiniteSet(RowsOf(r)) /\ Cardinality(RowsOf(r)) \in Nat
  BY <1>1, <1>2, FS_Subset, FS_CardinalityType
<1>4. Cardinality(RowsOf(r)) = Recorded(r)
  BY CountsAddUp DEF RowsOf, Recorded
<1> QED BY <1>3, <1>4

LEMMA CountsAreRowsNext == TypeInv' => CountsAreRows'
BY CountsAlwaysRows, PTL

\* A row leaves its run only for another run of the same user that has handed
\* over its message.
LEMMA RowLeaves ==
  ASSUME LedgerInv, RowsOwned, [Next]_vars,
         NEW r \in Runs, NEW k \in RowsOf(r), k \notin RowsOf(r)'
  PROVE  Rescanned(r)
<1> USE DEF LedgerInv, AppliedInv, RowInv
<1>0. k \in DOMAIN emailMessages /\ emailMessages[k].run = r
  BY DEF RowsOf
<1>1. ~UNCHANGED emailMessages
  BY DEF RowsOf
<1>2. ASSUME NEW t \in Labelers, Marks(t) PROVE FALSE
  <2>1. /\ DOMAIN emailMessages' = DOMAIN emailMessages
        /\ emailMessages'[k].run = emailMessages[k].run
    BY <1>0, <1>2 DEF Marks, MarkEmailLabelApplied, TypeInv, TypeOK,
       StorageTypeOK, EmailMessage
  <2> QED BY <1>0, <2>1 DEF RowsOf
<1>3. PICK w \in Classifiers : Records(w)
  BY <1>1, <1>2, LedgerSteps DEF Offers, Modifies
<1>4. PICK e \in RawEvent : e = classifying[w].event
  BY <1>3 DEF Records, At, TypeInv, TypeOK, ClassifierTypeOK, Handling
<1>5. e.run \in Runs /\ e.msg \in handed[e.run]
  BY <1>3, <1>4 DEF Records, At, OnBehalf, ClassifyingOnBehalf, RawEvent
<1>6. PICK row : row.run = e.run
                 /\ emailMessages' = With(emailMessages, KeyOf(e), row)
  BY <1>3, <1>4 DEF Records, RecordClassification, UpsertEmailMessage
<1>7. k = KeyOf(e) /\ emailMessages'[k].run = e.run /\ e.run # r
  BY <1>0, <1>6 DEF With, RowsOf
<1>8. k[1] = request[e.run].user /\ k[2] = e.msg
  BY <1>7 DEF KeyOf
<1>9. k[1] = request[r].user
  BY <1>0 DEF RowsOwned
<1> QED BY <1>0, <1>5, <1>7, <1>8, <1>9 DEF Rescanned

LEMMA CompleteEnds ==
  ASSUME AnswerInv, [Next]_vars, TypeInv', NEW r \in Runs,
         Complete(r), ~Complete(r)'
  PROVE  Rescanned(r)
<1> USE DEF AnswerInv, ScanRowInv
<1>1. Finished(r)' /\ scanRuns'[r] = scanRuns[r]
  BY RowsKeptByNext, RunsStay DEF RowsKept, Finished, Complete
<1>2. /\ scanRuns[r].processed \in Nat \ {0}
      /\ Recorded(r) >= scanRuns[r].processed
  <2>1. scanRuns[r] \in ScanRun
    BY DEF Complete, Finished, TypeInv, TypeOK, StorageTypeOK
  <2> QED BY <2>1 DEF Complete, ProcessingStatus, Recorded, ScanRun
<1>3. ~(Recorded(r)' >= scanRuns[r].processed)
  BY <1>1, <1>2 DEF Complete, ProcessingStatus, Recorded
<1>4. /\ CountsAreRows
      /\ CountsAreRows'
  BY CountsAlwaysRows, CountsAreRowsNext
<1>5. ~(RowsOf(r) \subseteq RowsOf(r)')
  <2> SUFFICES ASSUME RowsOf(r) \subseteq RowsOf(r)' PROVE FALSE
    OBVIOUS
  <2>1. /\ IsFiniteSet(RowsOf(r)') /\ Cardinality(RowsOf(r)') \in Nat
        /\ Cardinality(RowsOf(r)') = Recorded(r)'
        /\ Cardinality(RowsOf(r)) = Recorded(r)
        /\ Cardinality(RowsOf(r)) \in Nat
    BY <1>4 DEF CountsAreRows
  <2>2. Cardinality(RowsOf(r)) <= Cardinality(RowsOf(r)')
    BY <2>1, FS_Subset
  <2> QED BY <1>2, <1>3, <2>1, <2>2
<1> QED BY <1>5, RowLeaves

\* No redelivery, relabelling, late progress update or failure takes a finished
\* run back from "complete": only a rescan of one of its messages does.
THEOREM OnlyRescansEndComplete == Spec => CompleteEndsByRescan
<1> DEFINE Ends == \A r \in Runs : Complete(r) /\ ~Complete(r)' => Rescanned(r)
<1>1. AnswerInv => TypeInv
  BY DEF AnswerInv, ScanRowInv
<1>2. AnswerInv /\ [Next]_vars /\ TypeInv' => [Ends]_vars
  BY CompleteEnds
<1> QED BY <1>1, <1>2, AnswerInvInit, AnswerInvNext, PTL
         DEF Spec, CompleteEndsByRescan

-----------------------------------------------------------------------------
(* What abandons a scan *)

\* The finished rows stay, and a goroutine that returns has written its row.
LEMMA NotAbandonedNext ==
  ASSUME ScanRowInv, AbandonedOnlyByFailure, [Next]_vars
  PROVE  AbandonedOnlyByFailure'
<1> USE DEF ScanRowInv
<1> SUFFICES ASSUME faults' = 0, NEW r \in DOMAIN scanRuns'
             PROVE  Active(r)' \/ Finished(r)'
  BY DEF AbandonedOnlyByFailure
<1>0. faults = 0 /\ ~Fault
  BY FailureFree
<1>1. r \in DOMAIN scanRuns => Active(r) \/ Finished(r)
  BY <1>0 DEF AbandonedOnlyByFailure
<1>2. r \in DOMAIN scanRuns /\ Finished(r) => Finished(r)'
  BY RowsKeptByNext, RunsStay DEF RowsKept, Finished, TypeInv, TypeOK,
     StorageTypeOK
<1>3. enqueue \in [Runs -> Goroutine] /\ DOMAIN scanRuns \subseteq Runs
  BY DEF TypeInv, TypeOK, ScanApiTypeOK, StorageTypeOK
<1> DEFINE Kept == r \in DOMAIN scanRuns /\ (Active(r) => Active(r)')
<1>4. ASSUME Kept PROVE Active(r)' \/ Finished(r)'
  BY <1>1, <1>2, <1>4
<1>5. ASSUME NEW q \in Runs, StartScan(q) PROVE Active(r)' \/ Finished(r)'
  <2>1. /\ enqueue' = [enqueue EXCEPT ![q].pc = "list"]
        /\ DOMAIN scanRuns' = DOMAIN scanRuns \cup {q}
    BY <1>5 DEF StartScan, CreateScanRun, With
  <2>2. CASE r = q
    BY <1>3, <2>1, <2>2 DEF Active, Goroutine
  <2>3. CASE r # q
    BY <1>3, <1>4, <2>1, <2>3 DEF Active
  <2> QED BY <2>2, <2>3
<1>6. ASSUME NEW q \in Runs,
             enqueue'[q].pc \notin {"none", "done", "killed"}, \A p \in Runs \ {q} : enqueue'[p] = enqueue[p],
             DOMAIN scanRuns' = DOMAIN scanRuns
      PROVE  Kept
  BY <1>3, <1>6 DEF Active
<1>7. ASSUME NEW q \in Runs, ListPage(q) \/ PublishNext(q) \/ UpdateProgress(q)
      PROVE  Kept
  <2>1. enqueue[q] \in Goroutine
    BY <1>3
  <2>2. DOMAIN scanRuns' = DOMAIN scanRuns
    BY <1>7 DEF ListPage, PublishNext, UpdateProgress, WriteProgress,
       UpdateScanRunProgress, storageVars
  <2>3. \A p \in Runs \ {q} : enqueue'[p] = enqueue[p]
    BY <1>3, <1>7 DEF ListPage, PublishNext, UpdateProgress
  <2>4. CASE ListPage(q)
    <3>1. PICK page, more : enqueue'[q] = WithPage(enqueue[q], page, more)
      BY <1>3, <2>4 DEF ListPage
    <3>2. enqueue'[q].pc \in {"list", "complete", "publish"}
      BY <2>1, <3>1 DEF WithPage, AfterPage, Goroutine
    <3> QED BY <1>6, <2>2, <2>3, <3>2
  <2>5. CASE PublishNext(q)
    <3>1. enqueue'[q] = Advanced(enqueue[q], apiConn # "closed")
      BY <1>3, <2>5 DEF PublishNext
    <3>2. enqueue'[q].pc \in {"progress", "publish"}
      BY <2>1, <3>1 DEF Advanced, Goroutine
    <3> QED BY <1>6, <2>2, <2>3, <3>2
  <2>6. CASE UpdateProgress(q)
    <3>1. enqueue'[q].pc \in {"list", "complete"}
      BY <1>3, <2>1, <2>6 DEF UpdateProgress, AfterPage, Goroutine
    <3> QED BY <1>6, <2>2, <2>3, <3>1
  <2> QED BY <1>7, <2>4, <2>5, <2>6
<1>8. ASSUME NEW q \in Runs, FailRun(q) \/ CompleteRun(q)
      PROVE  Active(r)' \/ Finished(r)'
  <2>1. PICK status \in FinishedStatuses : WriteCompletion(q, status)
    <3>1. /\ QueuedStatus(enqueue[q].failed) \in FinishedStatuses
          /\ "failed" \in FinishedStatuses
      BY DEF QueuedStatus, FinishedStatuses
    <3> QED BY <1>8, <3>1 DEF FailRun, CompleteRun
  <2>2. /\ DOMAIN scanRuns' = DOMAIN scanRuns
        /\ r = q => scanRuns'[r].status = status
    <3>1. scanRuns \in [DOMAIN scanRuns -> ScanRun]
      BY DEF TypeInv, TypeOK, StorageTypeOK
    <3> QED BY <2>1, <3>1 DEF WriteCompletion, CompleteScanRun, ScanRun
  <2>3. CASE r = q
    BY <2>2, <2>3 DEF Finished
  <2>4. CASE r # q
    <3>1. enqueue'[r] = enqueue[r]
      BY <1>3, <1>8, <2>2, <2>4 DEF FailRun, CompleteRun, GoroutineReturns
    <3> QED BY <1>4, <2>2, <3>1 DEF Active
  <2> QED BY <2>3, <2>4
<1>9. ASSUME NEW q \in Runs, \/ StartScanReplyLost(q) \/ ListPageFails(q)
                             \/ UpdateProgressFails(q) \/ CompletionLost(q)
      PROVE  FALSE
  BY <1>0, <1>9 DEF StartScanReplyLost, ListPageFails, UpdateProgressFails,
     CompletionLost
<1>10. ~ApiRestart
  BY <1>0 DEF ApiRestart
<1>11. CASE UNCHANGED <<scanRuns, enqueue>>
  BY <1>4, <1>11 DEF Active
<1>12. CASE \/ \E c \in Readers, q \in Runs : GetScanRun(c, q)
            \/ \E c \in Readers : GetScanCounts(c)
            \/ ApiConnBreaks
            \/ ApiConnCloses
  BY <1>11, <1>12 DEF GetScanRun, GetScanCounts, ApiConnBreaks, ApiConnCloses,
     storageVars
<1>13. CASE ScanApiNext
  BY <1>4, <1>5, <1>7, <1>8, <1>9, <1>10, <1>12, <1>13 DEF ScanApiNext,
     EnqueueStep
<1> QED BY <1>11, <1>13, OnlyApiWritesRuns

\* Without failures no scan stays "enqueuing" once its goroutine is gone, for
\* any pages, scans and readers.
THEOREM OnlyFailuresAbandon == Spec => []AbandonedOnlyByFailure
<1>1. Init => AbandonedOnlyByFailure
  BY DEF Init, StorageInit, AbandonedOnlyByFailure
<1>2. ScanRowInv /\ AbandonedOnlyByFailure /\ [Next]_vars
        => AbandonedOnlyByFailure'
  BY NotAbandonedNext
<1> QED BY <1>1, <1>2, ScanRowInvInit, ScanRowInvNext, PTL DEF Spec

=============================================================================
