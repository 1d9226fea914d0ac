----------------------------- MODULE DeliveryProofs --------------------------
(***************************************************************************)
(* At-least-once delivery: while there is one classifier worker process, a  *)
(* message that was recorded as classified is never forgotten, over every   *)
(* crash, Nack and lost connection of either worker.                        *)
(*                                                                          *)
(* The argument follows the message's event.  As long as it is queued or in *)
(* connected hands, every step leaves it there, publishes its successor, or *)
(* settles the row.  What has to be added is RequeuedWhileCutOff: a worker  *)
(* that lost its connection may still write the row, and then the event     *)
(* that accounts for it is the requeued copy.  With a second worker that    *)
(* copy could be gone by then, hence OneClassifier.                         *)
(*                                                                          *)
(* Then what is lost without failures, and how much; the refinement: every  *)
(* step of the pipeline is one of MessageLedger or leaves the ledger alone; *)
(* and what is true of an event at the step in which it is given up.        *)
(***************************************************************************)
EXTENDS LabelProofs

OneClassifier == \A v, w \in Classifiers : v = w

RequeuedWhileCutOff ==
  \A w \in DOMAIN classifying :
    ~classifierConn[w] => rawQueue[classifying[w].event] > 0

DeliveryInv == TypeInv /\ OnBehalf /\ RequeuedWhileCutOff /\ NoSilentLoss

-----------------------------------------------------------------------------
(* Raw events *)

\* A waiting copy keeps waiting, or a connected worker takes it.
LEMMA QueuedRawStep ==
  ASSUME TypeInv, [Next]_vars, NEW e \in RawEvent, rawQueue[e] > 0
  PROVE  \/ rawQueue'[e] > 0
         \/ \E w \in Classifiers :
              /\ w \notin DOMAIN classifying
              /\ w \in DOMAIN classifying'
              /\ classifying'[w].event = e
              /\ classifying'[w].pc = "load"
              /\ classifierConn'[w]
<1> DEFINE Claim == \/ rawQueue'[e] > 0
                    \/ \E w \in Classifiers :
                         /\ w \notin DOMAIN classifying
                         /\ w \in DOMAIN classifying'
                         /\ classifying'[w].event = e
                         /\ classifying'[w].pc = "load"
                         /\ classifierConn'[w]
<1> USE DEF TypeInv, TypeOK, BrokerTypeOK
<1>1. CASE UNCHANGED rawQueue
  BY <1>1
<1>2. ASSUME NEW f, PublishRawEmail(f)
      PROVE  Claim
  BY <1>2 DEF PublishRawEmail
<1>3. ASSUME NEW w \in Classifiers, NEW f \in RawEvent, ReceiveRaw(w, f)
      PROVE  Claim
  BY <1>3 DEF ReceiveRaw, DeliverRaw, StaleRaw, With
<1>4. ScanApiNext => (\E f : PublishRawEmail(f)) \/ UNCHANGED rawQueue
  BY DEF ScanApiNext, EnqueueStep, StartScan, StartScanReplyLost, ListPage,
     PublishNext, UpdateProgress, FailRun, CompleteRun, ListPageFails,
     UpdateProgressFails, CompletionLost, GetScanRun, GetScanCounts,
     ApiConnBreaks, ApiConnCloses, ApiRestart, brokerVars, queueVars
<1>5. ClassifierNext => \/ UNCHANGED rawQueue
                        \/ \E f : PublishRawEmail(f)
                        \/ \E w \in Classifiers, f \in RawEvent :
                             ReceiveRaw(w, f)
  BY DEF ClassifierNext, ClassifierStep, LoadRules, Upsert,
     PublishClassified, AckRaw, AbandonRaw, RestartClassifier, ClassifyFails,
     LoseClassifierConnection, CrashClassifier, RequeueRaw, brokerVars,
     queueVars
<1>6. LabelNext => UNCHANGED rawQueue
  BY DEF LabelNext, LabelerStep, ReceiveClassified, ListLabels,
     EnsureLabelCreates, Apply, MarkApplied, AckClassified, AbandonClassified,
     TransientFailure, PermanentFailure, LoseLabelConnection,
     RestartLabelWorker, CrashLabelWorker, brokerVars, queueVars
<1> QED BY <1>1, <1>2, <1>3, <1>4, <1>5, <1>6
          DEF Next, vars, brokerVars, queueVars

\* A connected worker that is not done with an event keeps it, gives it back
\* or does its last call: it publishes the result or, for a dry run, records
\* it.
LEMMA HeldRawStep ==
  ASSUME TypeInv, [Next]_vars,
         NEW w \in DOMAIN classifying, classifierConn[w],
         NEW e \in RawEvent, classifying[w].event = e,
         classifying[w].pc # "ack"
  PROVE  \/ /\ w \in DOMAIN classifying'
            /\ classifying'[w].event = e
            /\ classifying'[w].pc # "ack"
            /\ classifierConn'[w]
         \/ rawQueue'[e] > 0
         \/ /\ classifying[w].pc = "publish"
            /\ \E f \in ClassifiedEvent :
                 f.run = e.run /\ f.msg = e.msg /\ classifiedQueue'[f] > 0
         \/ request[e.run].mode # "apply" /\ KeyOf(e) \in DOMAIN emailMessages'
<1> DEFINE Claim == \/ /\ w \in DOMAIN classifying'
                       /\ classifying'[w].event = e
                       /\ classifying'[w].pc # "ack"
                       /\ classifierConn'[w]
                    \/ rawQueue'[e] > 0
                    \/ /\ classifying[w].pc = "publish"
                       /\ \E f \in ClassifiedEvent :
                            f.run = e.run /\ f.msg = e.msg
                              /\ classifiedQueue'[f] > 0
                    \/ /\ request[e.run].mode # "apply"
                       /\ KeyOf(e) \in DOMAIN emailMessages'
<1> USE DEF TypeInv, TypeOK, BrokerTypeOK, ClassifierTypeOK
<1>0. w \in Classifiers /\ classifying[w] \in Handling
  OBVIOUS
<1>1. CASE UNCHANGED <<classifying, classifierConn>>
  BY <1>1
<1>2. ASSUME RequeueRaw(w)
      PROVE  Claim
  BY <1>2 DEF RequeueRaw, PublishRawEmail
<1>3. CASE ReceiveRaw(w, e) \/ AbandonRaw(w) \/ RestartClassifier(w)
             \/ AckRaw(w)
  BY <1>3 DEF ReceiveRaw, AbandonRaw, RestartClassifier, AckRaw, At
<1>4. CASE LoadRules(w)
  BY <1>0, <1>4 DEF LoadRules, At, Handling
<1>5. CASE Upsert(w)
  <2>1. KeyOf(e) \in DOMAIN emailMessages'
    BY <1>5 DEF Upsert, RecordClassification, UpsertEmailMessage, With
  <2> QED BY <1>0, <1>5, <2>1 DEF Upsert, At, Handling
<1>6. CASE PublishClassified(w)
  <2> DEFINE f == [run |-> e.run, msg |-> e.msg, label |-> classifying[w].label]
  <2>1. f \in ClassifiedEvent
    BY <1>0, <1>6 DEF PublishClassified, At, Handling, RawEvent, ClassifiedEvent
  <2>2. classifiedQueue' = [classifiedQueue EXCEPT ![f] = @ + 1]
    BY <1>6 DEF PublishClassified, PublishClassifiedEmail
  <2>3. f.run = e.run /\ f.msg = e.msg
    OBVIOUS
  <2>4. classifying[w].pc = "publish"
    BY <1>6 DEF PublishClassified, At
  <2> HIDE DEF f
  <2> QED BY <2>1, <2>2, <2>3, <2>4
<1>7. CASE ClassifyFails(w) \/ LoseClassifierConnection(w) \/ CrashClassifier(w)
  BY <1>2, <1>7 DEF ClassifyFails, LoseClassifierConnection, CrashClassifier
<1>8. ASSUME NEW v \in Classifiers, v # w,
             \/ ClassifierStep(v) \/ ClassifyFails(v)
             \/ LoseClassifierConnection(v) \/ CrashClassifier(v)
      PROVE  Claim
  <2>1. ClassifierStep(v) =>
          /\ w \in DOMAIN classifying' /\ classifying'[w] = classifying[w]
          /\ classifierConn'[w] = classifierConn[w]
    BY <1>0, <1>8 DEF ClassifierStep, ReceiveRaw, LoadRules, Upsert,
       PublishClassified, AckRaw, AbandonRaw, RestartClassifier, EndHandling,
       With, Without, classifierVars
  <2>2. ASSUME \/ ClassifyFails(v) \/ LoseClassifierConnection(v)
               \/ CrashClassifier(v)
        PROVE  /\ w \in DOMAIN classifying' /\ classifying'[w] = classifying[w]
               /\ classifierConn'[w] = classifierConn[w]
    BY <1>0, <1>8, <2>2 DEF ClassifyFails, LoseClassifierConnection,
       CrashClassifier, EndHandling, Without
  <2> QED BY <1>8, <2>1, <2>2
<1>9. CASE ClassifierNext
  <2>1. PICK v \in Classifiers :
          \/ ClassifierStep(v) \/ ClassifyFails(v)
          \/ LoseClassifierConnection(v) \/ CrashClassifier(v)
    BY <1>9 DEF ClassifierNext
  <2>2. ASSUME NEW f \in RawEvent
        PROVE  ~ReceiveRaw(w, f)
    BY DEF ReceiveRaw
  <2>3. CASE v = w
    <3>1. CASE ClassifierStep(w)
      BY <1>3, <1>4, <1>5, <1>6, <2>2, <3>1 DEF ClassifierStep
    <3> QED BY <1>7, <2>1, <2>3, <3>1
  <2>4. CASE v # w
    BY <1>8, <2>1, <2>4
  <2> QED BY <2>3, <2>4
<1> QED BY <1>1, <1>9 DEF Next, vars, apiLeaves, labelLeaves, classifierVars

\* So the event of an apply run is accounted for by the raw queue, by a
\* connected worker, or by its successor.
LEMMA PendingRawStep ==
  ASSUME TypeInv, [Next]_vars, NEW k, PendingRaw(k)
  PROVE  PendingRaw(k)' \/ PendingClassified(k)'
<1>1. PICK e \in RawEvent :
        /\ KeyOf(e) = k
        /\ request[e.run].mode = "apply"
        /\ \/ rawQueue[e] > 0
           \/ \E w \in DOMAIN classifying :
                /\ classifying[w].event = e
                /\ classifying[w].pc # "ack"
                /\ classifierConn[w]
  BY DEF PendingRaw, RawOpen
<1>2. request' = request
  BY NothingIsTakenBack
<1>3. CASE rawQueue[e] > 0
  BY <1>1, <1>2, <1>3, QueuedRawStep DEF PendingRaw, RawOpen, KeyOf
<1>4. ASSUME NEW w \in DOMAIN classifying, classifying[w].event = e,
             classifying[w].pc # "ack", classifierConn[w]
      PROVE  PendingRaw(k)' \/ PendingClassified(k)'
  <2>1. CASE /\ w \in DOMAIN classifying'
             /\ classifying'[w].event = e
             /\ classifying'[w].pc # "ack"
             /\ classifierConn'[w]
    BY <1>1, <1>2, <2>1 DEF PendingRaw, RawOpen, KeyOf
  <2>2. CASE rawQueue'[e] > 0
    BY <1>1, <1>2, <2>2 DEF PendingRaw, RawOpen, KeyOf
  <2>3. ASSUME NEW f \in ClassifiedEvent, f.run = e.run, f.msg = e.msg,
               classifiedQueue'[f] > 0
        PROVE  PendingClassified(k)'
    BY <1>1, <1>2, <2>3 DEF PendingClassified, ClassifiedOpen, KeyOf
  <2> QED BY <1>1, <1>4, <2>1, <2>2, <2>3, HeldRawStep
<1> QED BY <1>1, <1>3, <1>4

\* A worker that is cut off in the middle of a delivery was so before, has
\* just seen its delivery requeued, or has just started on a stale one.
LEMMA CutOffStep ==
  ASSUME TypeInv, [Next]_vars, NEW w \in DOMAIN classifying',
         ~classifierConn'[w]
  PROVE  \/ /\ w \in DOMAIN classifying
            /\ classifying'[w].event = classifying[w].event
            /\ ~classifierConn[w] \/ RequeueRaw(w)
         \/ StaleRaw(classifying'[w].event)
<1> DEFINE Claim == \/ /\ w \in DOMAIN classifying
                       /\ classifying'[w].event = classifying[w].event
                       /\ ~classifierConn[w] \/ RequeueRaw(w)
                    \/ StaleRaw(classifying'[w].event)
<1> USE DEF TypeInv, TypeOK, ClassifierTypeOK
<1>1. CASE UNCHANGED <<classifying, classifierConn>>
  BY <1>1
<1>2. ASSUME NEW v \in Classifiers, ClassifierStep(v)
      PROVE  Claim
  <2>1. CASE RestartClassifier(v)
    BY <2>1 DEF RestartClassifier
  <2>2. ASSUME NEW e \in RawEvent, ReceiveRaw(v, e)
        PROVE  Claim
    BY <2>2 DEF ReceiveRaw, With
  <2>3. CASE LoadRules(v) \/ Upsert(v) \/ PublishClassified(v)
    <3>1. v \in DOMAIN classifying /\ classifying[v] \in Handling
      BY <2>3 DEF LoadRules, Upsert, PublishClassified, At
    <3>2. /\ DOMAIN classifying' = DOMAIN classifying
          /\ \A x \in DOMAIN classifying :
               classifying'[x].event = classifying[x].event
      <4>1. ASSUME NEW h, h.event = classifying[v].event,
                   classifying' = [classifying EXCEPT ![v] = h]
            PROVE  /\ DOMAIN classifying' = DOMAIN classifying
                   /\ \A x \in DOMAIN classifying :
                        classifying'[x].event = classifying[x].event
        BY <4>1
      <4>2. ASSUME NEW pc
            PROVE  [classifying[v] EXCEPT !.pc = pc].event
                     = classifying[v].event
        BY <3>1 DEF Handling
      <4>3. CASE LoadRules(v)
        BY <3>1, <4>1, <4>3 DEF LoadRules, Handling
      <4>4. CASE Upsert(v) \/ PublishClassified(v)
        <5>1. PICK pc : classifying' =
                          [classifying EXCEPT ![v] =
                             [classifying[v] EXCEPT !.pc = pc]]
          BY <4>4 DEF Upsert, PublishClassified
        <5> DEFINE h == [classifying[v] EXCEPT !.pc = pc]
        <5>2. h.event = classifying[v].event
          BY <4>2
        <5>3. classifying' = [classifying EXCEPT ![v] = h]
          BY <5>1
        <5> HIDE DEF h
        <5> QED BY <4>1, <5>2, <5>3
      <4> QED BY <2>3, <4>3, <4>4
    <3> QED BY <2>3, <3>2 DEF LoadRules, Upsert, PublishClassified
  <2>4. CASE AckRaw(v) \/ AbandonRaw(v)
    BY <2>4 DEF AckRaw, AbandonRaw, EndHandling, Without
  <2> QED BY <1>2, <2>1, <2>2, <2>3, <2>4 DEF ClassifierStep
<1>3. ASSUME NEW v \in Classifiers, ClassifyFails(v) \/ CrashClassifier(v)
      PROVE  Claim
  BY <1>3 DEF ClassifyFails, CrashClassifier, EndHandling, Without
<1>4. ASSUME NEW v \in Classifiers, LoseClassifierConnection(v)
      PROVE  Claim
  BY <1>4 DEF LoseClassifierConnection
<1>5. CASE ClassifierNext
  BY <1>2, <1>3, <1>4, <1>5 DEF ClassifierNext
<1> QED BY <1>1, <1>5 DEF Next, vars, apiLeaves, labelLeaves, classifierVars

LEMMA RequeuedWhileCutOffNext ==
  ASSUME OneClassifier, TypeInv, RequeuedWhileCutOff, [Next]_vars
  PROVE  RequeuedWhileCutOff'
<1> SUFFICES ASSUME NEW w \in DOMAIN classifying', ~classifierConn'[w]
             PROVE  rawQueue'[classifying'[w].event] > 0
  BY DEF RequeuedWhileCutOff
<1>0. CASE StaleRaw(classifying'[w].event)
  BY <1>0 DEF StaleRaw
<1> SUFFICES ASSUME ~StaleRaw(classifying'[w].event)
             PROVE  rawQueue'[classifying'[w].event] > 0
  BY <1>0
<1>1. /\ w \in DOMAIN classifying
      /\ classifying'[w].event = classifying[w].event
      /\ ~classifierConn[w] \/ RequeueRaw(w)
  BY CutOffStep
<1>2. PICK e \in RawEvent : e = classifying[w].event
  BY <1>1 DEF TypeInv, TypeOK, ClassifierTypeOK, Handling
<1>3. CASE classifierConn[w]
  BY <1>1, <1>2, <1>3
     DEF RequeueRaw, PublishRawEmail, TypeInv, TypeOK, BrokerTypeOK
<1>4. CASE ~classifierConn[w]
  <2>1. rawQueue[e] > 0
    BY <1>1, <1>2, <1>4 DEF RequeuedWhileCutOff
  <2>2. \A v \in Classifiers : v \in DOMAIN classifying
    BY <1>1 DEF OneClassifier, TypeInv, TypeOK, ClassifierTypeOK
  <2> QED BY <1>1, <1>2, <2>1, <2>2, QueuedRawStep
<1> QED BY <1>3, <1>4

-----------------------------------------------------------------------------
(* Classified events *)

\* A waiting copy for an apply run keeps waiting, or a connected goroutine
\* takes it.
LEMMA QueuedClassifiedStep ==
  ASSUME TypeInv, [Next]_vars, NEW e \in ClassifiedEvent,
         classifiedQueue[e] > 0, request[e.run].mode = "apply"
  PROVE  \/ classifiedQueue'[e] > 0
         \/ \E t \in DOMAIN labelling' :
              /\ labelling'[t].event = e
              /\ labelling'[t].pc # "ack"
              /\ labelConn'
<1> DEFINE Claim == \/ classifiedQueue'[e] > 0
                    \/ \E t \in DOMAIN labelling' :
                         /\ labelling'[t].event = e
                         /\ labelling'[t].pc # "ack"
                         /\ labelConn'
<1> USE DEF TypeInv, TypeOK, BrokerTypeOK
<1>1. CASE UNCHANGED classifiedQueue
  BY <1>1
<1>2. ASSUME NEW f, PublishClassifiedEmail(f)
      PROVE  Claim
  BY <1>2 DEF PublishClassifiedEmail
<1>3. ASSUME NEW t \in Labelers, NEW f \in ClassifiedEvent,
             ReceiveClassified(t, f)
      PROVE  Claim
  <2>1. CASE f = e
    <3> DEFINE job == [pc |-> "list", event |-> e]
    <3>1. labelling' = With(labelling, t, job)
      BY <1>3, <2>1 DEF ReceiveClassified
    <3> QED BY <1>3, <3>1 DEF ReceiveClassified, StaleClassified, With
  <2>2. CASE f # e
    BY <1>3, <2>2 DEF ReceiveClassified, DeliverClassified, StaleClassified
  <2> QED BY <2>1, <2>2
<1>4. CASE RequeueHeld
  <2>1. {t \in DOMAIN labelling : labelling[t].event = e} \subseteq Labelers
    BY DEF LabelTypeOK
  <2>2. Held(e) \in Nat
    BY <2>1, LabelersAssumption, FS_Subset, FS_CardinalityType DEF Held
  <2> QED BY <1>4, <2>2 DEF RequeueHeld
<1>5. ClassifierNext => (\E f : PublishClassifiedEmail(f))
                          \/ UNCHANGED classifiedQueue
  BY DEF ClassifierNext, ClassifierStep, ReceiveRaw, LoadRules, Upsert,
     PublishClassified, AckRaw, AbandonRaw, RestartClassifier, ClassifyFails,
     LoseClassifierConnection, CrashClassifier, brokerVars, queueVars
<1>6. LabelNext => \/ UNCHANGED classifiedQueue
                   \/ RequeueHeld
                   \/ \E f : PublishClassifiedEmail(f)
                   \/ \E t \in Labelers, f \in ClassifiedEvent :
                        ReceiveClassified(t, f)
  BY DEF LabelNext, LabelerStep, ListLabels, EnsureLabelCreates, Apply,
     MarkApplied, AckClassified, AbandonClassified, TransientFailure, Requeue,
     PermanentFailure, LoseLabelConnection, RestartLabelWorker,
     CrashLabelWorker, brokerVars, queueVars
<1>7. ScanApiNext => UNCHANGED classifiedQueue
  BY DEF ScanApiNext, EnqueueStep, StartScan, StartScanReplyLost, ListPage,
     PublishNext, UpdateProgress, FailRun, CompleteRun, ListPageFails,
     UpdateProgressFails, CompletionLost, GetScanRun, GetScanCounts,
     ApiConnBreaks, ApiConnCloses, ApiRestart, brokerVars, queueVars
<1> QED BY <1>1, <1>2, <1>3, <1>4, <1>5, <1>6, <1>7
          DEF Next, vars, brokerVars, queueVars

\* A connected goroutine that has not marked its row keeps the event, gives it
\* back, drops it or marks the row.
LEMMA HeldClassifiedStep ==
  ASSUME TypeInv, [Next]_vars, NEW t \in DOMAIN labelling, labelConn,
         NEW e \in ClassifiedEvent, labelling[t].event = e,
         labelling[t].pc # "ack"
  PROVE  \/ /\ t \in DOMAIN labelling'
            /\ labelling'[t].event = e
            /\ labelling'[t].pc # "ack"
            /\ labelConn'
         \/ classifiedQueue'[e] > 0
         \/ KeyOf(e) \in dropped'
         \/ /\ labelling[t].pc = "mark"
            /\ emailMessages'[KeyOf(e)].status = "applied"
            /\ emailMessages'[KeyOf(e)].applied = e.label
<1> DEFINE Claim == \/ /\ t \in DOMAIN labelling'
                       /\ labelling'[t].event = e
                       /\ labelling'[t].pc # "ack"
                       /\ labelConn'
                    \/ classifiedQueue'[e] > 0
                    \/ KeyOf(e) \in dropped'
                    \/ /\ labelling[t].pc = "mark"
                       /\ emailMessages'[KeyOf(e)].status = "applied"
                       /\ emailMessages'[KeyOf(e)].applied = e.label
<1> USE DEF TypeInv, TypeOK, BrokerTypeOK, LabelTypeOK
<1>0. t \in Labelers /\ labelling[t] \in Job
  OBVIOUS
<1>1. CASE UNCHANGED <<labelling, labelConn>>
  BY <1>1
<1>2. ASSUME Drop(t)
      PROVE  Claim
  BY <1>2 DEF Drop
<1>3. ASSUME NEW pc, pc # "ack", GoTo(t, pc), UNCHANGED labelConn
      PROVE  Claim
  BY <1>0, <1>3 DEF GoTo, Job
<1>4. CASE ListLabels(t) \/ EnsureLabelCreates(t) \/ Apply(t)
  BY <1>2, <1>3, <1>4 DEF ListLabels, EnsureLabelCreates, Apply
<1>5. CASE MarkApplied(t)
  <2>1. ASSUME NEW k \in DOMAIN emailMessages, NEW l,
               MarkEmailLabelApplied(k, l)
        PROVE  /\ emailMessages'[k].status = "applied"
               /\ emailMessages'[k].applied = l
    BY <2>1 DEF MarkEmailLabelApplied, StorageTypeOK, EmailMessage
  <2> QED BY <1>2, <1>5, <2>1 DEF MarkApplied, Doing
<1>6. CASE AckClassified(t) \/ AbandonClassified(t)
  BY <1>6 DEF AckClassified, AbandonClassified, Doing
<1>7. CASE TransientFailure(t) \/ PermanentFailure(t)
  <2>1. CASE Requeue(t)
    <3>1. classifiedQueue' = [classifiedQueue EXCEPT ![e] = @ + 1]
      BY <2>1 DEF Requeue, PublishClassifiedEmail
    <3> QED BY <3>1
  <2> QED BY <1>2, <1>7, <2>1 DEF TransientFailure, PermanentFailure
<1>8. ASSUME RequeueHeld
      PROVE  Claim
  <2> DEFINE holders == {x \in DOMAIN labelling : labelling[x].event = e}
  <2>1. IsFiniteSet(holders) /\ t \in holders
    BY LabelersAssumption, FS_Subset
  <2>2. Held(e) \in Nat /\ Held(e) # 0
    BY <2>1, FS_EmptySet, FS_CardinalityType DEF Held
  <2> QED BY <1>8, <2>2 DEF RequeueHeld
<1>9. CASE LoseLabelConnection \/ CrashLabelWorker \/ RestartLabelWorker
  BY <1>8, <1>9 DEF LoseLabelConnection, CrashLabelWorker, RestartLabelWorker
<1>10. ASSUME NEW s \in Labelers, s # t,
              LabelerStep(s) \/ TransientFailure(s) \/ PermanentFailure(s)
       PROVE  Claim
  <2>1. \/ labelling' = labelling
        \/ EndJob(s)
        \/ \E pc : GoTo(s, pc)
        \/ \E job : labelling' = With(labelling, s, job)
    BY <1>10 DEF LabelerStep, ReceiveClassified, ListLabels,
       EnsureLabelCreates, Apply, MarkApplied, AckClassified,
       AbandonClassified, TransientFailure, PermanentFailure, Drop, Requeue
  <2>2. t \in DOMAIN labelling' /\ labelling'[t] = labelling[t]
    BY <1>10, <2>1 DEF EndJob, GoTo, With, Without
  <2>3. labelConn' = labelConn
    BY <1>10 DEF LabelerStep, ReceiveClassified, ListLabels,
       EnsureLabelCreates, Apply, MarkApplied, AckClassified,
       AbandonClassified, TransientFailure, PermanentFailure
  <2> QED BY <2>2, <2>3
<1>11. CASE LabelNext
  <2>1. ASSUME NEW f \in ClassifiedEvent
        PROVE  ~ReceiveClassified(t, f)
    BY DEF ReceiveClassified
  <2>2. CASE LabelerStep(t)
    BY <1>4, <1>5, <1>6, <2>1, <2>2 DEF LabelerStep
  <2>3. ASSUME NEW s \in Labelers,
               LabelerStep(s) \/ TransientFailure(s) \/ PermanentFailure(s)
        PROVE  Claim
    <3>1. CASE s = t
      BY <1>7, <2>2, <2>3, <3>1
    <3>2. CASE s # t
      BY <1>10, <2>3, <3>2
    <3> QED BY <3>1, <3>2
  <2> QED BY <1>9, <1>11, <2>3 DEF LabelNext
<1> QED BY <1>1, <1>11 DEF Next, vars, apiLeaves, classifierLeaves, labelVars

\* So the event is accounted for by the queue or a connected goroutine, until
\* it is dropped or its row is no longer classified.
LEMMA PendingClassifiedStep ==
  ASSUME TypeInv, OnBehalf, [Next]_vars, NEW k, PendingClassified(k)
  PROVE  PendingClassified(k)' \/ k \in dropped' \/ ~Classified(k)'
<1>1. PICK e \in ClassifiedEvent :
        /\ KeyOf(e) = k
        /\ \/ classifiedQueue[e] > 0
           \/ \E t \in DOMAIN labelling :
                /\ labelling[t].event = e
                /\ labelling[t].pc # "ack"
                /\ labelConn
  BY DEF PendingClassified, ClassifiedOpen
<1>2. request' = request
  BY NothingIsTakenBack
<1>3. CASE classifiedQueue[e] > 0
  <2>1. request[e.run].mode = "apply"
    BY <1>3 DEF OnBehalf, ClassifiedOnBehalf, Asked
  <2> QED BY <1>1, <1>2, <1>3, <2>1, QueuedClassifiedStep
            DEF PendingClassified, ClassifiedOpen, KeyOf
<1>4. ASSUME NEW t \in DOMAIN labelling, labelling[t].event = e,
             labelling[t].pc # "ack", labelConn
      PROVE  PendingClassified(k)' \/ k \in dropped' \/ ~Classified(k)'
  <2>1. CASE \/ classifiedQueue'[e] > 0
             \/ /\ t \in DOMAIN labelling'
                /\ labelling'[t].event = e
                /\ labelling'[t].pc # "ack"
                /\ labelConn'
    BY <1>1, <1>2, <2>1 DEF PendingClassified, ClassifiedOpen, KeyOf
  <2>2. CASE \/ KeyOf(e) \in dropped'
             \/ emailMessages'[KeyOf(e)].status = "applied"
    BY <1>1, <2>2 DEF Classified
  <2> QED BY <1>4, <2>1, <2>2, HeldClassifiedStep
<1> QED BY <1>1, <1>3, <1>4

-----------------------------------------------------------------------------
(* Nothing is silently lost *)

\* A row becomes classified only while an event accounts for it, or at the
\* hands of a worker that has lost its connection.
LEMMA BecomesClassified ==
  ASSUME TypeInv, [Next]_vars,
         NEW k \in MessageKeys, Classified(k)', ~Classified(k)
  PROVE  \/ PendingRaw(k)'
         \/ \E w \in DOMAIN classifying :
              /\ ~classifierConn[w]
              /\ KeyOf(classifying[w].event) = k
              /\ request[classifying[w].event.run].mode = "apply"
              /\ UNCHANGED rawQueue
<1> USE DEF TypeInv, TypeOK
<1>1. request' = request
  BY NothingIsTakenBack
<1>3. PICK w \in Classifiers :
        /\ At(w, "upsert") /\ RecordClassification(w)
        /\ \/ Upsert(w)
           \/ ClassifyFails(w)
  <2>1. LabelNext => \/ UNCHANGED emailMessages
                     \/ \E x \in MessageKeys :
                          \E l : MarkEmailLabelApplied(x, l)
    BY DEF LabelNext, LabelerStep, ReceiveClassified, ListLabels,
       EnsureLabelCreates, Apply, MarkApplied, AckClassified,
       AbandonClassified, TransientFailure, CallEffect, PermanentFailure,
       LoseLabelConnection, RestartLabelWorker, CrashLabelWorker, storageVars,
       StorageTypeOK
  <2>2. ASSUME NEW x \in MessageKeys, NEW l, MarkEmailLabelApplied(x, l)
        PROVE  FALSE
    BY <2>2 DEF MarkEmailLabelApplied, Classified, StorageTypeOK, EmailMessage
  <2>3. emailMessages' # emailMessages
    BY DEF Classified
  <2>4. ClassifierNext
    BY <2>1, <2>2, <2>3 DEF Next, ScanApiNext, EnqueueStep, StartScan,
       StartScanReplyLost, ListPage, PublishNext, UpdateProgress, FailRun,
       CompleteRun, ListPageFails, UpdateProgressFails, CompletionLost,
       GetScanRun, GetScanCounts, ApiConnBreaks, ApiConnCloses, ApiRestart,
       EditRules, vars, storageVars
  <2> QED BY <2>3, <2>4 DEF ClassifierNext, ClassifierStep, ReceiveRaw,
            LoadRules, Upsert, PublishClassified, AckRaw, AbandonRaw,
            RestartClassifier, ClassifyFails, LoseClassifierConnection,
            CrashClassifier, storageVars
<1>4. PICK e \in RawEvent : e = classifying[w].event
  BY <1>3 DEF At, ClassifierTypeOK, Handling
<1>5. KeyOf(e) = k /\ request[e.run].mode = "apply"
  <2>1. request[e.run].mode \in Modes
    BY RequestsAssumption DEF BrokerTypeOK, RawEvent, ScanRequest
  <2>2. emailMessages' =
          With(emailMessages, KeyOf(e),
               [run |-> e.run, predicted |-> classifying[w].label,
                applied |-> NoLabel,
                status |-> IF request[e.run].mode = "dry_run"
                             THEN "dry_run" ELSE "classified"])
    BY <1>3, <1>4 DEF RecordClassification, UpsertEmailMessage
  <2> QED BY <2>1, <2>2 DEF With, Classified, Modes
<1>6. CASE ~classifierConn[w]
  <2>1. UNCHANGED rawQueue
    BY <1>3, <1>6
       DEF Upsert, ClassifyFails, RequeueRaw, brokerVars, queueVars
  <2> QED BY <1>3, <1>4, <1>5, <1>6, <2>1 DEF At
<1>7. CASE classifierConn[w] /\ Upsert(w)
  <2>1. /\ w \in DOMAIN classifying'
        /\ classifying'[w].event = e
        /\ classifying'[w].pc = "publish"
        /\ classifierConn'[w]
    BY <1>3, <1>4, <1>5, <1>7 DEF Upsert, At, ClassifierTypeOK, Handling
  <2> QED BY <1>1, <1>5, <2>1 DEF PendingRaw, RawOpen, KeyOf
<1>8. CASE classifierConn[w] /\ ClassifyFails(w)
  <2>1. rawQueue'[e] > 0
    BY <1>3, <1>4, <1>8
       DEF ClassifyFails, RequeueRaw, PublishRawEmail, At, BrokerTypeOK
  <2> QED BY <1>1, <1>5, <2>1 DEF PendingRaw, RawOpen, KeyOf
<1> QED BY <1>3, <1>6, <1>7, <1>8

LEMMA DroppedGrows == [Next]_vars => dropped \subseteq dropped'
<1>1. LabelNext => dropped \subseteq dropped'
  BY DEF LabelNext, LabelerStep, ReceiveClassified, ListLabels,
     EnsureLabelCreates, Apply, MarkApplied, AckClassified, AbandonClassified,
     TransientFailure, PermanentFailure, LoseLabelConnection,
     RestartLabelWorker, CrashLabelWorker, Drop
<1> QED BY <1>1 DEF Next, vars, apiLeaves, classifierLeaves, labelVars

LEMMA DeliveryInvNext ==
  ASSUME OneClassifier
  PROVE  DeliveryInv /\ [Next]_vars => DeliveryInv'
<1> SUFFICES ASSUME DeliveryInv, [Next]_vars PROVE DeliveryInv'
  OBVIOUS
<1> USE DEF DeliveryInv
<1>1. TypeInv' /\ OnBehalf' /\ RequeuedWhileCutOff'
  BY TypeInvNext, OnBehalfNext, RequeuedWhileCutOffNext
<1>2. ASSUME NEW k \in MessageKeys, Classified(k)'
      PROVE  PendingRaw(k)' \/ PendingClassified(k)' \/ k \in dropped'
  <2>1. CASE Classified(k)
    <3>1. PendingRaw(k) \/ PendingClassified(k) \/ k \in dropped
      BY <2>1 DEF NoSilentLoss
    <3> QED BY <1>2, <3>1, PendingRawStep, PendingClassifiedStep, DroppedGrows
  <2>2. ASSUME NEW w \in DOMAIN classifying, ~classifierConn[w],
               KeyOf(classifying[w].event) = k,
               request[classifying[w].event.run].mode = "apply",
               UNCHANGED rawQueue
        PROVE  PendingRaw(k)'
    <3>1. PICK e \in RawEvent : e = classifying[w].event
      BY DEF TypeInv, TypeOK, ClassifierTypeOK, Handling
    <3>2. rawQueue'[e] > 0
      BY <2>2, <3>1 DEF RequeuedWhileCutOff
    <3> QED BY <2>2, <3>1, <3>2, NothingIsTakenBack
            DEF PendingRaw, RawOpen, KeyOf
  <2>3. CASE ~Classified(k)
    BY <1>2, <2>2, <2>3, BecomesClassified
  <2> QED BY <2>1, <2>3
<1>3. NoSilentLoss'
  BY <1>2 DEF NoSilentLoss
<1> QED BY <1>1, <1>3

\* With one classifier worker and any number of scans, messages, label worker
\* goroutines and failures: a row that says classified has an event queued or
\* in connected hands that will settle it, unless that event was dropped.
THEOREM NothingSilentlyLost ==
  ASSUME OneClassifier
  PROVE  Spec => []NoSilentLoss
<1>1. Init => DeliveryInv
  <2> SUFFICES ASSUME Init PROVE DeliveryInv
    OBVIOUS
  <2>1. OnBehalf
    BY DEF Init, BrokerInit, ClassifierInit, LabelInit, OnBehalf,
       RawOnBehalf, ClassifyingOnBehalf, ClassifiedOnBehalf, LabellingOnBehalf
  <2>2. RequeuedWhileCutOff /\ NoSilentLoss
    BY DEF Init, StorageInit, ClassifierInit, RequeuedWhileCutOff,
       NoSilentLoss, Classified
  <2> QED BY <2>1, <2>2, TypeInvInit DEF DeliveryInv
<1>2. DeliveryInv => NoSilentLoss
  BY DEF DeliveryInv
<1>3. DeliveryInv /\ [Next]_vars => DeliveryInv'
  BY DeliveryInvNext
<1> QED BY <1>1, <1>2, <1>3, PTL DEF Spec

-----------------------------------------------------------------------------
(* The mail itself is never forgotten, with any number of classifiers *)

\* Message k is on its way to the label worker, was dropped, or is labelled.
Served(k) ==
  \/ PendingRaw(k) \/ PendingClassified(k) \/ k \in dropped
  \/ ~mailbox[k[2]].inbox

\* What replaces RequeuedWhileCutOff: the copy that the broker took back may
\* be gone, but then another worker has seen to the message.
ServedWhileCutOff ==
  \A w \in DOMAIN classifying :
    LET e == classifying[w].event IN
    ~classifierConn[w] /\ request[e.run].mode = "apply" => Served(KeyOf(e))

MailInv == AppliedInv /\ OnBehalf /\ ServedWhileCutOff /\ MailNeverForgotten

LEMMA ServedStep ==
  ASSUME AppliedInv, OnBehalf, [Next]_vars, NEW k \in MessageKeys, Served(k)
  PROVE  Served(k)'
<1> USE DEF AppliedInv
<1>1. ASSUME NEW g \in Messages, ~mailbox[g].inbox
      PROVE  ~mailbox'[g].inbox
  BY <1>1, MailboxGrows
<1>2. k[2] \in Messages
  BY DEF MessageKeys
<1>3. CASE PendingRaw(k)
  BY <1>3, PendingRawStep DEF Served
<1>4. CASE k \in dropped \/ ~mailbox[k[2]].inbox
  BY <1>1, <1>2, <1>4, DroppedGrows DEF Served
<1>5. CASE PendingClassified(k)
  <2>1. PICK e \in ClassifiedEvent :
          /\ KeyOf(e) = k
          /\ \/ classifiedQueue[e] > 0
             \/ \E t \in DOMAIN labelling :
                  /\ labelling[t].event = e
                  /\ labelling[t].pc # "ack"
                  /\ labelConn
    BY <1>5 DEF PendingClassified, ClassifiedOpen
  <2>2. request' = request
    BY NothingIsTakenBack
  <2>3. CASE classifiedQueue[e] > 0
    <3>1. request[e.run].mode = "apply"
      BY <2>3 DEF OnBehalf, ClassifiedOnBehalf, Asked
    <3> QED BY <2>1, <2>2, <2>3, <3>1, QueuedClassifiedStep
              DEF PendingClassified, ClassifiedOpen, KeyOf, Served
  <2>4. ASSUME NEW t \in DOMAIN labelling, labelling[t].event = e,
               labelling[t].pc # "ack", labelConn
        PROVE  Served(k)'
    <3>1. CASE \/ classifiedQueue'[e] > 0
               \/ /\ t \in DOMAIN labelling'
                  /\ labelling'[t].event = e
                  /\ labelling'[t].pc # "ack"
                  /\ labelConn'
      BY <2>1, <2>2, <3>1 DEF PendingClassified, ClassifiedOpen, KeyOf, Served
    <3>2. CASE KeyOf(e) \in dropped'
      BY <2>1, <3>2 DEF Served
    <3>3. CASE labelling[t].pc = "mark"
      <4>1. ~mailbox[e.msg].inbox
        BY <2>4, <3>3 DEF ModifiedBeforeMark, Modified
      <4>2. k[2] = e.msg
        BY <2>1 DEF KeyOf
      <4> QED BY <1>1, <1>2, <4>1, <4>2 DEF Served
    <3> QED BY <2>4, <3>1, <3>2, <3>3, HeldClassifiedStep
  <2> QED BY <2>1, <2>3, <2>4
<1> QED BY <1>3, <1>4, <1>5 DEF Served

LEMMA MailInvNext == MailInv /\ [Next]_vars => MailInv'
<1> SUFFICES ASSUME MailInv, [Next]_vars PROVE MailInv'
  OBVIOUS
<1> USE DEF MailInv
<1>1. TypeInv /\ TypeInv' /\ AppliedInv' /\ OnBehalf'
  BY AppliedInvNext, OnBehalfNext DEF AppliedInv
<1>2. request' = request
  BY <1>1, NothingIsTakenBack
<1>3. ASSUME NEW e \in RawEvent, request[e.run].mode = "apply"
      PROVE  KeyOf(e) \in MessageKeys
  BY <1>1, RequestsAssumption
     DEF TypeInv, TypeOK, BrokerTypeOK, RawEvent, ScanRequest, KeyOf, MessageKeys
<1>4. ServedWhileCutOff'
  <2> SUFFICES ASSUME NEW w \in DOMAIN classifying', ~classifierConn'[w],
                      NEW e, e = classifying'[w].event,
                      request[e.run].mode = "apply"
               PROVE  Served(KeyOf(e))'
    BY <1>2 DEF ServedWhileCutOff, KeyOf
  <2>1. e \in RawEvent
    BY <1>1 DEF TypeInv, TypeOK, ClassifierTypeOK, Handling
  <2>2. KeyOf(e)' = KeyOf(e)
    BY <1>2 DEF KeyOf
  <2>3. CASE rawQueue'[e] > 0
    BY <1>2, <2>1, <2>3 DEF Served, PendingRaw, RawOpen, KeyOf
  <2>4. CASE StaleRaw(e)
    BY <2>3, <2>4 DEF StaleRaw
  <2>5. CASE /\ w \in DOMAIN classifying
             /\ e = classifying[w].event
             /\ ~classifierConn[w]
    <3>1. Served(KeyOf(e))
      BY <2>5 DEF ServedWhileCutOff
    <3> QED BY <1>3, <2>1, <2>2, <3>1, ServedStep
  <2>6. CASE /\ w \in DOMAIN classifying
             /\ e = classifying[w].event
             /\ classifierConn[w]
             /\ RequeueRaw(w)
    BY <1>1, <2>1, <2>3, <2>6
       DEF RequeueRaw, PublishRawEmail, TypeInv, TypeOK, BrokerTypeOK
  <2> QED BY <1>1, <2>4, <2>5, <2>6, CutOffStep
<1>5. MailNeverForgotten'
  <2> SUFFICES ASSUME NEW k \in MessageKeys, Classified(k)'
               PROVE  Served(k)'
    BY DEF MailNeverForgotten, Served
  <2>1. CASE Classified(k)
    BY <2>1, ServedStep DEF MailNeverForgotten, Served
  <2>2. CASE PendingRaw(k)'
    BY <2>2 DEF Served
  <2>3. ASSUME NEW w \in DOMAIN classifying, ~classifierConn[w],
               KeyOf(classifying[w].event) = k,
               request[classifying[w].event.run].mode = "apply"
        PROVE  Served(k)'
    BY <2>3, ServedStep DEF ServedWhileCutOff
  <2> QED BY <1>1, <2>1, <2>2, <2>3, BecomesClassified
<1> QED BY <1>1, <1>4, <1>5

\* With any number of classifier workers, scans, messages and failures: a row
\* that says classified belongs to a message that is on its way to the label
\* worker, was dropped by it, or has already been labelled and archived.
THEOREM MailAlwaysServed == Spec => []MailNeverForgotten
<1>1. Init => MailInv
  <2> SUFFICES ASSUME Init PROVE MailInv
    OBVIOUS
  <2>1. AppliedIsReal /\ ModifiedBeforeMark
    BY DEF Init, StorageInit, LabelInit, AppliedIsReal, ModifiedBeforeMark
  <2>2. OnBehalf
    BY DEF Init, BrokerInit, ClassifierInit, LabelInit, OnBehalf,
       RawOnBehalf, ClassifyingOnBehalf, ClassifiedOnBehalf, LabellingOnBehalf
  <2>3. ServedWhileCutOff /\ MailNeverForgotten
    BY DEF Init, StorageInit, ClassifierInit, ServedWhileCutOff,
       MailNeverForgotten, Classified
  <2> QED BY <2>1, <2>2, <2>3, TypeInvInit DEF MailInv, AppliedInv
<1>2. MailInv => MailNeverForgotten
  BY DEF MailInv
<1> QED BY <1>1, <1>2, MailInvNext, PTL DEF Spec

-----------------------------------------------------------------------------
(* The row is there before its classified event *)

RowsWritten ==
  \A w \in DOMAIN classifying :
    classifying[w].pc = "publish"
      => KeyOf(classifying[w].event) \in DOMAIN emailMessages

RowInv == TypeInv /\ RowsWritten /\ RowBeforeEvent

\* Nothing deletes from email_messages.
LEMMA RowsStay ==
  ASSUME [Next]_vars
  PROVE  DOMAIN emailMessages \subseteq DOMAIN emailMessages'
<1>1. ASSUME NEW w \in Classifiers, RecordClassification(w)
      PROVE  DOMAIN emailMessages \subseteq DOMAIN emailMessages'
  BY <1>1 DEF RecordClassification, UpsertEmailMessage, With
<1>2. ASSUME NEW k, NEW l, MarkEmailLabelApplied(k, l)
      PROVE  DOMAIN emailMessages \subseteq DOMAIN emailMessages'
  BY <1>2 DEF MarkEmailLabelApplied
<1>3. ClassifierNext => \/ UNCHANGED emailMessages
                        \/ \E w \in Classifiers : RecordClassification(w)
  BY DEF ClassifierNext, ClassifierStep, ReceiveRaw, LoadRules, Upsert,
     PublishClassified, AckRaw, AbandonRaw, RestartClassifier, ClassifyFails,
     LoseClassifierConnection, CrashClassifier, storageVars
<1>4. LabelNext => \/ UNCHANGED emailMessages
                   \/ \E k, l : MarkEmailLabelApplied(k, l)
  BY DEF LabelNext, LabelerStep, ReceiveClassified, ListLabels,
     EnsureLabelCreates, Apply, MarkApplied, AckClassified, AbandonClassified,
     TransientFailure, CallEffect, PermanentFailure, LoseLabelConnection,
     RestartLabelWorker, CrashLabelWorker, storageVars
<1>5. ScanApiNext \/ EditRules \/ UNCHANGED vars => UNCHANGED emailMessages
  BY DEF ScanApiNext, EnqueueStep, StartScan, StartScanReplyLost, ListPage,
     PublishNext, UpdateProgress, FailRun, CompleteRun, ListPageFails,
     UpdateProgressFails, CompletionLost, GetScanRun, GetScanCounts,
     ApiConnBreaks, ApiConnCloses, ApiRestart, EditRules, vars, storageVars
<1> QED BY <1>1, <1>2, <1>3, <1>4, <1>5 DEF Next

LEMMA RowInvNext == RowInv /\ [Next]_vars => RowInv'
<1> SUFFICES ASSUME RowInv, [Next]_vars PROVE RowInv'
  OBVIOUS
<1> USE DEF RowInv
<1>1. TypeInv'
  BY TypeInvNext
<1>2. request' = request
  BY NothingIsTakenBack
<1>3. DOMAIN emailMessages \subseteq DOMAIN emailMessages'
  BY RowsStay
<1>4. RowsWritten'
  <2> SUFFICES ASSUME NEW w \in DOMAIN classifying',
                      classifying'[w].pc = "publish"
               PROVE  KeyOf(classifying'[w].event) \in DOMAIN emailMessages'
    BY <1>2 DEF RowsWritten, KeyOf
  <2> QED BY <1>3, ClassifyingChange DEF RowsWritten
<1>5. ASSUME NEW e \in ClassifiedEvent, classifiedQueue'[e] > 0
      PROVE  KeyOf(e) \in DOMAIN emailMessages'
  BY <1>3, <1>5, ClassifiedQueueChange DEF RowsWritten, RowBeforeEvent, KeyOf
<1>6. ASSUME NEW t \in DOMAIN labelling'
      PROVE  KeyOf(labelling'[t].event) \in DOMAIN emailMessages'
  BY <1>3, LabellingChange DEF RowBeforeEvent
<1>7. RowBeforeEvent'
  BY <1>2, <1>5, <1>6 DEF RowBeforeEvent, KeyOf
<1> QED BY <1>1, <1>4, <1>7

\* MarkEmailLabelApplied always finds its row, over every redelivery, rescan,
\* crash and lost connection, for any number of workers.
THEOREM RowsComeFirst == Spec => []RowBeforeEvent
<1>1. Init => RowInv
  <2> SUFFICES ASSUME Init PROVE RowInv
    OBVIOUS
  <2>1. RowsWritten /\ RowBeforeEvent
    BY DEF Init, BrokerInit, ClassifierInit, LabelInit, RowsWritten,
       RowBeforeEvent
  <2> QED BY <2>1, TypeInvInit DEF RowInv
<1>2. RowInv => RowBeforeEvent
  BY DEF RowInv
<1> QED BY <1>1, <1>2, RowInvNext, PTL DEF Spec

-----------------------------------------------------------------------------
(* What is dropped without failures *)

\* Without failures no call of Fault is made, before or in this step.
LEMMA FailureFree ==
  ASSUME TypeInv, [Next]_vars, faults' = 0
  PROVE  faults = 0 /\ ~Fault
<1>1. faults \in Nat /\ (Fault => faults' = faults + 1)
  BY MaxFaultsAssumption DEF TypeInv, TypeOK, FaultsTypeOK, Fault
<1>2. Fault \/ UNCHANGED faults
  BY DEF Next, ScanApiNext, EnqueueStep, StartScan, StartScanReplyLost,
     ListPage, PublishNext, UpdateProgress, FailRun, CompleteRun,
     ListPageFails, UpdateProgressFails, CompletionLost, GetScanRun,
     GetScanCounts, ApiConnBreaks, ApiConnCloses, ApiRestart,
     ClassifierNext, ClassifierStep, ReceiveRaw, LoadRules, Upsert,
     PublishClassified, AckRaw, AbandonRaw, RestartClassifier,
     ClassifyFails, LoseClassifierConnection, CrashClassifier,
     LabelNext, LabelerStep, ReceiveClassified, ListLabels,
     EnsureLabelCreates, Apply, MarkApplied, AckClassified,
     AbandonClassified, TransientFailure, PermanentFailure,
     LoseLabelConnection, RestartLabelWorker, CrashLabelWorker, vars
<1> QED BY <1>1, <1>2

\* The goroutines that will find the label they want to create.
Racing ==
  {t \in DOMAIN labelling :
     /\ labelling[t].pc = "create"
     /\ labelling[t].event.label \in mailboxLabels}

\* Each label has cost one delivery per goroutine that lost the race for it,
\* and will cost one per goroutine that is about to.
RaceInv ==
  /\ IsFiniteSet(mailboxLabels)
  /\ faults = 0 =>
       Cardinality(dropped) + Cardinality(Racing) <=
         Cardinality(mailboxLabels) * (Cardinality(Labelers) - 1)

\* Nobody joins a race for a label that exists; who loses it leaves; and the
\* goroutine that creates the label is in no race.
LEMMA RaceStep ==
  ASSUME RowInv, [Next]_vars, faults' = 0
  PROVE  \/ UNCHANGED <<dropped, mailboxLabels>> /\ Racing' \subseteq Racing
         \/ \E t \in Racing, k \in MessageKeys :
              /\ dropped' = dropped \cup {k}
              /\ UNCHANGED mailboxLabels
              /\ Racing' \subseteq Racing \ {t}
         \/ \E t \in Labelers, l \in Labels :
              /\ UNCHANGED dropped
              /\ l \notin mailboxLabels
              /\ mailboxLabels' = mailboxLabels \cup {l}
              /\ Racing' \subseteq Racing \cup (Labelers \ {t})
<1> DEFINE Quiet == /\ UNCHANGED <<dropped, mailboxLabels>>
                    /\ Racing' \subseteq Racing
           Loses == \E t \in Racing, k \in MessageKeys :
                      /\ dropped' = dropped \cup {k}
                      /\ UNCHANGED mailboxLabels
                      /\ Racing' \subseteq Racing \ {t}
           Wins == \E t \in Labelers, l \in Labels :
                     /\ UNCHANGED dropped
                     /\ l \notin mailboxLabels
                     /\ mailboxLabels' = mailboxLabels \cup {l}
                     /\ Racing' \subseteq Racing \cup (Labelers \ {t})
<1> USE DEF RowInv, TypeInv, TypeOK, LabelTypeOK
<1>0. ~Fault
  BY FailureFree
<1>1. CASE UNCHANGED <<labelVars, mailboxLabels>>
  BY <1>1 DEF Racing, labelVars
<1>2. ASSUME NEW t \in Labelers, EndJob(t), UNCHANGED <<dropped, mailboxLabels>>
      PROVE  Quiet
  BY <1>2 DEF EndJob, Without, Racing
<1>3. ASSUME NEW t \in Labelers, t \in DOMAIN labelling,
             UNCHANGED <<dropped, mailboxLabels>>, NEW pc, GoTo(t, pc),
             pc = "create" => labelling[t].event.label \notin mailboxLabels
      PROVE  Quiet
  <2>1. /\ labelling'[t].pc = pc /\ labelling'[t].event = labelling[t].event
        /\ DOMAIN labelling' = DOMAIN labelling
        /\ \A s \in DOMAIN labelling : s # t => labelling'[s] = labelling[s]
    BY <1>3 DEF GoTo, Job
  <2> QED BY <1>3, <2>1 DEF Racing
<1>4. ASSUME NEW t \in Labelers, NEW e \in ClassifiedEvent,
             ReceiveClassified(t, e)
      PROVE  Quiet
  <2>1. PICK job : labelling' = With(labelling, t, job) /\ job.pc # "create"
    BY <1>4 DEF ReceiveClassified
  <2>2. UNCHANGED <<dropped, mailboxLabels>>
    BY <1>4 DEF ReceiveClassified, gmailVars
  <2> QED BY <2>1, <2>2 DEF With, Racing
<1>5. ASSUME NEW t \in Labelers, ListLabels(t) PROVE Quiet
  BY <1>3, <1>5 DEF ListLabels, Doing, gmailVars
<1>6. ASSUME NEW t \in Labelers, EnsureLabelCreates(t)
      PROVE  Loses \/ Wins \/ Quiet
  <2> DEFINE label == labelling[t].event.label
  <2>0. t \in DOMAIN labelling /\ labelling[t].pc = "create" /\ label \in Labels
    BY <1>6 DEF EnsureLabelCreates, Doing, Job, ClassifiedEvent
  <2>1. CASE label \in mailboxLabels /\ labelConn
    <3>1. t \in Racing
      BY <2>0, <2>1 DEF Racing
    <3>2. KeyOf(labelling[t].event) \in MessageKeys
      BY <2>0, JobEvent
    <3>3. /\ dropped' = dropped \cup {KeyOf(labelling[t].event)}
          /\ UNCHANGED mailboxLabels
          /\ EndJob(t)
      BY <1>6, <2>1 DEF EnsureLabelCreates, Drop
    <3>4. Racing' \subseteq Racing \ {t}
      BY <3>3 DEF EndJob, Without, Racing
    <3> QED BY <3>1, <3>2, <3>3, <3>4
  <2>2. CASE label \in mailboxLabels /\ ~labelConn
    BY <1>2, <1>6, <2>2 DEF EnsureLabelCreates, Drop
  <2>3. CASE label \notin mailboxLabels
    <3>1. /\ mailboxLabels' = mailboxLabels \cup {label}
          /\ UNCHANGED dropped
          /\ GoTo(t, "modify")
      BY <1>6, <2>3 DEF EnsureLabelCreates, CreateLabel
    <3>2. t \notin Racing' /\ Racing' \subseteq Labelers
      BY <2>0, <3>1 DEF GoTo, Job, Racing
    <3> QED BY <2>0, <2>3, <3>1, <3>2
  <2> QED BY <2>1, <2>2, <2>3
<1>7. ASSUME NEW t \in Labelers, Apply(t) PROVE Quiet
  BY <1>3, <1>7 DEF Apply, Doing
<1>8. ASSUME NEW t \in Labelers, MarkApplied(t) PROVE Quiet
  <2>1. KeyOf(labelling[t].event) \in DOMAIN emailMessages
    BY <1>8 DEF MarkApplied, Doing, RowBeforeEvent
  <2> QED BY <1>3, <1>8, <2>1 DEF MarkApplied, Doing, gmailVars
<1>9. ASSUME NEW t \in Labelers, AckClassified(t) \/ AbandonClassified(t)
      PROVE  Quiet
  BY <1>2, <1>9 DEF AckClassified, AbandonClassified, gmailVars
<1>10. CASE RestartLabelWorker
  BY <1>10 DEF RestartLabelWorker, Racing, gmailVars
<1>11. CASE LabelNext
  BY <1>0, <1>4, <1>5, <1>6, <1>7, <1>8, <1>9, <1>10, <1>11
     DEF LabelNext, LabelerStep, TransientFailure, PermanentFailure,
         LoseLabelConnection, CrashLabelWorker
<1> QED BY <1>1, <1>11 DEF Next, vars, apiLeaves, classifierLeaves, gmailVars

LEMMA LabelsFinite ==
  ASSUME IsFiniteSet(mailboxLabels), [Next]_vars
  PROVE  IsFiniteSet(mailboxLabels')
<1>1. LabelNext => UNCHANGED mailboxLabels \/ \E l : CreateLabel(l)
  BY DEF LabelNext, LabelerStep, ReceiveClassified, ListLabels,
     EnsureLabelCreates, Apply, MarkApplied, AckClassified, AbandonClassified,
     TransientFailure, CallEffect, PermanentFailure, LoseLabelConnection,
     RestartLabelWorker, CrashLabelWorker, gmailVars
<1>2. UNCHANGED mailboxLabels \/ \E l : CreateLabel(l)
  BY <1>1 DEF Next, vars, apiLeaves, classifierLeaves, gmailVars
<1> QED BY <1>2, FS_AddElement DEF CreateLabel

\* The sets that are counted are finite.
LEMMA RaceNumbers ==
  ASSUME TypeInv, IsFiniteSet(mailboxLabels)
  PROVE  /\ IsFiniteSet(dropped) /\ IsFiniteSet(Racing)
         /\ Cardinality(dropped) \in Nat /\ Cardinality(Racing) \in Nat
         /\ Cardinality(mailboxLabels) \in Nat
         /\ Cardinality(Labelers) \in Nat
<1>1. IsFiniteSet(MessageKeys)
  BY FS_Product, StorageAssumption DEF MessageKeys
<1>2. dropped \subseteq MessageKeys /\ Racing \subseteq Labelers
  BY DEF TypeInv, TypeOK, LabelTypeOK, Racing
<1>3. IsFiniteSet(dropped) /\ IsFiniteSet(Racing)
  BY <1>1, <1>2, LabelersAssumption, FS_Subset
<1> QED BY <1>3, LabelersAssumption, FS_CardinalityType

LEMMA RaceInvNext ==
  ASSUME RowInv, RaceInv, [Next]_vars
  PROVE  RaceInv'
<1> USE DEF RowInv
<1> SUFFICES ASSUME faults' = 0
             PROVE  Cardinality(dropped') + Cardinality(Racing') <=
                      Cardinality(mailboxLabels') * (Cardinality(Labelers) - 1)
  BY LabelsFinite DEF RaceInv
<1> DEFINE d == Cardinality(dropped)
           r == Cardinality(Racing)
           n == Cardinality(mailboxLabels)
           L == Cardinality(Labelers)
<1>1. d + r <= n * (L - 1)
  BY FailureFree DEF RaceInv
<1>2. /\ IsFiniteSet(dropped) /\ IsFiniteSet(Racing)
      /\ IsFiniteSet(mailboxLabels) /\ IsFiniteSet(Labelers)
      /\ d \in Nat /\ r \in Nat /\ n \in Nat /\ L \in Nat
  BY RaceNumbers, LabelersAssumption DEF RaceInv
<1> DEFINE Goal == Cardinality(dropped') + Cardinality(Racing') <=
                     Cardinality(mailboxLabels') * (L - 1)
<1>3. ASSUME UNCHANGED <<dropped, mailboxLabels>>, Racing' \subseteq Racing
      PROVE  Goal
  <2>1. Cardinality(Racing') \in Nat /\ Cardinality(Racing') <= r
    BY <1>2, <1>3, FS_Subset, FS_CardinalityType
  <2>2. Cardinality(dropped') = d /\ Cardinality(mailboxLabels') = n
    BY <1>3
  <2> HIDE DEF d, r, n, L
  <2>3. n * (L - 1) \in Int
    BY <1>2
  <2> QED BY <1>1, <1>2, <2>1, <2>2, <2>3
<1>4. ASSUME NEW t \in Racing, NEW k \in MessageKeys,
             dropped' = dropped \cup {k}, UNCHANGED mailboxLabels,
             Racing' \subseteq Racing \ {t}
      PROVE  Goal
  <2>1. Cardinality(dropped') \in Nat /\ Cardinality(dropped') <= d + 1
    <3>1. Cardinality(dropped') \in {d, d + 1}
      <4>1. CASE k \in dropped
        <5>1. dropped' = dropped
          BY <1>4, <4>1
        <5> QED BY <5>1
      <4>2. CASE k \notin dropped
        BY <1>2, <1>4, <4>2, FS_AddElement
      <4> QED BY <4>1, <4>2
    <3> HIDE DEF d
    <3> QED BY <1>2, <3>1
  <2>2. IsFiniteSet(Racing \ {t}) /\ Cardinality(Racing \ {t}) = r - 1
    BY <1>2, FS_RemoveElement
  <2>3. Cardinality(Racing') \in Nat /\ Cardinality(Racing') <= r - 1
    BY <1>4, <2>2, FS_Subset, FS_CardinalityType
  <2>4. Cardinality(mailboxLabels') = n
    BY <1>4
  <2> HIDE DEF d, r, n, L
  <2>5. n * (L - 1) \in Int
    BY <1>2
  <2> QED BY <1>1, <1>2, <2>1, <2>3, <2>4, <2>5
<1>5. ASSUME NEW t \in Labelers, NEW l \in Labels, UNCHANGED dropped,
             l \notin mailboxLabels, mailboxLabels' = mailboxLabels \cup {l},
             Racing' \subseteq Racing \cup (Labelers \ {t})
      PROVE  Goal
  <2> DEFINE others == Labelers \ {t}
  <2>1. IsFiniteSet(others) /\ Cardinality(others) = L - 1
    BY <1>2, FS_RemoveElement
  <2>2. /\ IsFiniteSet(Racing \cup others)
        /\ Cardinality(Racing \cup others) =
             r + Cardinality(others) - Cardinality(Racing \cap others)
    BY <1>2, <2>1, FS_Union
  <2>3. Cardinality(Racing \cap others) \in Nat
    BY <1>2, FS_Intersection, FS_CardinalityType
  <2>4. /\ Cardinality(Racing') \in Nat
        /\ Cardinality(Racing') <= Cardinality(Racing \cup others)
    BY <1>5, <2>2, FS_Subset, FS_CardinalityType
  <2>5. Cardinality(Racing \cup others) \in Nat
    BY <2>2, FS_CardinalityType
  <2>6. Cardinality(mailboxLabels') = n + 1 /\ Cardinality(dropped') = d
    BY <1>2, <1>5, FS_AddElement
  <2> HIDE DEF d, r, n, L, others
  <2>7. (n + 1) * (L - 1) = n * (L - 1) + (L - 1) /\ n * (L - 1) \in Int
    BY <1>2
  <2> QED BY <1>1, <1>2, <2>1, <2>2, <2>3, <2>4, <2>5, <2>6, <2>7
<1> QED BY <1>3, <1>4, <1>5, RaceStep

LEMMA RaceInvInit == Init => RowInv /\ RaceInv
<1> SUFFICES ASSUME Init PROVE RowInv /\ RaceInv
  OBVIOUS
<1>1. RowsWritten /\ RowBeforeEvent
  BY DEF Init, BrokerInit, ClassifierInit, LabelInit, RowsWritten,
     RowBeforeEvent
<1>2. dropped = {} /\ mailboxLabels = {} /\ Racing = {}
  BY DEF Init, GmailInit, LabelInit, Racing
<1>3. Cardinality(Labelers) \in Nat
  BY LabelersAssumption, FS_CardinalityType
<1>4. RaceInv
  BY <1>2, <1>3, FS_EmptySet DEF RaceInv
<1> QED BY <1>1, <1>4, TypeInvInit DEF RowInv

\* However many goroutines race to create labels, without failures a label
\* costs each other goroutine one delivery at most, for any number of
\* messages, labels, scans and workers.
THEOREM FewAreLostToRaces == Spec => []FewLostToRace
<1>1. RowInv /\ RaceInv => FewLostToRace
  <2> SUFFICES ASSUME RowInv, RaceInv, faults = 0
               PROVE  Cardinality(dropped) <=
                        Cardinality(mailboxLabels) * (Cardinality(Labelers) - 1)
    BY DEF FewLostToRace
  <2>1. /\ Cardinality(dropped) + Cardinality(Racing) <=
             Cardinality(mailboxLabels) * (Cardinality(Labelers) - 1)
        /\ Cardinality(dropped) \in Nat /\ Cardinality(Racing) \in Nat
        /\ Cardinality(mailboxLabels) \in Nat /\ Cardinality(Labelers) \in Nat
    BY RaceNumbers DEF RaceInv, RowInv
  <2>2. Cardinality(mailboxLabels) * (Cardinality(Labelers) - 1) \in Int
    BY <2>1
  <2> QED BY <2>1, <2>2
<1>2. RowInv /\ RaceInv /\ [Next]_vars => (RowInv /\ RaceInv)'
  BY RowInvNext, RaceInvNext
<1> QED BY <1>1, <1>2, RaceInvInit, PTL DEF Spec

\* LABEL_WORKER_CONCURRENCY = 1 (the default is 4).
OneGoroutine == \A s, t \in Labelers : s = t

\* Then nobody loses a race.
LEMMA NothingDropped ==
  ASSUME OneGoroutine, RowInv, RaceInv, faults = 0
  PROVE  dropped = {}
<1> DEFINE d == Cardinality(dropped)
           r == Cardinality(Racing)
           n == Cardinality(mailboxLabels)
           L == Cardinality(Labelers)
<1>1. /\ IsFiniteSet(dropped)
      /\ d \in Nat /\ r \in Nat /\ n \in Nat /\ L \in Nat
      /\ d + r <= n * (L - 1)
  BY RaceNumbers DEF RaceInv, RowInv
<1>2. L \in {0, 1}
  <2>1. CASE Labelers = {}
    BY <2>1, FS_EmptySet
  <2>2. ASSUME NEW t \in Labelers PROVE L = 1
    <3>1. Labelers = {t}
      BY DEF OneGoroutine
    <3> QED BY <3>1, FS_Singleton
  <2> QED BY <2>1, <2>2
<1>3. d = 0
  <2> HIDE DEF d, r, n, L
  <2>1. n * (1 - 1) = 0 /\ n * (0 - 1) = 0 - n
    BY <1>1
  <2>2. n * (L - 1) <= 0
    BY <1>1, <1>2, <2>1
  <2>3. n * (L - 1) \in Int
    BY <1>1
  <2> QED BY <1>1, <2>2, <2>3
<1> QED BY <1>1, <1>3, FS_EmptySet

\* With one classifier worker, one label goroutine and no failures, no
\* message recorded by an apply run is left unlabelled when the
\* system has come to rest, for any number of scans, messages and rules.
THEOREM LabelsAlwaysGetApplied ==
  ASSUME OneClassifier, OneGoroutine
  PROVE  Spec => []LabelsGetApplied
<1> DEFINE Inv == DeliveryInv /\ RowInv /\ RaceInv
<1>1. Init => Inv
  <2> SUFFICES ASSUME Init PROVE Inv
    OBVIOUS
  <2>1. OnBehalf
    BY DEF Init, BrokerInit, ClassifierInit, LabelInit, OnBehalf,
       RawOnBehalf, ClassifyingOnBehalf, ClassifiedOnBehalf, LabellingOnBehalf
  <2>2. RequeuedWhileCutOff /\ NoSilentLoss
    BY DEF Init, StorageInit, ClassifierInit, RequeuedWhileCutOff,
       NoSilentLoss, Classified
  <2> QED BY <2>1, <2>2, RaceInvInit, TypeInvInit DEF DeliveryInv
<1>2. Inv /\ [Next]_vars => Inv'
  BY DeliveryInvNext, RowInvNext, RaceInvNext
<1>3. Inv => LabelsGetApplied
  <2> SUFFICES ASSUME Inv, faults = 0, Drained, NEW k \in MessageKeys,
                      Classified(k)
               PROVE  FALSE
    BY DEF LabelsGetApplied
  <2>1. k \notin dropped
    BY NothingDropped
  <2>2. ~PendingRaw(k) /\ ~PendingClassified(k)
    BY DEF Drained, PendingRaw, RawOpen, PendingClassified, ClassifiedOpen
  <2> QED BY <2>1, <2>2 DEF DeliveryInv, NoSilentLoss
<1> QED BY <1>1, <1>2, <1>3, PTL DEF Spec

-----------------------------------------------------------------------------
(* The pipeline implements MessageLedger: a step of any process is one step *)
(* of the ledger or leaves it alone.  What a handler holds is of a run that  *)
(* published the message (OnBehalf), has a row once it comes to the label    *)
(* worker (RowBeforeEvent), and has been modified before it is marked        *)
(* (ModifiedBeforeMark).                                                     *)

LedgerInv == AppliedInv /\ OnBehalf /\ RowInv

\* The calls that touch what the ledger sees.
Offers(r) == PublishNext(r) /\ UNCHANGED <<emailMessages, mailbox>>

Records(w) ==
  /\ At(w, "upsert")
  /\ RecordClassification(w)
  /\ UNCHANGED <<handed, mailbox>>

Modifies(t) ==
  /\ Doing(t, "modify")
  /\ ModifyMessage(t)
  /\ UNCHANGED <<handed, emailMessages>>

Marks(t) ==
  /\ Doing(t, "mark")
  /\ KeyOf(labelling[t].event) \in DOMAIN emailMessages
  /\ MarkEmailLabelApplied(KeyOf(labelling[t].event), labelling[t].event.label)
  /\ UNCHANGED <<handed, mailbox>>

LEMMA LedgerSteps ==
  ASSUME [Next]_vars
  PROVE  \/ UNCHANGED <<handed, emailMessages, mailbox>>
         \/ \E r \in Runs : Offers(r)
         \/ \E w \in Classifiers : Records(w)
         \/ \E t \in Labelers : Modifies(t) \/ Marks(t)
<1>1. ScanApiNext /\ UNCHANGED apiLeaves =>
        \/ UNCHANGED <<handed, emailMessages, mailbox>>
        \/ \E r \in Runs : Offers(r)
  <2>1. ScanApiNext => \/ UNCHANGED <<handed, emailMessages>>
                       \/ \E r \in Runs : PublishNext(r)
    BY DEF ScanApiNext, EnqueueStep, StartScan, StartScanReplyLost, ListPage,
       UpdateProgress, FailRun, CompleteRun, ListPageFails,
       UpdateProgressFails, CompletionLost, GetScanRun, GetScanCounts,
       ApiConnBreaks, ApiConnCloses, ApiRestart, storageVars, scanApiVars
  <2>2. \A r \in Runs : PublishNext(r) => UNCHANGED emailMessages
    BY DEF PublishNext, storageVars
  <2> QED BY <2>1, <2>2 DEF Offers, apiLeaves, gmailVars
<1>2. ClassifierNext /\ UNCHANGED classifierLeaves =>
        \/ UNCHANGED <<handed, emailMessages, mailbox>>
        \/ \E w \in Classifiers : Records(w)
  <2>1. ClassifierNext => \/ UNCHANGED emailMessages
                          \/ \E w \in Classifiers :
                               At(w, "upsert") /\ RecordClassification(w)
    BY DEF ClassifierNext, ClassifierStep, ReceiveRaw, LoadRules, Upsert,
       PublishClassified, AckRaw, AbandonRaw, RestartClassifier,
       ClassifyFails, LoseClassifierConnection, CrashClassifier, storageVars
  <2> QED BY <2>1 DEF Records, classifierLeaves, scanApiVars, gmailVars
<1>3. LabelNext /\ UNCHANGED labelLeaves =>
        \/ UNCHANGED <<handed, emailMessages, mailbox>>
        \/ \E t \in Labelers : Modifies(t) \/ Marks(t)
  <2> DEFINE Marking(t) ==
        /\ Doing(t, "mark")
        /\ KeyOf(labelling[t].event) \in DOMAIN emailMessages
        /\ MarkEmailLabelApplied(KeyOf(labelling[t].event),
                                 labelling[t].event.label)
  <2>1. LabelNext =>
          \/ UNCHANGED <<emailMessages, mailbox>>
          \/ \E t \in Labelers :
               \/ /\ Doing(t, "modify") /\ ModifyMessage(t)
                  /\ UNCHANGED emailMessages
               \/ Marking(t) /\ UNCHANGED mailbox
    BY DEF LabelNext, LabelerStep, ReceiveClassified, ListLabels,
       EnsureLabelCreates, Apply, MarkApplied, AckClassified,
       AbandonClassified, TransientFailure, CallEffect, PermanentFailure,
       LoseLabelConnection, RestartLabelWorker, CrashLabelWorker,
       storageVars, gmailVars
  <2> QED BY <2>1 DEF Modifies, Marks, labelLeaves, scanApiVars
<1> QED BY <1>1, <1>2, <1>3
          DEF Next, EditRules, vars, storageVars, scanApiVars, gmailVars

\* Every step of the pipeline is a step of the ledger or leaves it alone.
LEMMA LedgerStep ==
  ASSUME LedgerInv, [Next]_vars
  PROVE  [Ledger!Next]_(Ledger!ledgerVars)
<1> USE DEF LedgerInv, AppliedInv, RowInv
<1> DEFINE Goal == [Ledger!Next]_(Ledger!ledgerVars)
<1>0. request' = request
  BY NothingIsTakenBack
<1>1. CASE UNCHANGED <<handed, emailMessages, mailbox>>
  BY <1>0, <1>1 DEF Ledger!ledgerVars
<1>2. ASSUME NEW r \in Runs, Offers(r) PROVE Goal
  <2> DEFINE g == Head(enqueue[r].todo)
  <2>1. CASE UNCHANGED handed
    BY <1>0, <1>2, <2>1 DEF Offers, Ledger!ledgerVars
  <2>2. CASE handed' = [handed EXCEPT ![r] = @ \cup {g}]
    <3>1. g \in Messages
      <4>1. enqueue[r] \in Goroutine /\ enqueue[r].todo # <<>>
        BY <1>2 DEF Offers, PublishNext, TypeInv, TypeOK, BatchOK, ScanApiTypeOK
      <4>2. enqueue[r].todo \in Seq(Messages)
        BY <4>1 DEF Goroutine
      <4> QED BY <4>1, <4>2, TailOfBatch
    <3>2. Ledger!Offer(r, g)
      BY <1>0, <1>2, <2>2 DEF Offers, Ledger!Offer
    <3> QED BY <3>1, <3>2 DEF Ledger!Next
  <2> QED BY <1>2, <2>1, <2>2 DEF Offers, PublishNext
<1>3. ASSUME NEW w \in Classifiers, Records(w) PROVE Goal
  <2>0. PICK e \in RawEvent : e = classifying[w].event
    BY <1>3 DEF Records, At, TypeInv, TypeOK, ClassifierTypeOK, Handling
  <2> DEFINE label == classifying[w].label
  <2>1. e.run \in Runs /\ e.msg \in Messages /\ label \in Labels
    BY <1>3, <2>0 DEF Records, At, TypeInv, TypeOK, ClassifierTypeOK, Handling,
       RawEvent
  <2>2. e.msg \in handed[e.run]
    BY <1>3, <2>0 DEF Records, At, OnBehalf, ClassifyingOnBehalf
  <2>3. request[e.run].mode \in {"dry_run", "apply"}
    BY <2>1, RequestsAssumption
       DEF TypeInv, TypeOK, BrokerTypeOK, ScanRequest, Modes
  <2> DEFINE status == [dry_run |-> "dry_run", apply |-> "classified"]
             row == [run |-> e.run, predicted |-> label, applied |-> NoLabel,
                     status |-> status[request[e.run].mode]]
  <2>4. status[request[e.run].mode] =
          IF request[e.run].mode = "dry_run" THEN "dry_run" ELSE "classified"
    BY <2>3
  <2>5. emailMessages' = With(emailMessages, KeyOf(e), row)
    BY <1>3, <2>0, <2>4 DEF Records, RecordClassification, UpsertEmailMessage
  <2>6. Ledger!Record(e.run, e.msg, label)
    <3> HIDE DEF label
    <3> QED BY <1>0, <1>3, <2>2, <2>5
            DEF Records, With, KeyOf, Ledger!Record, Ledger!Key
  <2> QED BY <2>1, <2>6 DEF Ledger!Next
<1>4. ASSUME NEW t \in Labelers, Modifies(t) \/ Marks(t) PROVE Goal
  <2>0. PICK e \in ClassifiedEvent : e = labelling[t].event
    BY <1>4, JobEvent DEF Modifies, Marks, Doing, TypeInv, TypeOK
  <2>1. /\ t \in DOMAIN labelling
        /\ e.run \in Runs /\ e.msg \in Messages /\ e.label \in Labels
    BY <1>4 DEF Modifies, Marks, Doing, ClassifiedEvent
  <2>2. Ledger!MayApply(e.run, e.msg)
    BY <2>0, <2>1 DEF OnBehalf, LabellingOnBehalf, Asked, RowBeforeEvent,
       KeyOf, Ledger!MayApply, Ledger!Key
  <2>3. CASE Modifies(t)
    <3>1. Ledger!Label(e.run, e.msg, e.label)
      BY <1>0, <2>0, <2>2, <2>3
         DEF Modifies, ModifyMessage, ApplyLabelToMessage, Ledger!Label
    <3> QED BY <2>1, <3>1 DEF Ledger!Next
  <2>4. CASE Marks(t)
    <3>1. e.label \in mailbox[e.msg].labels /\ ~mailbox[e.msg].inbox
      BY <2>0, <2>1, <2>4 DEF Marks, Doing, ModifiedBeforeMark, Modified
    <3>2. Ledger!Confirm(e.run, e.msg, e.label)
      BY <1>0, <2>0, <2>2, <2>4, <3>1
         DEF Marks, MarkEmailLabelApplied, KeyOf, Ledger!Confirm, Ledger!Key
    <3> QED BY <2>1, <3>2 DEF Ledger!Next
  <2> QED BY <1>4, <2>3, <2>4
<1> QED BY <1>1, <1>2, <1>3, <1>4, LedgerSteps

LEMMA LedgerInvInit == Init => LedgerInv
<1> SUFFICES ASSUME Init PROVE LedgerInv
  OBVIOUS
<1>1. AppliedIsReal /\ ModifiedBeforeMark
  BY DEF Init, StorageInit, LabelInit, AppliedIsReal, ModifiedBeforeMark
<1>2. OnBehalf
  BY DEF Init, BrokerInit, ClassifierInit, LabelInit, OnBehalf,
     RawOnBehalf, ClassifyingOnBehalf, ClassifiedOnBehalf, LabellingOnBehalf
<1>3. RowsWritten /\ RowBeforeEvent
  BY DEF Init, BrokerInit, ClassifierInit, LabelInit, RowsWritten,
     RowBeforeEvent
<1> QED BY <1>1, <1>2, <1>3, TypeInvInit DEF LedgerInv, AppliedInv, RowInv

LEMMA LedgerInvNext == LedgerInv /\ [Next]_vars => LedgerInv'
BY AppliedInvNext, OnBehalfNext, RowInvNext DEF LedgerInv, RowInv

\* The pipeline implements the ledger for any number of scans, messages,
\* labels, workers, goroutines and failures.
THEOREM PipelineImplementsLedger == Spec => ImplementsLedger
<1>1. Init => LedgerInv
  BY LedgerInvInit
<1>2. Init => Ledger!Init
  BY RequestsAssumption
     DEF Init, BrokerInit, StorageInit, GmailInit, ScanApiInit, ScanRequest,
         Modes, Ledger!Init
<1>3. LedgerInv /\ [Next]_vars => LedgerInv'
  BY LedgerInvNext
<1>4. LedgerInv /\ [Next]_vars => [Ledger!Next]_(Ledger!ledgerVars)
  BY LedgerStep
<1> QED BY <1>1, <1>2, <1>3, <1>4, PTL DEF Spec, ImplementsLedger, Ledger!Spec

-----------------------------------------------------------------------------
(* No consumer is done with an event before its work is *)

\* The row of a raw event is written before its result is published, so it is
\* there when the worker has only the Ack left.
LEMMA RawHandedOn ==
  ASSUME LedgerInv, [Next]_vars, NEW e \in RawEvent, RawOpen(e), ~RawOpen(e)'
  PROVE  /\ KeyOf(e) \in DOMAIN emailMessages'
         /\ request[e.run].mode = "apply" =>
              \E f \in ClassifiedEvent :
                f.run = e.run /\ f.msg = e.msg /\ ClassifiedOpen(f)'
<1> USE DEF LedgerInv, RowInv
<1>1. rawQueue[e] = 0
  BY QueuedRawStep DEF RawOpen, TypeInv, TypeOK, BrokerTypeOK
<1>2. PICK w \in DOMAIN classifying :
        /\ classifying[w].event = e
        /\ classifying[w].pc # "ack"
        /\ classifierConn[w]
  BY <1>1 DEF RawOpen
<1>3. \/ /\ classifying[w].pc = "publish"
         /\ \E f \in ClassifiedEvent :
              f.run = e.run /\ f.msg = e.msg /\ classifiedQueue'[f] > 0
      \/ request[e.run].mode # "apply" /\ KeyOf(e) \in DOMAIN emailMessages'
  BY <1>2, HeldRawStep DEF RawOpen
<1>4. classifying[w].pc = "publish" => KeyOf(e) \in DOMAIN emailMessages'
  BY <1>2, RowsStay DEF RowsWritten
<1>5. ASSUME NEW f \in ClassifiedEvent, classifiedQueue'[f] > 0
      PROVE  ClassifiedOpen(f)'
  BY <1>5 DEF ClassifiedOpen
<1>6. request[e.run].mode = "apply" =>
        \E f \in ClassifiedEvent :
          f.run = e.run /\ f.msg = e.msg /\ ClassifiedOpen(f)'
  BY <1>3, <1>5
<1> QED BY <1>3, <1>4, <1>6

\* A goroutine only marks what it has modified.
LEMMA ClassifiedHandedOn ==
  ASSUME LedgerInv, [Next]_vars, NEW e \in ClassifiedEvent,
         ClassifiedOpen(e), ~ClassifiedOpen(e)'
  PROVE  \/ KeyOf(e) \in dropped'
         \/ /\ emailMessages'[KeyOf(e)].status = "applied"
            /\ emailMessages'[KeyOf(e)].applied = e.label
            /\ e.label \in mailbox'[e.msg].labels
            /\ ~mailbox'[e.msg].inbox
<1> USE DEF LedgerInv, AppliedInv
<1>1. classifiedQueue[e] = 0
  <2>1. classifiedQueue[e] > 0 => request[e.run].mode = "apply"
    BY DEF OnBehalf, ClassifiedOnBehalf, Asked
  <2> QED BY <2>1, QueuedClassifiedStep
          DEF ClassifiedOpen, TypeInv, TypeOK, BrokerTypeOK
<1>2. PICK t \in DOMAIN labelling :
        /\ labelling[t].event = e
        /\ labelling[t].pc # "ack"
        /\ labelConn
  BY <1>1 DEF ClassifiedOpen
<1>3. \/ KeyOf(e) \in dropped'
      \/ /\ labelling[t].pc = "mark"
         /\ emailMessages'[KeyOf(e)].status = "applied"
         /\ emailMessages'[KeyOf(e)].applied = e.label
  BY <1>2, HeldClassifiedStep DEF ClassifiedOpen
<1>4. ASSUME labelling[t].pc = "mark"
      PROVE  e.label \in mailbox'[e.msg].labels /\ ~mailbox'[e.msg].inbox
  <2>1. e.label \in mailbox[e.msg].labels /\ ~mailbox[e.msg].inbox
    BY <1>2, <1>4 DEF ModifiedBeforeMark, Modified
  <2> QED BY <2>1, MailboxGrows DEF ClassifiedEvent
<1> QED BY <1>3, <1>4

\* Whatever fails between two calls of a handler, and however many consumers
\* there are, an event is acknowledged only after its work is done or handed
\* on.
THEOREM EventsAlwaysHandedOn == Spec => EventsAreHandedOn
<1> DEFINE HandedOn ==
      /\ \A e \in RawEvent :
           RawOpen(e) /\ ~RawOpen(e)' =>
             /\ KeyOf(e) \in DOMAIN emailMessages'
             /\ request[e.run].mode = "apply" =>
                  \E f \in ClassifiedEvent :
                    f.run = e.run /\ f.msg = e.msg /\ ClassifiedOpen(f)'
      /\ \A f \in ClassifiedEvent :
           ClassifiedOpen(f) /\ ~ClassifiedOpen(f)' =>
             \/ KeyOf(f) \in dropped'
             \/ /\ emailMessages'[KeyOf(f)].status = "applied"
                /\ emailMessages'[KeyOf(f)].applied = f.label
                /\ f.label \in mailbox'[f.msg].labels
                /\ ~mailbox'[f.msg].inbox
<1>1. LedgerInv /\ [Next]_vars => [HandedOn]_vars
  BY RawHandedOn, ClassifiedHandedOn
<1> QED BY <1>1, LedgerInvInit, LedgerInvNext, PTL DEF Spec, EventsAreHandedOn

=============================================================================
