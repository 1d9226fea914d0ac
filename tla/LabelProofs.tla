------------------------------ MODULE LabelProofs ---------------------------
(***************************************************************************)
(* What the pipeline does to the mailbox: a row that says applied is true   *)
(* of it, and nothing but an apply run that published the message ever      *)
(* touches it.                                                              *)
(*                                                                          *)
(* The first holds because a handler only marks a row after its own modify  *)
(* call (ModifiedBeforeMark) and because nobody takes labels away.  The     *)
(* second needs the way of an event through both queues and both workers    *)
(* (OnBehalf).                                                              *)
(***************************************************************************)
EXTENDS TypeProofs

\* The message of event e carries e's label and is archived.
Modified(e) ==
  e.label \in mailbox[e.msg].labels /\ ~mailbox[e.msg].inbox

ModifiedBeforeMark ==
  \A t \in DOMAIN labelling :
    labelling[t].pc = "mark" => Modified(labelling[t].event)

AppliedInv == TypeInv /\ AppliedIsReal /\ ModifiedBeforeMark

-----------------------------------------------------------------------------
(* What a step may change *)

\* Only a modify call of a label worker's goroutine changes the mailbox.
LEMMA MailboxChange ==
  ASSUME [Next]_vars
  PROVE  \/ UNCHANGED mailbox
         \/ \E t \in Labelers : Doing(t, "modify") /\ ModifyMessage(t)
<1>1. LabelNext => \/ UNCHANGED mailbox
                   \/ \E t \in Labelers : Doing(t, "modify") /\ ModifyMessage(t)
  BY DEF LabelNext, LabelerStep, ReceiveClassified, ListLabels,
     EnsureLabelCreates, Apply, MarkApplied, AckClassified, AbandonClassified,
     TransientFailure, CallEffect, PermanentFailure, LoseLabelConnection,
     RestartLabelWorker, CrashLabelWorker, gmailVars
<1> QED BY <1>1 DEF Next, vars, apiLeaves, classifierLeaves, gmailVars

\* Nobody removes a label or moves a message back to the inbox.
LEMMA MailboxGrows ==
  ASSUME TypeInv, [Next]_vars, NEW g \in Messages
  PROVE  /\ mailbox[g].labels \subseteq mailbox'[g].labels
         /\ ~mailbox[g].inbox => ~mailbox'[g].inbox
<1>1. ASSUME NEW t \in Labelers, Doing(t, "modify"), ModifyMessage(t)
      PROVE  /\ mailbox[g].labels \subseteq mailbox'[g].labels
             /\ ~mailbox[g].inbox => ~mailbox'[g].inbox
  <2>1. labelling[t].event.msg \in Messages
    BY <1>1, JobEvent DEF TypeInv, TypeOK, Doing
  <2> QED BY <1>1, <2>1
            DEF ModifyMessage, ApplyLabelToMessage, TypeInv, TypeOK, GmailTypeOK
<1> QED BY <1>1, MailboxChange

\* A row is left alone, overwritten by a classification, or marked applied by
\* a goroutine whose modify call was made before.
LEMMA RowChange ==
  ASSUME TypeInv, [Next]_vars, NEW k \in DOMAIN emailMessages'
  PROVE  \/ k \in DOMAIN emailMessages /\ emailMessages'[k] = emailMessages[k]
         \/ emailMessages'[k].status \in {"dry_run", "classified"}
         \/ \E t \in Labelers :
              /\ Doing(t, "mark")
              /\ k[2] = labelling[t].event.msg
              /\ emailMessages'[k].applied = labelling[t].event.label
<1>1. ASSUME NEW w \in Classifiers, RecordClassification(w)
      PROVE  \/ k \in DOMAIN emailMessages /\ emailMessages'[k] = emailMessages[k]
             \/ emailMessages'[k].status \in {"dry_run", "classified"}
  BY <1>1 DEF RecordClassification, UpsertEmailMessage, With
<1>2. ASSUME NEW t \in Labelers, Doing(t, "mark"),
             MarkEmailLabelApplied(KeyOf(labelling[t].event),
                                   labelling[t].event.label)
      PROVE  \/ k \in DOMAIN emailMessages /\ emailMessages'[k] = emailMessages[k]
             \/ /\ k[2] = labelling[t].event.msg
                /\ emailMessages'[k].applied = labelling[t].event.label
  <2>1. k \in DOMAIN emailMessages
    BY <1>2 DEF MarkEmailLabelApplied
  <2>2. emailMessages[k] \in EmailMessage
    BY <2>1 DEF TypeInv, TypeOK, StorageTypeOK
  <2> QED BY <1>2, <2>1, <2>2 DEF MarkEmailLabelApplied, EmailMessage, KeyOf
<1>3. ClassifierNext => \/ UNCHANGED emailMessages
                        \/ \E w \in Classifiers : RecordClassification(w)
  BY DEF ClassifierNext, ClassifierStep, ReceiveRaw, LoadRules, Upsert,
     PublishClassified, AckRaw, AbandonRaw, RestartClassifier, ClassifyFails,
     LoseClassifierConnection, CrashClassifier, storageVars
<1>4. LabelNext => \/ UNCHANGED emailMessages
                   \/ \E t \in Labelers :
                        /\ Doing(t, "mark")
                        /\ MarkEmailLabelApplied(KeyOf(labelling[t].event),
                                                 labelling[t].event.label)
  BY DEF LabelNext, LabelerStep, ReceiveClassified, ListLabels,
     EnsureLabelCreates, Apply, MarkApplied, AckClassified, AbandonClassified,
     TransientFailure, CallEffect, PermanentFailure, LoseLabelConnection,
     RestartLabelWorker, CrashLabelWorker, storageVars
<1>5. ScanApiNext \/ EditRules \/ UNCHANGED vars => UNCHANGED emailMessages
  BY DEF ScanApiNext, EnqueueStep, StartScan, StartScanReplyLost, ListPage,
     PublishNext, UpdateProgress, FailRun, CompleteRun, ListPageFails,
     UpdateProgressFails, CompletionLost, GetScanRun, GetScanCounts,
     ApiConnBreaks, ApiConnCloses, ApiRestart, EditRules, vars, storageVars
<1> QED BY <1>1, <1>2, <1>3, <1>4, <1>5 DEF Next

\* A goroutine reaches its mark call from there or through its modify call.
LEMMA MarkComesAfterModify ==
  ASSUME TypeInv, [Next]_vars,
         NEW t \in DOMAIN labelling', labelling'[t].pc = "mark"
  PROVE  /\ t \in DOMAIN labelling
         /\ labelling'[t].event = labelling[t].event
         /\ \/ labelling[t].pc = "mark"
            \/ labelling[t].pc = "modify" /\ ModifyMessage(t)
<1> DEFINE Claim == /\ t \in DOMAIN labelling
                    /\ labelling'[t].event = labelling[t].event
                    /\ \/ labelling[t].pc = "mark"
                       \/ labelling[t].pc = "modify" /\ ModifyMessage(t)
<1>1. CASE UNCHANGED labelling
  BY <1>1
<1>2. ASSUME NEW s, EndJob(s) PROVE Claim
  BY <1>2 DEF EndJob, Without
<1>3. ASSUME NEW s, NEW pc, s \in DOMAIN labelling, GoTo(s, pc),
             s # t \/ pc # "mark" \/ (labelling[s].pc = "modify" /\ ModifyMessage(s))
      PROVE  Claim
  BY <1>3 DEF GoTo, TypeInv, TypeOK, LabelTypeOK, Job
<1>4. ASSUME NEW s \in Labelers, NEW e \in ClassifiedEvent,
             ReceiveClassified(s, e)
      PROVE  Claim
  BY <1>4 DEF ReceiveClassified, With
<1>5. ASSUME NEW s \in Labelers,
             \/ EnsureLabelCreates(s) \/ ListLabels(s) \/ Apply(s)
             \/ MarkApplied(s)
      PROVE  Claim
  BY <1>2, <1>3, <1>5 DEF EnsureLabelCreates, ListLabels, Apply, MarkApplied,
     Doing, Drop
<1>6. ASSUME NEW s \in Labelers,
             \/ AckClassified(s) \/ AbandonClassified(s)
             \/ TransientFailure(s) \/ PermanentFailure(s)
      PROVE  Claim
  BY <1>2, <1>6 DEF AckClassified, AbandonClassified, TransientFailure,
     PermanentFailure, Requeue, Drop
<1>7. CASE LoseLabelConnection \/ RestartLabelWorker \/ CrashLabelWorker
  BY <1>1, <1>7 DEF LoseLabelConnection, RestartLabelWorker, CrashLabelWorker
<1>8. CASE LabelNext
  BY <1>4, <1>5, <1>6, <1>7, <1>8 DEF LabelNext, LabelerStep
<1> QED BY <1>1, <1>8 DEF Next, vars, apiLeaves, classifierLeaves, labelVars

-----------------------------------------------------------------------------
(* A row that says applied is true of the mailbox *)

LEMMA AppliedInvNext == AppliedInv /\ [Next]_vars => AppliedInv'
<1> SUFFICES ASSUME AppliedInv, [Next]_vars PROVE AppliedInv'
  OBVIOUS
<1> USE DEF AppliedInv
<1>1. TypeInv'
  BY TypeInvNext
<1>2. AppliedIsReal'
  <2> SUFFICES ASSUME NEW k \in DOMAIN emailMessages',
                      emailMessages'[k].status = "applied"
               PROVE  /\ emailMessages'[k].applied \in mailbox'[k[2]].labels
                      /\ ~mailbox'[k[2]].inbox
    BY DEF AppliedIsReal
  <2>1. k[2] \in Messages
    BY <1>1 DEF TypeInv, TypeOK, StorageTypeOK, MessageKeys
  <2>2. CASE k \in DOMAIN emailMessages /\ emailMessages'[k] = emailMessages[k]
    BY <2>1, <2>2, MailboxGrows DEF AppliedIsReal
  <2>3. ASSUME NEW t \in Labelers, Doing(t, "mark"),
               k[2] = labelling[t].event.msg,
               emailMessages'[k].applied = labelling[t].event.label
        PROVE  /\ emailMessages'[k].applied \in mailbox'[k[2]].labels
               /\ ~mailbox'[k[2]].inbox
    BY <2>1, <2>3, MailboxGrows DEF ModifiedBeforeMark, Modified, Doing
  <2> QED BY <2>2, <2>3, RowChange
<1>3. ModifiedBeforeMark'
  <2> SUFFICES ASSUME NEW t \in DOMAIN labelling', labelling'[t].pc = "mark"
               PROVE  Modified(labelling[t].event)'
    BY DEF ModifiedBeforeMark
  <2> DEFINE e == labelling[t].event
  <2>1. t \in DOMAIN labelling /\ labelling'[t].event = e
    BY MarkComesAfterModify
  <2>2. e.msg \in Messages
    BY <2>1, JobEvent DEF TypeInv, TypeOK
  <2>3. CASE labelling[t].pc = "mark"
    BY <2>1, <2>2, <2>3, MailboxGrows DEF ModifiedBeforeMark, Modified
  <2>4. CASE ModifyMessage(t)
    BY <2>1, <2>2, <2>4 DEF ModifyMessage, ApplyLabelToMessage, Modified,
       TypeInv, TypeOK, GmailTypeOK
  <2> QED BY <2>3, <2>4, MarkComesAfterModify
<1> QED BY <1>1, <1>2, <1>3

\* Whatever is redelivered, rescanned or edited, a row that says applied names
\* a label that the message carries, and the message has left the inbox.
THEOREM AppliedAlwaysReal == Spec => []AppliedIsReal
<1>1. Init => AppliedInv
  <2> SUFFICES ASSUME Init PROVE AppliedInv
    OBVIOUS
  <2>1. AppliedIsReal /\ ModifiedBeforeMark
    BY DEF Init, StorageInit, LabelInit, AppliedIsReal, ModifiedBeforeMark
  <2> QED BY <2>1, TypeInvInit DEF AppliedInv
<1>2. AppliedInv => AppliedIsReal
  BY DEF AppliedInv
<1> QED BY <1>1, <1>2, AppliedInvNext, PTL DEF Spec

-----------------------------------------------------------------------------
(* Only an apply run that published the message touches it *)

\* Run r is an apply run that was handed message g.
Asked(r, g) == g \in handed[r] /\ request[r].mode = "apply"

RawOnBehalf ==
  \A e \in RawEvent : rawQueue[e] > 0 => e.msg \in handed[e.run]

ClassifyingOnBehalf ==
  \A w \in DOMAIN classifying :
    LET e == classifying[w].event IN
    /\ e.msg \in handed[e.run]
    /\ classifying[w].pc = "publish" => request[e.run].mode = "apply"

ClassifiedOnBehalf ==
  \A e \in ClassifiedEvent : classifiedQueue[e] > 0 => Asked(e.run, e.msg)

LabellingOnBehalf ==
  \A t \in DOMAIN labelling :
    LET e == labelling[t].event IN
    /\ Asked(e.run, e.msg)
    /\ labelling[t].pc = "modify" => e.label \in mailboxLabels

OnBehalf ==
  RawOnBehalf /\ ClassifyingOnBehalf /\ ClassifiedOnBehalf /\ LabellingOnBehalf

MailboxInv == TypeInv /\ OnBehalf /\ MailboxOnlyByApply

\* Requests are fixed; what was handed out or created stays so.
LEMMA NothingIsTakenBack ==
  ASSUME TypeInv, [Next]_vars
  PROVE  /\ request' = request
         /\ \A r \in Runs : handed[r] \subseteq handed'[r]
         /\ mailboxLabels \subseteq mailboxLabels'
<1>1. ScanApiNext => request' = request
  BY DEF ScanApiNext, EnqueueStep, StartScan, StartScanReplyLost, ListPage,
     PublishNext, UpdateProgress, FailRun, CompleteRun, ListPageFails,
     UpdateProgressFails, CompletionLost, GetScanRun, GetScanCounts,
     ApiConnBreaks, ApiConnCloses, ApiRestart, brokerVars
<1>2. ScanApiNext => \A r \in Runs : handed[r] \subseteq handed'[r]
  <2>1. ASSUME NEW q \in Runs, PublishNext(q)
        PROVE  \A r \in Runs : handed[r] \subseteq handed'[r]
    BY <2>1 DEF PublishNext, TypeInv, TypeOK, ScanApiTypeOK
  <2>2. ScanApiNext => (\E q \in Runs : PublishNext(q)) \/ UNCHANGED handed
    BY DEF ScanApiNext, EnqueueStep, StartScan, StartScanReplyLost, ListPage,
       UpdateProgress, FailRun, CompleteRun, ListPageFails,
       UpdateProgressFails, CompletionLost, GetScanRun, GetScanCounts,
       ApiConnBreaks, ApiConnCloses, ApiRestart, scanApiVars
  <2> QED BY <2>1, <2>2
<1>3. ClassifierNext => request' = request
  BY DEF ClassifierNext, ClassifierStep, ReceiveRaw, LoadRules, Upsert,
     PublishClassified, AckRaw, AbandonRaw, RestartClassifier, ClassifyFails,
     LoseClassifierConnection, CrashClassifier, brokerVars
<1>4. LabelNext => request' = request /\ mailboxLabels \subseteq mailboxLabels'
  BY DEF LabelNext, LabelerStep, ReceiveClassified, ListLabels,
     EnsureLabelCreates, Apply, MarkApplied, AckClassified, AbandonClassified,
     TransientFailure, CallEffect, PermanentFailure, LoseLabelConnection,
     RestartLabelWorker, CrashLabelWorker, CreateLabel, brokerVars, gmailVars
<1> QED BY <1>1, <1>2, <1>3, <1>4
          DEF Next, vars, apiLeaves, classifierLeaves, labelLeaves, brokerVars,
              scanApiVars, gmailVars

\* Where a waiting raw event comes from.
LEMMA RawQueueChange ==
  ASSUME TypeInv, [Next]_vars, NEW e \in RawEvent, rawQueue'[e] > 0
  PROVE  \/ rawQueue[e] > 0
         \/ \E w \in DOMAIN classifying : classifying[w].event = e
         \/ e.msg \in handed'[e.run]
<1> DEFINE Claim == \/ rawQueue[e] > 0
                    \/ \E w \in DOMAIN classifying : classifying[w].event = e
                    \/ e.msg \in handed'[e.run]
<1> USE DEF TypeInv, TypeOK, BrokerTypeOK
<1>1. CASE UNCHANGED rawQueue
  BY <1>1
<1>2. ASSUME NEW r \in Runs, PublishNext(r)
      PROVE  Claim
  <2> DEFINE g == Head(enqueue[r].todo)
  <2>1. e.run \in Runs
    BY DEF RawEvent
  <2>2. CASE e = [run |-> r, msg |-> g] /\ apiConn = "up"
    BY <1>2, <2>2 DEF PublishNext, ScanApiTypeOK
  <2>3. CASE e # [run |-> r, msg |-> g] \/ apiConn # "up"
    BY <1>2, <2>3 DEF PublishNext, PublishRawEmail
  <2> QED BY <2>2, <2>3
<1>3. ASSUME NEW w \in Classifiers, RequeueRaw(w)
      PROVE  Claim
  BY <1>3 DEF RequeueRaw, PublishRawEmail
<1>4. ASSUME NEW w \in Classifiers, NEW f \in RawEvent, ReceiveRaw(w, f)
      PROVE  Claim
  BY <1>4 DEF ReceiveRaw, DeliverRaw, StaleRaw
<1>5. ScanApiNext => (\E r \in Runs : PublishNext(r)) \/ UNCHANGED rawQueue
  BY DEF ScanApiNext, EnqueueStep, StartScan, StartScanReplyLost, ListPage,
     UpdateProgress, FailRun, CompleteRun, ListPageFails, UpdateProgressFails,
     CompletionLost, GetScanRun, GetScanCounts, ApiConnBreaks, ApiConnCloses,
     ApiRestart, brokerVars, queueVars
<1>6. ClassifierNext => \E w \in Classifiers :
                           \/ RequeueRaw(w) \/ UNCHANGED rawQueue
                           \/ \E f \in RawEvent : ReceiveRaw(w, f)
  BY DEF ClassifierNext, ClassifierStep, LoadRules, Upsert,
     PublishClassified, AckRaw, AbandonRaw, RestartClassifier, ClassifyFails,
     LoseClassifierConnection, CrashClassifier, brokerVars, queueVars
<1>7. LabelNext => UNCHANGED rawQueue
  BY DEF LabelNext, LabelerStep, ReceiveClassified, ListLabels,
     EnsureLabelCreates, Apply, MarkApplied, AckClassified, AbandonClassified,
     TransientFailure, PermanentFailure, LoseLabelConnection,
     RestartLabelWorker, CrashLabelWorker, brokerVars, queueVars
<1> QED BY <1>1, <1>2, <1>3, <1>4, <1>5, <1>6, <1>7
          DEF Next, vars, brokerVars, queueVars

\* A classifier worker's event was waiting before, or is the one it had; it
\* only gets to its publish call for an apply run whose row it has written.
LEMMA ClassifyingChange ==
  ASSUME TypeInv, [Next]_vars, NEW w \in DOMAIN classifying'
  PROVE  LET e == classifying'[w].event IN
         \/ /\ w \in DOMAIN classifying
            /\ classifying[w].event = e
            /\ classifying'[w].pc = "publish" =>
                 \/ classifying[w].pc = "publish"
                 \/ /\ request[e.run].mode = "apply"
                    /\ KeyOf(e) \in DOMAIN emailMessages'
         \/ /\ e \in RawEvent /\ rawQueue[e] > 0
            /\ classifying'[w].pc # "publish"
<1> DEFINE e == classifying'[w].event
           Claim == \/ /\ w \in DOMAIN classifying
                       /\ classifying[w].event = e
                       /\ classifying'[w].pc = "publish" =>
                            \/ classifying[w].pc = "publish"
                            \/ /\ request[e.run].mode = "apply"
                               /\ KeyOf(e) \in DOMAIN emailMessages'
                    \/ /\ e \in RawEvent /\ rawQueue[e] > 0
                       /\ classifying'[w].pc # "publish"
<1> USE DEF TypeInv, TypeOK, ClassifierTypeOK
<1>1. CASE UNCHANGED classifying
  BY <1>1
<1>2. ASSUME NEW v \in Classifiers, EndHandling(v)
      PROVE  Claim
  BY <1>2 DEF EndHandling, Without
<1>3. ASSUME NEW v \in Classifiers, NEW f \in RawEvent, ReceiveRaw(v, f)
      PROVE  Claim
  BY <1>3 DEF ReceiveRaw, DeliverRaw, StaleRaw, With
<1>4. ASSUME NEW v \in Classifiers, LoadRules(v)
      PROVE  Claim
  BY <1>4 DEF LoadRules, At, Handling
<1>5. ASSUME NEW v \in Classifiers, Upsert(v)
      PROVE  Claim
  <2>1. v \in DOMAIN classifying /\ classifying[v] \in Handling
    BY <1>5 DEF Upsert, At
  <2>2. CASE v = w
    <3>1. KeyOf(classifying[w].event) \in DOMAIN emailMessages'
      BY <1>5, <2>2
         DEF Upsert, RecordClassification, UpsertEmailMessage, With
    <3>2. classifying'[w].event = classifying[w].event
      BY <1>5, <2>1, <2>2 DEF Upsert, Handling
    <3> QED BY <1>5, <2>1, <2>2, <3>1, <3>2 DEF Upsert, Handling
  <2>3. CASE v # w
    BY <1>5, <2>1, <2>3 DEF Upsert
  <2> QED BY <2>2, <2>3
<1>6. ASSUME NEW v \in Classifiers, PublishClassified(v)
      PROVE  Claim
  BY <1>6 DEF PublishClassified, At, Handling
<1>7. ClassifierNext => \E v \in Classifiers :
                           \/ UNCHANGED classifying
                           \/ EndHandling(v)
                           \/ \E f \in RawEvent : ReceiveRaw(v, f)
                           \/ LoadRules(v) \/ Upsert(v) \/ PublishClassified(v)
  BY DEF ClassifierNext, ClassifierStep, AckRaw, AbandonRaw,
     RestartClassifier, ClassifyFails, LoseClassifierConnection,
     CrashClassifier
<1> QED BY <1>1, <1>2, <1>3, <1>4, <1>5, <1>6, <1>7
          DEF Next, vars, apiLeaves, labelLeaves, classifierVars

\* Where a waiting classified event comes from.
LEMMA ClassifiedQueueChange ==
  ASSUME TypeInv, [Next]_vars,
         NEW e \in ClassifiedEvent, classifiedQueue'[e] > 0
  PROVE  \/ classifiedQueue[e] > 0
         \/ \E t \in DOMAIN labelling : labelling[t].event = e
         \/ \E w \in DOMAIN classifying :
              /\ classifying[w].pc = "publish"
              /\ classifying[w].event.run = e.run
              /\ classifying[w].event.msg = e.msg
<1> DEFINE Claim == \/ classifiedQueue[e] > 0
                    \/ \E t \in DOMAIN labelling : labelling[t].event = e
                    \/ \E w \in DOMAIN classifying :
                         /\ classifying[w].pc = "publish"
                         /\ classifying[w].event.run = e.run
                         /\ classifying[w].event.msg = e.msg
<1> USE DEF TypeInv, TypeOK, BrokerTypeOK
<1>1. CASE UNCHANGED classifiedQueue
  BY <1>1
<1>2. ASSUME NEW w \in Classifiers, PublishClassified(w)
      PROVE  Claim
  <2> DEFINE f == [run |-> classifying[w].event.run,
                   msg |-> classifying[w].event.msg,
                   label |-> classifying[w].label]
  <2>1. classifiedQueue' = [classifiedQueue EXCEPT ![f] = @ + 1]
    BY <1>2 DEF PublishClassified, PublishClassifiedEmail
  <2>2. CASE e = f
    BY <1>2, <2>2 DEF PublishClassified, At
  <2>3. CASE e # f
    <3> HIDE DEF f
    <3> QED BY <2>1, <2>3
  <2> QED BY <2>2, <2>3
<1>3. ASSUME NEW t \in Labelers, NEW f \in ClassifiedEvent,
             ReceiveClassified(t, f)
      PROVE  Claim
  BY <1>3 DEF ReceiveClassified, DeliverClassified, StaleClassified
<1>4. ASSUME NEW t \in Labelers, TransientFailure(t)
      PROVE  Claim
  <2>1. t \in DOMAIN labelling
    BY <1>4 DEF TransientFailure, CallEffect, InCall, Doing
  <2> QED BY <1>4, <2>1 DEF TransientFailure, Requeue, PublishClassifiedEmail
<1>5. CASE RequeueHeld
  <2>1. ASSUME ~\E t \in DOMAIN labelling : labelling[t].event = e
        PROVE  Held(e) = 0
    <3>1. {t \in DOMAIN labelling : labelling[t].event = e} = {}
      BY <2>1
    <3> QED BY <3>1, FS_EmptySet DEF Held
  <2> QED BY <1>5, <2>1 DEF RequeueHeld
<1>6. ClassifierNext => (\E w \in Classifiers : PublishClassified(w))
                          \/ UNCHANGED classifiedQueue
  BY DEF ClassifierNext, ClassifierStep, ReceiveRaw, LoadRules, Upsert,
     AckRaw, AbandonRaw, RestartClassifier, ClassifyFails,
     LoseClassifierConnection, CrashClassifier, brokerVars, queueVars
<1>7. LabelNext => \/ UNCHANGED classifiedQueue
                   \/ RequeueHeld
                   \/ \E t \in Labelers : TransientFailure(t)
                   \/ \E t \in Labelers, f \in ClassifiedEvent :
                        ReceiveClassified(t, f)
  BY DEF LabelNext, LabelerStep, ListLabels, EnsureLabelCreates, Apply,
     MarkApplied, AckClassified, AbandonClassified, PermanentFailure,
     LoseLabelConnection, RestartLabelWorker, CrashLabelWorker, brokerVars,
     queueVars
<1>8. ScanApiNext => UNCHANGED classifiedQueue
  BY DEF ScanApiNext, EnqueueStep, StartScan, StartScanReplyLost, ListPage,
     PublishNext, UpdateProgress, FailRun, CompleteRun, ListPageFails,
     UpdateProgressFails, CompletionLost, GetScanRun, GetScanCounts,
     ApiConnBreaks, ApiConnCloses, ApiRestart, brokerVars, queueVars
<1> QED BY <1>1, <1>2, <1>3, <1>4, <1>5, <1>6, <1>7, <1>8
          DEF Next, vars, brokerVars, queueVars

\* A goroutine's event was waiting before, or is the one it had; it only gets
\* to its modify call when the label exists.
LEMMA LabellingChange ==
  ASSUME TypeInv, [Next]_vars, NEW t \in DOMAIN labelling'
  PROVE  LET e == labelling'[t].event IN
         \/ /\ t \in DOMAIN labelling
            /\ labelling[t].event = e
            /\ labelling'[t].pc = "modify" =>
                 labelling[t].pc = "modify" \/ e.label \in mailboxLabels'
         \/ /\ e \in ClassifiedEvent /\ classifiedQueue[e] > 0
            /\ labelling'[t].pc # "modify"
<1> DEFINE e == labelling'[t].event
           Claim == \/ /\ t \in DOMAIN labelling
                       /\ labelling[t].event = e
                       /\ labelling'[t].pc = "modify" =>
                            \/ labelling[t].pc = "modify"
                            \/ e.label \in mailboxLabels'
                    \/ /\ e \in ClassifiedEvent /\ classifiedQueue[e] > 0
                       /\ labelling'[t].pc # "modify"
<1> USE DEF TypeInv, TypeOK, LabelTypeOK
<1>1. CASE UNCHANGED labelling
  BY <1>1
<1>2. ASSUME NEW s, EndJob(s)
      PROVE  Claim
  BY <1>2 DEF EndJob, Without
<1>3. ASSUME NEW s \in Labelers, NEW f \in ClassifiedEvent,
             ReceiveClassified(s, f)
      PROVE  Claim
  BY <1>3 DEF ReceiveClassified, DeliverClassified, StaleClassified, With
<1>4. ASSUME NEW s \in DOMAIN labelling, NEW pc, GoTo(s, pc),
             pc = "modify" => labelling[s].event.label \in mailboxLabels'
      PROVE  Claim
  <2>1. labelling[s] \in Job /\ labelling[t] \in Job
    BY <1>4 DEF GoTo
  <2> QED BY <1>4, <2>1 DEF GoTo, Job
<1>5. ASSUME NEW s \in Labelers,
             \/ ListLabels(s) \/ EnsureLabelCreates(s) \/ Apply(s)
             \/ MarkApplied(s)
      PROVE  Claim
  <2>1. s \in DOMAIN labelling
    BY <1>5 DEF ListLabels, EnsureLabelCreates, Apply, MarkApplied, Doing
  <2>2. CASE ListLabels(s)
    BY <1>4, <2>1, <2>2 DEF ListLabels, gmailVars
  <2>3. CASE EnsureLabelCreates(s)
    BY <1>2, <1>4, <2>1, <2>3 DEF EnsureLabelCreates, Drop, CreateLabel
  <2>4. CASE Apply(s)
    BY <1>4, <2>1, <2>4 DEF Apply
  <2>5. CASE MarkApplied(s)
    BY <1>2, <1>4, <2>1, <2>5 DEF MarkApplied, Drop
  <2> QED BY <1>5, <2>2, <2>3, <2>4, <2>5
<1>6. ASSUME NEW s \in Labelers,
             \/ AckClassified(s) \/ AbandonClassified(s)
             \/ TransientFailure(s) \/ PermanentFailure(s)
      PROVE  Claim
  BY <1>2, <1>6 DEF AckClassified, AbandonClassified, TransientFailure,
     PermanentFailure, Requeue, Drop
<1>7. CASE LoseLabelConnection \/ RestartLabelWorker \/ CrashLabelWorker
  BY <1>1, <1>7 DEF LoseLabelConnection, RestartLabelWorker, CrashLabelWorker
<1>8. CASE LabelNext
  BY <1>3, <1>5, <1>6, <1>7, <1>8 DEF LabelNext, LabelerStep
<1> QED BY <1>1, <1>8 DEF Next, vars, apiLeaves, classifierLeaves, labelVars

LEMMA OnBehalfNext ==
  ASSUME TypeInv, OnBehalf, [Next]_vars
  PROVE  OnBehalf'
<1> USE DEF OnBehalf
<1>1. TypeInv'
  BY TypeInvNext
<1>2. \A e : e.run \in Runs => /\ handed[e.run] \subseteq handed'[e.run]
                               /\ request'[e.run] = request[e.run]
  BY NothingIsTakenBack
<1>3. RawOnBehalf'
  <2> SUFFICES ASSUME NEW e \in RawEvent, rawQueue'[e] > 0
               PROVE  e.msg \in handed'[e.run]
    BY DEF RawOnBehalf
  <2>1. e.run \in Runs
    BY DEF RawEvent
  <2> QED BY <1>2, <2>1, RawQueueChange DEF RawOnBehalf, ClassifyingOnBehalf
<1>4. ClassifyingOnBehalf'
  <2> SUFFICES ASSUME NEW w \in DOMAIN classifying'
               PROVE  LET e == classifying'[w].event IN
                      /\ e.msg \in handed'[e.run]
                      /\ classifying'[w].pc = "publish"
                           => request'[e.run].mode = "apply"
    BY DEF ClassifyingOnBehalf
  <2> DEFINE e == classifying'[w].event
  <2>1. e.run \in Runs
    BY <1>1 DEF TypeInv, TypeOK, ClassifierTypeOK, Handling, RawEvent
  <2> QED BY <1>2, <2>1, ClassifyingChange DEF RawOnBehalf, ClassifyingOnBehalf
<1>5. ClassifiedOnBehalf'
  <2> SUFFICES ASSUME NEW e \in ClassifiedEvent, classifiedQueue'[e] > 0
               PROVE  Asked(e.run, e.msg)'
    BY DEF ClassifiedOnBehalf
  <2>1. e.run \in Runs
    BY DEF ClassifiedEvent
  <2>2. Asked(e.run, e.msg)
    BY ClassifiedQueueChange
       DEF ClassifiedOnBehalf, LabellingOnBehalf, ClassifyingOnBehalf, Asked
  <2> QED BY <1>2, <2>1, <2>2 DEF Asked
<1>6. LabellingOnBehalf'
  <2> SUFFICES ASSUME NEW t \in DOMAIN labelling'
               PROVE  LET e == labelling'[t].event IN
                      /\ e.msg \in handed'[e.run]
                      /\ request'[e.run].mode = "apply"
                      /\ labelling'[t].pc = "modify"
                           => e.label \in mailboxLabels'
    BY DEF LabellingOnBehalf, Asked
  <2> DEFINE e == labelling'[t].event
  <2>1. e.run \in Runs
    BY <1>1 DEF TypeInv, TypeOK, LabelTypeOK, Job, ClassifiedEvent
  <2>2. Asked(e.run, e.msg)
    BY LabellingChange DEF ClassifiedOnBehalf, LabellingOnBehalf
  <2>3. labelling'[t].pc = "modify" => e.label \in mailboxLabels'
    BY LabellingChange, NothingIsTakenBack DEF LabellingOnBehalf
  <2> QED BY <1>2, <2>1, <2>2, <2>3 DEF Asked
<1> QED BY <1>3, <1>4, <1>5, <1>6

LEMMA MailboxInvNext == MailboxInv /\ [Next]_vars => MailboxInv'
<1> SUFFICES ASSUME MailboxInv, [Next]_vars PROVE MailboxInv'
  OBVIOUS
<1> USE DEF MailboxInv
<1>1. TypeInv' /\ OnBehalf'
  BY TypeInvNext, OnBehalfNext
<1>2. ASSUME NEW r \in Runs, NEW g \in Messages, Asked(r, g)
      PROVE  Asked(r, g)'
  BY <1>2, NothingIsTakenBack DEF Asked
<1>3. ASSUME UNCHANGED mailbox
      PROVE  MailboxOnlyByApply'
  BY <1>2, <1>3, NothingIsTakenBack DEF MailboxOnlyByApply, Asked
<1>4. ASSUME NEW t \in Labelers, Doing(t, "modify"), ModifyMessage(t)
      PROVE  MailboxOnlyByApply'
  <2>0. PICK e \in ClassifiedEvent : e = labelling[t].event
    BY <1>4, JobEvent DEF TypeInv, TypeOK, Doing
  <2>1. /\ e.run \in Runs /\ e.msg \in Messages
        /\ Asked(e.run, e.msg) /\ e.label \in mailboxLabels
    BY <1>4, <2>0 DEF OnBehalf, LabellingOnBehalf, Doing, ClassifiedEvent
  <2>2. Asked(e.run, e.msg)' /\ request' = request
    BY <1>2, <2>1, NothingIsTakenBack
  <2>3. /\ \A g \in Messages \ {e.msg} : mailbox'[g] = mailbox[g]
        /\ mailbox'[e.msg].labels = mailbox[e.msg].labels \cup {e.label}
        /\ mailbox'[e.msg].unread =
             (mailbox[e.msg].unread /\ ~request[e.run].markRead)
    BY <1>4, <2>0, <2>1
       DEF ModifyMessage, ApplyLabelToMessage, TypeInv, TypeOK, GmailTypeOK
  <2> SUFFICES ASSUME NEW g \in Messages
               PROVE  /\ mailbox'[g].labels \subseteq mailboxLabels'
                      /\ mailbox'[g].labels # {} \/ ~mailbox'[g].inbox
                           => \E r \in Runs : Asked(r, g)'
                      /\ ~mailbox'[g].unread
                           => \E r \in Runs :
                                Asked(r, g)' /\ request'[r].markRead
    BY DEF MailboxOnlyByApply, Asked
  <2>4. CASE g = e.msg
    <3>1. mailbox'[g].labels \subseteq mailboxLabels'
      BY <2>1, <2>3, <2>4, NothingIsTakenBack DEF MailboxOnlyByApply
    <3>2. CASE request[e.run].markRead
      BY <2>1, <2>2, <2>4, <3>1, <3>2
    <3>3. CASE ~request[e.run].markRead
      <4>1. mailbox'[g].unread = mailbox[g].unread
        BY <2>3, <2>4, <3>3 DEF TypeInv, TypeOK, GmailTypeOK, Mail
      <4>2. ~mailbox'[g].unread
              => \E r \in Runs : Asked(r, g)' /\ request'[r].markRead
        BY <1>2, <2>2, <4>1 DEF MailboxOnlyByApply, Asked
      <4> QED BY <2>1, <2>2, <2>4, <3>1, <4>2
    <3> QED BY <3>2, <3>3
  <2>5. CASE g # e.msg
    BY <1>2, <2>2, <2>3, <2>5, NothingIsTakenBack DEF MailboxOnlyByApply, Asked
  <2> QED BY <2>4, <2>5
<1>5. MailboxOnlyByApply'
  BY <1>3, <1>4, MailboxChange
<1> QED BY <1>1, <1>5

\* A message is labelled, archived or marked read only after a scan in apply
\* mode published it (and asked to mark read), and its labels all exist.
THEOREM MailboxTouchedOnlyByApply == Spec => []MailboxOnlyByApply
<1>1. Init => MailboxInv
  <2> SUFFICES ASSUME Init PROVE MailboxInv
    OBVIOUS
  <2>1. OnBehalf /\ MailboxOnlyByApply
    BY DEF Init, BrokerInit, ClassifierInit, LabelInit, GmailInit, OnBehalf,
       RawOnBehalf, ClassifyingOnBehalf, ClassifiedOnBehalf, LabellingOnBehalf,
       MailboxOnlyByApply
  <2> QED BY <2>1, TypeInvInit DEF MailboxInv
<1>2. MailboxInv => MailboxOnlyByApply
  BY DEF MailboxInv
<1> QED BY <1>1, <1>2, MailboxInvNext, PTL DEF Spec

=============================================================================
