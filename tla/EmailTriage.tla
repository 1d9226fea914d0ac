----------------------------- MODULE EmailTriage ----------------------------
(***************************************************************************)
(* The whole pipeline: the API process, the classifier workers and the      *)
(* label worker around the shared database, the two queues and the mailbox. *)
(* A step is a step of one of the processes, or an edit of the rules.       *)
(***************************************************************************)
EXTENDS ScanApi, ClassifierWorker, LabelWorker

vars == <<storageVars, brokerVars, faults, scanApiVars, gmailVars,
          classifierVars, labelVars>>

TypeOK ==
  /\ StorageTypeOK
  /\ BrokerTypeOK
  /\ FaultsTypeOK
  /\ ScanApiTypeOK
  /\ GmailTypeOK
  /\ ClassifierTypeOK
  /\ LabelTypeOK

Init ==
  /\ StorageInit
  /\ BrokerInit
  /\ FaultsInit
  /\ ScanApiInit
  /\ GmailInit
  /\ ClassifierInit
  /\ LabelInit

\* What a step of one process leaves to the others.
apiLeaves == <<gmailVars, classifierVars, labelVars>>
classifierLeaves == <<scanApiVars, gmailVars, labelVars>>
labelLeaves == <<scanApiVars, classifierVars>>

Next ==
  \/ ScanApiNext /\ UNCHANGED apiLeaves
  \/ ClassifierNext /\ UNCHANGED classifierLeaves
  \/ LabelNext /\ UNCHANGED labelLeaves
  \/ /\ EditRules
     /\ UNCHANGED <<brokerVars, faults, scanApiVars, gmailVars,
                    classifierVars, labelVars>>

Spec == Init /\ [][Next]_vars

\* Goroutines and worker processes keep running, and Docker restarts a worker
\* that exits.  Nobody has to start a scan, edit a rule or cause a failure.
Fairness ==
  /\ \A r \in Runs : WF_vars(EnqueueStep(r) /\ UNCHANGED apiLeaves)
  /\ \A w \in Classifiers :
       WF_vars(ClassifierStep(w) /\ UNCHANGED classifierLeaves)
  /\ \A t \in Labelers : WF_vars(LabelerStep(t) /\ UNCHANGED labelLeaves)
  /\ WF_vars(RestartLabelWorker /\ UNCHANGED labelLeaves)

FairSpec == Spec /\ Fairness

-----------------------------------------------------------------------------
(* Where a message is *)

\* A raw event that still has to be worked on, and a classified one: queued,
\* or held by a connected consumer that is not about to acknowledge it.
RawOpen(e) ==
  \/ rawQueue[e] > 0
  \/ \E w \in DOMAIN classifying :
       /\ classifying[w].event = e
       /\ classifying[w].pc # "ack"
       /\ classifierConn[w]

ClassifiedOpen(e) ==
  \/ classifiedQueue[e] > 0
  \/ \E t \in DOMAIN labelling :
       /\ labelling[t].event = e
       /\ labelling[t].pc # "ack"
       /\ labelConn

\* An open event that will bring message k to the label worker, or that will
\* mark it.
PendingRaw(k) ==
  \E e \in RawEvent :
    KeyOf(e) = k /\ request[e.run].mode = "apply" /\ RawOpen(e)

PendingClassified(k) ==
  \E e \in ClassifiedEvent : KeyOf(e) = k /\ ClassifiedOpen(e)

\* Nothing is queued and nobody is working.
Drained ==
  /\ \A r \in Runs : ~Active(r)
  /\ \A e \in RawEvent : rawQueue[e] = 0
  /\ \A e \in ClassifiedEvent : classifiedQueue[e] = 0
  /\ DOMAIN classifying = {}
  /\ DOMAIN labelling = {}

Classified(k) ==
  k \in DOMAIN emailMessages /\ emailMessages[k].status = "classified"

Finished(r) == r \in DOMAIN scanRuns /\ scanRuns[r].status \in FinishedStatuses

\* The messages whose row run r owns.
RecordedFor(r) ==
  {k[2] : k \in {x \in DOMAIN emailMessages : emailMessages[x].run = r}}

-----------------------------------------------------------------------------
(* Safety *)

\* A row that says applied (MarkEmailLabelApplied) is true of the mailbox:
\* the message carries that very label and has left the inbox.  It holds
\* across redeliveries, rescans and rule changes that race the label worker.
AppliedIsReal ==
  \A k \in DOMAIN emailMessages :
    LET row == emailMessages[k] IN
    row.status = "applied" =>
      /\ row.applied \in mailbox[k[2]].labels
      /\ ~mailbox[k[2]].inbox

\* The mailbox is only touched on behalf of a scan that was started in apply
\* mode and that published the message, and a message is only marked read
\* for a scan that asked for it; every label on a message exists.
MailboxOnlyByApply ==
  \A g \in Messages :
    LET asked(r) == g \in handed[r] /\ request[r].mode = "apply" IN
    /\ mailbox[g].labels \subseteq mailboxLabels
    /\ mailbox[g].labels # {} \/ ~mailbox[g].inbox => \E r \in Runs : asked(r)
    /\ ~mailbox[g].unread => \E r \in Runs : asked(r) /\ request[r].markRead

\* A message recorded as classified in apply mode is never forgotten: an
\* event that will bring it to the label worker, or to the row's final
\* state, is still queued or in a connected worker's hands, unless the label
\* worker dropped it.  At-least-once delivery over every crash, Nack and lost
\* connection between UpsertEmailMessage, PublishClassifiedEmail and Ack.
NoSilentLoss ==
  \A k \in MessageKeys :
    Classified(k) => PendingRaw(k) \/ PendingClassified(k) \/ k \in dropped

\* The same for any number of classifier workers, where a worker that lost
\* its connection can overwrite a row after another one finished the event:
\* then the row may stay "classified", but only while its message is still
\* on its way to the label worker or has already been labelled and archived.
MailNeverForgotten ==
  \A k \in MessageKeys :
    Classified(k) =>
      \/ PendingRaw(k) \/ PendingClassified(k) \/ k \in dropped
      \/ ~mailbox[k[2]].inbox

\* A classified event never runs ahead of its row: MarkEmailLabelApplied
\* cannot answer ErrEmailMessageNotFound (which would drop the event).
RowBeforeEvent ==
  /\ \A e \in ClassifiedEvent :
       classifiedQueue[e] > 0 => KeyOf(e) \in DOMAIN emailMessages
  /\ \A t \in DOMAIN labelling :
       KeyOf(labelling[t].event) \in DOMAIN emailMessages

\* The counters of a scan_runs row balance in every state a reader can see,
\* also while the goroutine is in the middle of a page: every message found
\* is processed, failed or still in the batch.
CountersBalance ==
  /\ \A r \in DOMAIN scanRuns :
       scanRuns[r].found = scanRuns[r].processed + scanRuns[r].failed
  /\ \A r \in Runs :
       enqueue[r].found =
         enqueue[r].processed + enqueue[r].failed + Len(enqueue[r].todo)

\* Goroutines that race to create a label lose messages (EnsureLabelCreates),
\* but without failures at most one per label and other goroutine: nobody
\* starts to create a label that exists, and a loser drops one delivery.
FewLostToRace ==
  faults = 0 =>
    Cardinality(dropped) <=
      Cardinality(mailboxLabels) * (Cardinality(Labelers) - 1)

\* A scan is abandoned in "enqueuing" only by a failure: otherwise its
\* goroutine is at work or has written a finished status, whatever the pages
\* hold and whichever other scans run.
AbandonedOnlyByFailure ==
  faults = 0 => \A r \in DOMAIN scanRuns : Active(r) \/ Finished(r)

\* Without failures every message that an apply run recorded ends up labelled
\* once the system has come to rest.
LabelsGetApplied ==
  faults = 0 /\ Drained =>
    \A k \in MessageKeys : ~Classified(k)

-----------------------------------------------------------------------------
(* Action properties *)

\* A scan_runs row that reached a finished status is never written again,
\* whatever the goroutine, late progress updates or other scans do.
FinishedIsFinal ==
  [][\A r \in Runs : Finished(r) => scanRuns'[r] = scanRuns[r]]_vars

\* When getScan answers "complete" for a run it saw finished, every message
\* the run counted as processed has been classified for that run, although
\* the two statements of getScan see different snapshots, publishes can be
\* lost and the listing may name a message twice.
CompleteAnswersAreTrue ==
  [][\A c \in Readers :
       /\ c \in DOMAIN views /\ c \in DOMAIN views'
       /\ views[c].answer = "pending" /\ views'[c].answer = "complete"
       /\ views[c].row.status \in FinishedStatuses
       => handed[views[c].run] = RecordedFor(views[c].run)]_vars

\* What processingStatus says of a finished run.
Complete(r) ==
  /\ Finished(r)
  /\ ProcessingStatus(scanRuns[r], CountEmailMessagesByScanRun(r)) = "complete"

\* A row of run r goes to another run of the user that published the message.
Rescanned(r) ==
  \E k \in DOMAIN emailMessages, q \in Runs \ {r} :
    /\ emailMessages[k].run = r /\ emailMessages'[k].run = q
    /\ k[2] \in handed[q]
    /\ request[q].user = request[r].user

\* Only a rescan of one of its messages ends what a client was told of a
\* finished run: no redelivery, label, failure or scan of other messages does.
CompleteEndsByRescan ==
  [][\A r \in Runs : Complete(r) /\ ~Complete(r)' => Rescanned(r)]_vars

\* No consumer is done with an event before its work is: a raw event has a
\* row and, in apply mode, a classified event that is open; a classified
\* event has labelled and archived its message and marked the row, or was
\* dropped.  For any number of consumers that fail between any two calls.
EventsAreHandedOn ==
  [][/\ \A e \in RawEvent :
          RawOpen(e) /\ ~RawOpen(e)' =>
            /\ KeyOf(e) \in DOMAIN emailMessages'
            /\ request[e.run].mode = "apply" =>
                 \E f \in ClassifiedEvent :
                   f.run = e.run /\ f.msg = e.msg /\ ClassifiedOpen(f)'
     /\ \A f \in ClassifiedEvent :
          ClassifiedOpen(f) /\ ~ClassifiedOpen(f)' =>
            \/ KeyOf(f) \in dropped'
            \/ /\ emailMessages'[KeyOf(f)].status = "applied"
               /\ emailMessages'[KeyOf(f)].applied = f.label
               /\ f.label \in mailbox'[f.msg].labels
               /\ ~mailbox'[f.msg].inbox]_vars

\* The pipeline implements MessageLedger: every write to the table or the
\* mailbox, by whichever handler, redelivery, stale delivery or failed call,
\* is one step of the ledger for a message that its run has published.
Ledger == INSTANCE MessageLedger WITH offered <- handed, rows <- emailMessages

ImplementsLedger == Ledger!Spec

-----------------------------------------------------------------------------
(* Liveness, under Fairness *)

\* The goroutine of a scan returns (or dies with its process).
EnqueueReturns == \A r \in Runs : Active(r) ~> ~Active(r)

\* A raw event that reached the queue leads to a row for its message.
QueuedIsRecorded ==
  \A e \in RawEvent : rawQueue[e] > 0 ~> KeyOf(e) \in DOMAIN emailMessages

\* A message does not stay "classified" for ever: it is applied, becomes part
\* of another scan, or was dropped by the label worker.
ClassifiedIsSettled ==
  \A k \in MessageKeys : Classified(k) ~> (~Classified(k) \/ k \in dropped)

\* Whatever is redelivered, dropped or restarted, the work of a scan ends:
\* the queues become empty and the workers idle again and again.
KeepsDraining == []<>Drained

-----------------------------------------------------------------------------
(* What the documentation says and the code does not guarantee *)

\* docs/architecture.md, Scan Flow: the API "completes the run as queued or
\* queued_with_errors".  A run that was created leaves enqueuing eventually.
RunsGetFinished == \A r \in Runs : r \in DOMAIN scanRuns ~> Finished(r)

\* README: labels are applied "only in apply mode".  No message of a dry run
\* (the status counters of GET /scans/{id} count by owning run) is applied.
DryRunNeverApplied ==
  \A k \in DOMAIN emailMessages :
    request[emailMessages[k].run].mode = "dry_run" =>
      emailMessages[k].status # "applied"

\* README: "persisted scan history".  A finished run that getScan reports
\* as complete stays complete.
CompleteStaysComplete ==
  [][\A r \in Runs : Complete(r) => Complete(r)']_vars

=============================================================================
