----------------------------- MODULE LabelWorker ----------------------------
(***************************************************************************)
(* internal/consumer/label_worker.go: one process whose                     *)
(* LABEL_WORKER_CONCURRENCY goroutines take classified events from one      *)
(* channel, make sure the label exists, apply it to the message in Gmail    *)
(* and mark the row applied; then they acknowledge the delivery.            *)
(*                                                                          *)
(* A Gmail error is permanent (4xx but 429) or transient.  A permanent one  *)
(* drops the delivery: it is acknowledged although nothing was done.        *)
(* Anything else requeues it.  A lost connection is as in ClassifierWorker: *)
(* the broker requeues at once, handlers go on until they need the channel  *)
(* or see the cancelled context, and goroutines may start on what was       *)
(* prefetched.  How Run winds the goroutines up is LabelPool.               *)
(***************************************************************************)
EXTENDS Broker, Gmail, Faults

CONSTANT Labelers     \* the goroutines of the label worker

ASSUME LabelersAssumption == IsFiniteSet(Labelers)

VARIABLES
  labelConn,    \* the process's AMQP channel works
  labelling,    \* goroutine -> the delivery in its handler, if any
  dropped       \* history: messages of deliveries that were dropped

labelVars == <<labelConn, labelling, dropped>>

\* handleDelivery and processClassifiedEmail: the next call and the event.
Job == [pc : {"list", "create", "modify", "mark", "ack"},
        event : ClassifiedEvent]

LabelTypeOK ==
  /\ labelConn \in BOOLEAN
  /\ DOMAIN labelling \subseteq Labelers
  /\ labelling \in [DOMAIN labelling -> Job]
  /\ dropped \subseteq MessageKeys

LabelInit ==
  /\ labelConn = TRUE
  /\ labelling = [t \in {} |-> {}]
  /\ dropped = {}

Doing(t, pc) == t \in DOMAIN labelling /\ labelling[t].pc = pc

EndJob(t) == labelling' = Without(labelling, t)

GoTo(t, pc) == labelling' = [labelling EXCEPT ![t].pc = pc]

\* errDropDelivery: the handler acknowledges the delivery as if it were done.
\* On a dead channel the Ack fails and the broker has requeued the delivery.
Drop(t) ==
  /\ EndJob(t)
  /\ dropped' = IF labelConn
                  THEN dropped \cup {KeyOf(labelling[t].event)}
                  ELSE dropped

\* Mutant: Nack(false, false).
DiscardOnNack(t) == EndJob(t) /\ UNCHANGED classifiedQueue

\* Nack with requeue; without effect on a dead channel.
Requeue(t) ==
  /\ EndJob(t)
  /\ IF labelConn THEN PublishClassifiedEmail(labelling[t].event)
                  ELSE UNCHANGED classifiedQueue

-----------------------------------------------------------------------------

\* The body always unmarshals; an event of a dry run is acknowledged unread.
\* Without a connection it is a prefetched delivery, as in ReceiveRaw.
ReceiveClassified(t, e) ==
  /\ t \notin DOMAIN labelling
  /\ \/ labelConn /\ DeliverClassified(e) /\ UNCHANGED faults
     \/ ~labelConn /\ StaleClassified(e) /\ Fault
  /\ labelling' = With(labelling, t,
       [pc |-> IF request[e.run].mode = "apply" THEN "list" ELSE "ack",
        event |-> e])
  /\ UNCHANGED <<storageVars, gmailVars, request, rawQueue, labelConn, dropped>>

\* Mutant: an existing label means the message has it.
SkipModify(t) ==
  /\ Doing(t, "list")
  /\ GoTo(t, IF labelling[t].event.label \in mailboxLabels
               THEN "mark" ELSE "create")
  /\ UNCHANGED <<storageVars, gmailVars, brokerVars, labelConn, dropped,
                 faults>>

\* Mutant: EnsureLabel does not look for the label before it creates it.
CreateUnseen(t) ==
  /\ Doing(t, "list")
  /\ GoTo(t, "create")
  /\ UNCHANGED <<storageVars, gmailVars, brokerVars, labelConn, dropped,
                 faults>>

\* EnsureLabel, first call: is the label among the mailbox's labels?
ListLabels(t) ==
  /\ Doing(t, "list")
  /\ GoTo(t, IF labelling[t].event.label \in mailboxLabels
               THEN "modify" ELSE "create")
  /\ UNCHANGED <<storageVars, gmailVars, brokerVars, labelConn, dropped,
                 faults>>

\* Mutant: a conflict means that another goroutine did the work.
ConflictMeansDone(t) ==
  LET label == labelling[t].event.label IN
  /\ Doing(t, "create")
  /\ IF label \in mailboxLabels
       THEN GoTo(t, "mark") /\ UNCHANGED mailboxLabels
       ELSE CreateLabel(label) /\ GoTo(t, "modify")
  /\ UNCHANGED <<storageVars, mailbox, brokerVars, labelConn, dropped, faults>>

\* EnsureLabel, second call.  Gmail refuses a name that exists by now (409):
\* to IsPermanentError that is a permanent error.
EnsureLabelCreates(t) ==
  LET label == labelling[t].event.label IN
  /\ Doing(t, "create")
  /\ IF label \in mailboxLabels
       THEN Drop(t) /\ UNCHANGED mailboxLabels
       ELSE CreateLabel(label) /\ GoTo(t, "modify") /\ UNCHANGED dropped
  /\ UNCHANGED <<storageVars, mailbox, brokerVars, labelConn, faults>>

\* messages.modify: label added, INBOX and perhaps UNREAD removed.
ModifyMessage(t) ==
  LET e == labelling[t].event IN
  ApplyLabelToMessage(e.msg, e.label, request[e.run].markRead)

Apply(t) ==
  /\ Doing(t, "modify")
  /\ ModifyMessage(t)
  /\ GoTo(t, "mark")
  /\ UNCHANGED <<storageVars, mailboxLabels, brokerVars, labelConn, dropped,
                 faults>>

\* MarkEmailLabelApplied; ErrEmailMessageNotFound drops the delivery.
MarkApplied(t) ==
  LET e == labelling[t].event IN
  /\ Doing(t, "mark")
  /\ IF KeyOf(e) \in DOMAIN emailMessages
       THEN /\ MarkEmailLabelApplied(KeyOf(e), e.label)
            /\ GoTo(t, "ack")
            /\ UNCHANGED dropped
       ELSE Drop(t) /\ UNCHANGED emailMessages
  /\ UNCHANGED <<scanRuns, verdict, gmailVars, brokerVars, labelConn, faults>>

AckClassified(t) ==
  /\ Doing(t, "ack")
  /\ labelConn
  /\ EndJob(t)
  /\ UNCHANGED <<storageVars, gmailVars, brokerVars, labelConn, dropped,
                 faults>>

\* The call made in a handler's state takes effect.
CallEffect(t) ==
  LET e == labelling[t].event IN
  \/ /\ Doing(t, "create")
     /\ CreateLabel(e.label)
     /\ UNCHANGED <<mailbox, emailMessages>>
  \/ /\ Doing(t, "modify")
     /\ ModifyMessage(t)
     /\ UNCHANGED <<mailboxLabels, emailMessages>>
  \/ /\ Doing(t, "mark")
     /\ KeyOf(e) \in DOMAIN emailMessages
     /\ MarkEmailLabelApplied(KeyOf(e), e.label)
     /\ UNCHANGED gmailVars

InCall(t) ==
  Doing(t, "list") \/ Doing(t, "create") \/ Doing(t, "modify")
    \/ Doing(t, "mark")

\* A Gmail or database call failed with an error that is not permanent
\* (5xx, 429, timeout, cancelled context), perhaps after it took effect.
TransientFailure(t) ==
  /\ Fault
  /\ \/ CallEffect(t)
     \/ InCall(t) /\ UNCHANGED <<gmailVars, emailMessages>>
  /\ Requeue(t)
  /\ UNCHANGED <<scanRuns, verdict, request, rawQueue, labelConn, dropped>>

\* Gmail refused a call (the message is gone, the label is not allowed,
\* the token lost its scope).
PermanentFailure(t) ==
  /\ Fault
  /\ Doing(t, "list") \/ Doing(t, "create") \/ Doing(t, "modify")
  /\ Drop(t)
  /\ UNCHANGED <<storageVars, gmailVars, brokerVars, labelConn>>

-----------------------------------------------------------------------------
(* The connection and the process *)

\* Mutant: deliveries are acknowledged when they are received.
HeldNone(e) == 0

\* The copies of event e the broker gets back from the goroutines.
Held(e) == Cardinality({t \in DOMAIN labelling : labelling[t].event = e})

RequeueHeld ==
  IF labelConn
    THEN classifiedQueue' =
           [e \in ClassifiedEvent |-> classifiedQueue[e] + Held(e)]
    ELSE UNCHANGED classifiedQueue

LoseLabelConnection ==
  /\ Fault
  /\ labelConn
  /\ RequeueHeld
  /\ labelConn' = FALSE
  /\ UNCHANGED <<storageVars, gmailVars, request, rawQueue, labelling, dropped>>

\* On the dead channel a handler ends without Ack: at its Ack, or earlier
\* because another goroutine's failed Ack cancelled the context.
AbandonClassified(t) ==
  /\ t \in DOMAIN labelling
  /\ ~labelConn
  /\ EndJob(t)
  /\ UNCHANGED <<storageVars, gmailVars, brokerVars, labelConn, dropped,
                 faults>>

\* Mutant: the container is restarted on failure only (Run returns nil when
\* its delivery channel is closed).
NoRestart == FALSE /\ UNCHANGED labelVars

\* Run returns once every goroutine has; the process is started again.
RestartLabelWorker ==
  /\ ~labelConn
  /\ DOMAIN labelling = {}
  /\ labelConn' = TRUE
  /\ UNCHANGED <<storageVars, gmailVars, brokerVars, labelling, dropped,
                 faults>>

CrashLabelWorker ==
  /\ Fault
  /\ DOMAIN labelling # {}
  /\ RequeueHeld
  /\ labelling' = [t \in {} |-> {}]
  /\ labelConn' = TRUE
  /\ UNCHANGED <<storageVars, gmailVars, request, rawQueue, dropped>>

\* What a goroutine does by itself, failures apart.
LabelerStep(t) ==
  \/ \E e \in ClassifiedEvent : ReceiveClassified(t, e)
  \/ ListLabels(t)
  \/ EnsureLabelCreates(t)
  \/ Apply(t)
  \/ MarkApplied(t)
  \/ AckClassified(t)
  \/ AbandonClassified(t)

LabelNext ==
  \/ \E t \in Labelers :
       LabelerStep(t) \/ TransientFailure(t) \/ PermanentFailure(t)
  \/ LoseLabelConnection
  \/ RestartLabelWorker
  \/ CrashLabelWorker

=============================================================================
