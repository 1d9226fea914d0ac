--------------------------- MODULE ClassifierWorker -------------------------
(***************************************************************************)
(* internal/consumer/classifier_worker.go: a process that takes one raw     *)
(* event at a time, classifies the message with the rules of its user,      *)
(* records the result and, in apply mode, publishes a classified event;     *)
(* then it acknowledges the delivery.                                       *)
(*                                                                          *)
(* Publish and Ack travel on one channel and in that order, so the broker   *)
(* never sees the Ack of a delivery whose classified event it lost.         *)
(*                                                                          *)
(* When the connection is lost the broker requeues the delivery at once,    *)
(* but the handler does not know: it goes on until it needs the channel     *)
(* (its database calls still take effect), and the worker may even start on *)
(* a delivery that was prefetched before.  Then Run returns the error, the  *)
(* process exits and is started again (restart: unless-stopped).            *)
(***************************************************************************)
EXTENDS Broker, Faults

CONSTANT Classifiers    \* classifier worker processes

VARIABLES
  classifierConn,   \* worker -> its AMQP channel works
  classifying       \* worker -> the delivery in its handler, if any

classifierVars == <<classifierConn, classifying>>

\* handleDelivery and processRawEmail: the next call, the event and, from
\* "upsert" on, the label the classifier chose.
Handling ==
  [pc : {"load"}, event : RawEvent, label : {NoLabel}]
    \cup [pc : {"upsert", "publish", "ack"}, event : RawEvent, label : Labels]

ClassifierTypeOK ==
  /\ classifierConn \in [Classifiers -> BOOLEAN]
  /\ DOMAIN classifying \subseteq Classifiers
  /\ classifying \in [DOMAIN classifying -> Handling]

ClassifierInit ==
  /\ classifierConn = [w \in Classifiers |-> TRUE]
  /\ classifying = [w \in {} |-> {}]

At(w, pc) == w \in DOMAIN classifying /\ classifying[w].pc = pc

\* Mutant: the consumer acknowledges automatically.
AutoAck(w) == UNCHANGED rawQueue

\* The broker puts the worker's unacknowledged delivery back, if it still
\* has one: after a lost connection it already did.
RequeueRaw(w) ==
  IF w \in DOMAIN classifying /\ classifierConn[w]
    THEN PublishRawEmail(classifying[w].event)
    ELSE UNCHANGED rawQueue

\* The handler returns.
EndHandling(w) == classifying' = Without(classifying, w)

-----------------------------------------------------------------------------

\* The body always unmarshals: only enqueueScan writes to this queue.
\* Without a connection it can be a prefetched delivery that the broker has
\* already taken back (how many of them is bounded with the failures).
ReceiveRaw(w, e) ==
  /\ w \notin DOMAIN classifying
  /\ \/ classifierConn[w] /\ DeliverRaw(e) /\ UNCHANGED faults
     \/ ~classifierConn[w] /\ StaleRaw(e) /\ Fault
  /\ classifying' = With(classifying, w,
       [pc |-> "load", event |-> e, label |-> NoLabel])
  /\ UNCHANGED <<storageVars, request, classifiedQueue, classifierConn>>

\* ListEnabledUserRules, then Classify.
LoadRules(w) ==
  /\ At(w, "load")
  /\ classifying' = [classifying EXCEPT ![w] =
       [@ EXCEPT !.pc = "upsert",
                 !.label = verdict[KeyOf(classifying[w].event)]]]
  /\ UNCHANGED <<storageVars, brokerVars, classifierConn, faults>>

\* The statement that records the classification.
RecordClassification(w) ==
  LET e == classifying[w].event IN
  UpsertEmailMessage(e.run, KeyOf(e), classifying[w].label,
    IF request[e.run].mode = "dry_run" THEN "dry_run" ELSE "classified")

Upsert(w) ==
  /\ At(w, "upsert")
  /\ RecordClassification(w)
  /\ classifying' = [classifying EXCEPT ![w].pc =
       IF request[classifying[w].event.run].mode = "apply"
         THEN "publish" ELSE "ack"]
  /\ UNCHANGED <<scanRuns, verdict, brokerVars, classifierConn, faults>>

\* Mutant: published before the row is written.
PublishBeforeUpsert(w) ==
  /\ At(w, "upsert")
  /\ classifierConn[w]
  /\ PublishClassifiedEmail([run   |-> classifying[w].event.run,
                             msg   |-> classifying[w].event.msg,
                             label |-> classifying[w].label])
  /\ UNCHANGED <<storageVars, request, rawQueue, classifierVars, faults>>

PublishClassified(w) ==
  /\ At(w, "publish")
  /\ classifierConn[w]
  /\ PublishClassifiedEmail([run   |-> classifying[w].event.run,
                             msg   |-> classifying[w].event.msg,
                             label |-> classifying[w].label])
  /\ classifying' = [classifying EXCEPT ![w].pc = "ack"]
  /\ UNCHANGED <<storageVars, request, rawQueue, classifierConn, faults>>

AckRaw(w) ==
  /\ At(w, "ack")
  /\ classifierConn[w]
  /\ EndHandling(w)
  /\ UNCHANGED <<storageVars, brokerVars, classifierConn, faults>>

\* A database call returned an error, the upsert perhaps after it took
\* effect: Nack with requeue.
ClassifyFails(w) ==
  /\ Fault
  /\ \/ At(w, "load") /\ UNCHANGED emailMessages
     \/ At(w, "upsert") /\ (RecordClassification(w) \/ UNCHANGED emailMessages)
  /\ RequeueRaw(w)
  /\ EndHandling(w)
  /\ UNCHANGED <<scanRuns, verdict, request, classifiedQueue, classifierConn>>

-----------------------------------------------------------------------------
(* The connection and the process *)

LoseClassifierConnection(w) ==
  /\ Fault
  /\ classifierConn[w]
  /\ RequeueRaw(w)
  /\ classifierConn' = [classifierConn EXCEPT ![w] = FALSE]
  /\ UNCHANGED <<storageVars, request, classifiedQueue, classifying>>

\* Publish or Ack on the dead channel: no effect, the handler ends and Run
\* returns its error.
AbandonRaw(w) ==
  /\ At(w, "publish") \/ At(w, "ack")
  /\ ~classifierConn[w]
  /\ EndHandling(w)
  /\ UNCHANGED <<storageVars, brokerVars, classifierConn, faults>>

RestartClassifier(w) ==
  /\ ~classifierConn[w]
  /\ w \notin DOMAIN classifying
  /\ classifierConn' = [classifierConn EXCEPT ![w] = TRUE]
  /\ UNCHANGED <<storageVars, brokerVars, classifying, faults>>

\* The process is killed in the middle of a delivery and started again.
CrashClassifier(w) ==
  /\ Fault
  /\ w \in DOMAIN classifying
  /\ RequeueRaw(w)
  /\ EndHandling(w)
  /\ classifierConn' = [classifierConn EXCEPT ![w] = TRUE]
  /\ UNCHANGED <<storageVars, request, classifiedQueue>>

\* What a worker does by itself, failures apart.
ClassifierStep(w) ==
  \/ \E e \in RawEvent : ReceiveRaw(w, e)
  \/ LoadRules(w)
  \/ Upsert(w)
  \/ PublishClassified(w)
  \/ AckRaw(w)
  \/ AbandonRaw(w)
  \/ RestartClassifier(w)

ClassifierNext ==
  \E w \in Classifiers :
    \/ ClassifierStep(w)
    \/ ClassifyFails(w)
    \/ LoseClassifierConnection(w)
    \/ CrashClassifier(w)

=============================================================================
