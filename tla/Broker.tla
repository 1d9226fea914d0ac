------------------------------- MODULE Broker -------------------------------
(***************************************************************************)
(* internal/broker: the two durable RabbitMQ queues.  A queue maps every    *)
(* event to the number of copies of it that wait to be delivered.           *)
(*                                                                          *)
(* Order is left out on purpose: a requeued delivery goes back behind       *)
(* deliveries that were already prefetched (Qos 10) and the label worker    *)
(* handles several deliveries at once, so no consumer can rely on it.       *)
(* Deliveries that are prefetched but not yet started count as waiting, and *)
(* still do when their connection is lost: the broker has them back then,   *)
(* and the consumer has stale copies of some of what waits.                 *)
(*                                                                          *)
(* Every event of a scan carries the user, mode and mark_read the scan was  *)
(* requested with.  They never change, so an event of the model only names  *)
(* its run, and request holds the three for every run (chosen in the        *)
(* initial state, used from the moment the scan is started).                *)
(***************************************************************************)
EXTENDS Storage

CONSTANT Requests   \* the scan requests that callers and the scheduler make

ScanRequest == [user : Users, mode : Modes, markRead : BOOLEAN]

ASSUME RequestsAssumption == Requests \subseteq ScanRequest

VARIABLES
  request,          \* run -> the request it serves
  rawQueue,         \* email.raw
  classifiedQueue   \* email.classified

queueVars == <<rawQueue, classifiedQueue>>
brokerVars == <<request, queueVars>>

RawEvent == [run : Runs, msg : Messages]
ClassifiedEvent == [run : Runs, msg : Messages, label : Labels]

BrokerTypeOK ==
  /\ request \in [Runs -> Requests]
  /\ rawQueue \in [RawEvent -> Nat]
  /\ classifiedQueue \in [ClassifiedEvent -> Nat]

\* NewRabbitMQ declares both queues empty and durable.
BrokerInit ==
  /\ request \in [Runs -> Requests]
  /\ rawQueue = [e \in RawEvent |-> 0]
  /\ classifiedQueue = [e \in ClassifiedEvent |-> 0]

\* The email_messages key of an event's message.
KeyOf(e) == <<request[e.run].user, e.msg>>

\* Publish and Nack(requeue) both put one copy on the queue.
PublishRawEmail(e) == rawQueue' = [rawQueue EXCEPT ![e] = @ + 1]
PublishClassifiedEmail(e) ==
  classifiedQueue' = [classifiedQueue EXCEPT ![e] = @ + 1]

\* Mutant: delivers a copy that is not on the queue.
DeliverRawUnqueued(e) == rawQueue' = [rawQueue EXCEPT ![e] = @ - 1]

\* The broker hands one copy to a consumer and keeps it until it is acked.
DeliverRaw(e) ==
  /\ rawQueue[e] > 0
  /\ rawQueue' = [rawQueue EXCEPT ![e] = @ - 1]
DeliverClassified(e) ==
  /\ classifiedQueue[e] > 0
  /\ classifiedQueue' = [classifiedQueue EXCEPT ![e] = @ - 1]

\* A consumer starts on a copy it prefetched before its connection was lost.
StaleRaw(e) == rawQueue[e] > 0 /\ UNCHANGED rawQueue
StaleClassified(e) == classifiedQueue[e] > 0 /\ UNCHANGED classifiedQueue

=============================================================================
