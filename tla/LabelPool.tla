------------------------------ MODULE LabelPool ------------------------------
(***************************************************************************)
(* LabelWorker.Run (internal/consumer/label_worker.go): how the goroutines, *)
(* the contexts, errCh and doneCh start and stop around one AMQP consumer,  *)
(* and what becomes of the deliveries.  What a handler does in between is   *)
(* LabelWorker; here it ends with an Ack or a Nack at any time.             *)
(*                                                                          *)
(* The client library keeps prefetched deliveries in a buffer and hands     *)
(* them out one by one.  The buffer outlives the connection until the       *)
(* client notices, so goroutines may handle deliveries the broker has       *)
(* already taken back.                                                      *)
(***************************************************************************)
EXTENDS Naturals, FiniteSets

CONSTANTS
  Goroutines,    \* LABEL_WORKER_CONCURRENCY of them
  Deliveries,
  NoDelivery,    \* what an idle goroutine handles
  Prefetch       \* Qos

ASSUME PoolAssumption ==
  /\ IsFiniteSet(Goroutines) /\ Goroutines # {}
  /\ NoDelivery \notin Deliveries
  /\ Prefetch \in Nat \ {0}

VARIABLES
  ready,         \* deliveries in the queue
  settled,       \* deliveries acknowledged
  connected,     \* the broker still has the connection
  noticed,       \* the client knows that it has not
  consuming,     \* the client library accepts deliveries
  prefetched,    \* the library's buffer
  handling,      \* goroutine -> the delivery in handleDelivery
  gone,          \* goroutines that returned
  ctxDone,       \* SIGTERM or SIGINT: ctx is done
  cancelled,     \* runCtx is done
  errCh,         \* goroutines whose error is in errCh
  doneClosed,    \* doneCh is closed
  run,           \* where Run is: in its select, in <-doneCh, or returned
  returned,      \* goroutines whose error Run received (and returns)
  failed         \* history: goroutines whose handler returned an error

brokerSide == <<ready, settled, connected>>
library == <<noticed, consuming, prefetched>>
contexts == <<ctxDone, cancelled>>
channels == <<errCh, doneClosed>>
goroutineVars == <<handling, gone, failed>>
runVars == <<run, returned>>

vars == <<brokerSide, library, contexts, channels, goroutineVars, runVars>>

TypeOK ==
  /\ ready \subseteq Deliveries
  /\ settled \subseteq Deliveries
  /\ prefetched \subseteq Deliveries
  /\ handling \in [Goroutines -> Deliveries \cup {NoDelivery}]
  /\ connected \in BOOLEAN
  /\ noticed \in BOOLEAN
  /\ consuming \in BOOLEAN
  /\ ctxDone \in BOOLEAN
  /\ cancelled \in BOOLEAN
  /\ doneClosed \in BOOLEAN
  /\ gone \subseteq Goroutines
  /\ errCh \subseteq Goroutines
  /\ failed \subseteq Goroutines
  /\ returned \subseteq Goroutines
  /\ run \in {"select", "wait", "returned"}

Idle == [t \in Goroutines |-> NoDelivery]

Init ==
  /\ ready = Deliveries
  /\ settled = {}
  /\ connected = TRUE
  /\ noticed = FALSE
  /\ consuming = TRUE
  /\ prefetched = {}
  /\ handling = Idle
  /\ gone = {}
  /\ ctxDone = FALSE
  /\ cancelled = FALSE
  /\ errCh = {}
  /\ doneClosed = FALSE
  /\ run = "select"
  /\ returned = {}
  /\ failed = {}

-----------------------------------------------------------------------------
(* The broker and the client library *)

Handled == {handling[t] : t \in Goroutines} \ {NoDelivery}

\* RabbitMQ sends a delivery while fewer than Prefetch are unacknowledged.
Push(d) ==
  /\ connected /\ consuming
  /\ d \in ready
  /\ Cardinality(prefetched \cup Handled) < Prefetch
  /\ ready' = ready \ {d}
  /\ prefetched' = prefetched \cup {d}
  /\ UNCHANGED <<settled, connected, noticed, consuming, contexts, channels,
                 goroutineVars, runVars>>

\* ConsumeWithContext cancels the consumer when runCtx is done.  The buffer
\* is still handed out, then the deliveries channel is closed.
CancelConsumer ==
  /\ cancelled /\ consuming
  /\ consuming' = FALSE
  /\ UNCHANGED <<brokerSide, noticed, prefetched, contexts, channels,
                 goroutineVars, runVars>>

\* The broker takes everything back that is not acknowledged.
LoseConnection ==
  /\ connected
  /\ connected' = FALSE
  /\ ready' = Deliveries \ settled
  /\ UNCHANGED <<settled, library, contexts, channels, goroutineVars, runVars>>

NoticeLoss ==
  /\ ~connected /\ ~noticed
  /\ noticed' = TRUE
  /\ consuming' = FALSE
  /\ UNCHANGED <<brokerSide, prefetched, contexts, channels, goroutineVars,
                 runVars>>

\* After a lost connection the library drops the rest of its buffer.
DropBuffer ==
  /\ noticed
  /\ prefetched # {}
  /\ prefetched' = {}
  /\ UNCHANGED <<brokerSide, noticed, consuming, contexts, channels,
                 goroutineVars, runVars>>

DeliveriesClosed == ~consuming /\ prefetched = {}

-----------------------------------------------------------------------------
(* A goroutine *)

InSelect(t) == t \notin gone /\ handling[t] = NoDelivery

\* Mutant: the delivery is acknowledged before it is handled.
AckThenTake(t, d) ==
  /\ InSelect(t)
  /\ d \in prefetched
  /\ prefetched' = prefetched \ {d}
  /\ handling' = [handling EXCEPT ![t] = d]
  /\ settled' = IF connected THEN settled \cup {d} ELSE settled
  /\ UNCHANGED <<ready, connected, noticed, consuming, contexts, channels,
                 gone, failed, runVars>>

Take(t, d) ==
  /\ InSelect(t)
  /\ d \in prefetched
  /\ prefetched' = prefetched \ {d}
  /\ handling' = [handling EXCEPT ![t] = d]
  /\ UNCHANGED <<brokerSide, noticed, consuming, contexts, channels, gone,
                 failed, runVars>>

LeaveHandler(t) ==
  /\ handling[t] # NoDelivery
  /\ handling' = [handling EXCEPT ![t] = NoDelivery]

\* handleDelivery returns nil: the goroutine stays.
HandlerReturnsNil(t) ==
  /\ LeaveHandler(t)
  /\ UNCHANGED <<library, contexts, channels, gone, failed, runVars>>

\* Done, or dropped: Ack.
Acknowledge(t) ==
  /\ connected
  /\ HandlerReturnsNil(t)
  /\ settled' = settled \cup {handling[t]}
  /\ UNCHANGED <<ready, connected>>

\* Mutant: Nack(false, false).
NackDiscards(t) ==
  /\ connected
  /\ HandlerReturnsNil(t)
  /\ UNCHANGED brokerSide

\* An error: Nack(false, true).
NackRequeues(t) ==
  /\ connected
  /\ HandlerReturnsNil(t)
  /\ ready' = ready \cup {handling[t]}
  /\ UNCHANGED <<settled, connected>>

\* Before the client notices, an Ack or Nack to nobody succeeds.
AnswerNobody(t) ==
  /\ ~connected /\ ~noticed
  /\ HandlerReturnsNil(t)
  /\ UNCHANGED brokerSide

\* Mutant: errCh has room for one error.
ErrChHasRoomForOne == errCh = {}

ErrChHasRoom == Cardinality(errCh) < Cardinality(Goroutines)

\* Mutant: the error of the handler is returned although Nack succeeded.
HandlerFailsAnyTime(t) ==
  /\ LeaveHandler(t)
  /\ errCh' = IF ErrChHasRoom THEN errCh \cup {t} ELSE errCh
  /\ failed' = failed \cup {t}
  /\ cancelled' = TRUE
  /\ gone' = gone \cup {t}
  /\ UNCHANGED <<brokerSide, library, ctxDone, doneClosed, runVars>>

\* The Ack or Nack itself failed: a non-blocking send, cancel(), return.
HandlerFails(t) ==
  /\ ~connected
  /\ LeaveHandler(t)
  /\ errCh' = IF ErrChHasRoom THEN errCh \cup {t} ELSE errCh
  /\ failed' = failed \cup {t}
  /\ cancelled' = TRUE
  /\ gone' = gone \cup {t}
  /\ UNCHANGED <<brokerSide, library, ctxDone, doneClosed, runVars>>

\* select takes the case <-runCtx.Done().
LeaveOnCancel(t) ==
  /\ InSelect(t)
  /\ cancelled
  /\ gone' = gone \cup {t}
  /\ UNCHANGED <<brokerSide, library, contexts, channels, handling, failed,
                 runVars>>

\* Mutant: continue instead of return.
StayOnClose(t) == FALSE /\ UNCHANGED vars

\* Mutant: ok is not looked at, the closed channel yields a zero delivery.
TakeFromClosed(t) ==
  /\ InSelect(t)
  /\ DeliveriesClosed
  /\ handling' = [handling EXCEPT ![t] = "zero"]
  /\ UNCHANGED <<brokerSide, library, contexts, channels, gone, failed,
                 runVars>>

\* The deliveries channel is closed; nobody is told.
LeaveOnClose(t) ==
  /\ InSelect(t)
  /\ DeliveriesClosed
  /\ gone' = gone \cup {t}
  /\ UNCHANGED <<brokerSide, library, contexts, channels, handling, failed,
                 runVars>>

-----------------------------------------------------------------------------
(* Run *)

Signal ==
  /\ ~ctxDone
  /\ ctxDone' = TRUE
  /\ cancelled' = TRUE
  /\ UNCHANGED <<brokerSide, library, channels, goroutineVars, runVars>>

\* Mutant: wg.Done is not deferred, the return after an error skips it.
CloseDoneUnlessFailed ==
  /\ gone \ failed = Goroutines
  /\ ~doneClosed
  /\ doneClosed' = TRUE
  /\ UNCHANGED <<brokerSide, library, contexts, errCh, goroutineVars, runVars>>

\* wg.Wait returned.
CloseDone ==
  /\ gone = Goroutines
  /\ ~doneClosed
  /\ doneClosed' = TRUE
  /\ UNCHANGED <<brokerSide, library, contexts, errCh, goroutineVars, runVars>>

\* The three cases of Run's select.
SelectCtx ==
  /\ run = "select" /\ ctxDone
  /\ cancelled' = TRUE
  /\ run' = "wait"
  /\ UNCHANGED <<brokerSide, library, ctxDone, channels, goroutineVars,
                 returned>>

SelectErr(t) ==
  /\ run = "select" /\ t \in errCh
  /\ errCh' = errCh \ {t}
  /\ returned' = {t}
  /\ cancelled' = TRUE
  /\ run' = "wait"
  /\ UNCHANGED <<brokerSide, library, ctxDone, doneClosed, goroutineVars>>

SelectDone ==
  /\ run = "select" /\ doneClosed
  /\ run' = "returned"
  /\ UNCHANGED <<brokerSide, library, contexts, channels, goroutineVars,
                 returned>>

\* Mutant: Run does not wait for its goroutines.
ReturnAtOnce ==
  /\ run = "wait"
  /\ run' = "returned"
  /\ UNCHANGED <<brokerSide, library, contexts, channels, goroutineVars,
                 returned>>

\* <-doneCh, then return.
WaitDone ==
  /\ run = "wait" /\ doneClosed
  /\ run' = "returned"
  /\ UNCHANGED <<brokerSide, library, contexts, channels, goroutineVars,
                 returned>>

RunStep ==
  SelectCtx \/ (\E t \in Goroutines : SelectErr(t)) \/ SelectDone \/ WaitDone

-----------------------------------------------------------------------------
(* The process *)

\* A new process: a new connection, a new consumer; the broker has taken back
\* what the old one had not acknowledged.
NewProcess ==
  /\ ready' = Deliveries \ settled
  /\ connected' = TRUE
  /\ noticed' = FALSE
  /\ consuming' = TRUE
  /\ prefetched' = {}
  /\ handling' = Idle
  /\ gone' = {}
  /\ ctxDone' = FALSE
  /\ cancelled' = FALSE
  /\ errCh' = {}
  /\ doneClosed' = FALSE
  /\ run' = "select"
  /\ returned' = {}
  /\ failed' = {}
  /\ UNCHANGED settled

\* main closes the channel and the connection, or log.Fatal ends the process;
\* Docker (restart: unless-stopped) or an operator starts it again.
Restart == run = "returned" /\ NewProcess

Crash == run # "returned" /\ NewProcess

Next ==
  \/ \E d \in Deliveries : Push(d)
  \/ CancelConsumer
  \/ LoseConnection
  \/ NoticeLoss
  \/ DropBuffer
  \/ \E t \in Goroutines :
       \/ \E d \in Deliveries : Take(t, d)
       \/ Acknowledge(t)
       \/ NackRequeues(t)
       \/ AnswerNobody(t)
       \/ HandlerFails(t)
       \/ LeaveOnCancel(t)
       \/ LeaveOnClose(t)
  \/ Signal
  \/ CloseDone
  \/ RunStep
  \/ Restart
  \/ Crash

Spec == Init /\ [][Next]_vars

HandlerReturns(t) ==
  Acknowledge(t) \/ NackRequeues(t) \/ AnswerNobody(t) \/ HandlerFails(t)

GoroutineSelects(t) ==
  (\E d \in Deliveries : Take(t, d)) \/ LeaveOnCancel(t) \/ LeaveOnClose(t)

\* The Go scheduler is fair, every call in a handler gives up once its
\* context is cancelled, and the client notices a dead connection (heartbeats).
Fairness ==
  /\ \A t \in Goroutines :
       /\ WF_vars(GoroutineSelects(t))
       /\ WF_vars(cancelled /\ HandlerReturns(t))
  /\ WF_vars(CloseDone)
  /\ WF_vars(RunStep)
  /\ WF_vars(NoticeLoss)
  /\ WF_vars(DropBuffer)
  /\ WF_vars(CancelConsumer)

\* Docker restarts a container that was not stopped.
DockerRestarts == WF_vars(~ctxDone /\ Restart)

\* Calls in a handler return even when nobody cancels them.  The code does
\* not see to it: the calls to Gmail have no timeout.
CallsReturn == \A t \in Goroutines : WF_vars(HandlerReturns(t))

FairSpec == Spec /\ Fairness /\ DockerRestarts

-----------------------------------------------------------------------------
(* Safety *)

\* The non-blocking send to errCh never drops an error: every handler error
\* is still in the channel or is the one Run returns, also when all
\* goroutines fail at once.
NoErrorDropped == failed = errCh \cup returned

\* Run returns only after its last goroutine: nobody is in a handler, or will
\* take another delivery, when main closes the broker and the database.
ReturnedMeansStopped ==
  run = "returned" => gone = Goroutines /\ handling = Idle

\* The worker keeps all its goroutines while the connection works and nobody
\* stops it: no failing delivery, however often it is redelivered, ends one.
FullConcurrency == gone # {} => ctxDone \/ ~connected

-----------------------------------------------------------------------------
(* What the pool implements *)

Loop == INSTANCE DeliveryLoop WITH
  Workers <- Goroutines,
  waiting <- IF connected THEN ready \cup prefetched ELSE ready,
  working <- handling,
  linked  <- connected

\* Through every Nack, shutdown, lost connection and restart the pool is an
\* at-least-once consumer.
ImplementsDeliveryLoop == Loop!Spec

\* Through all of these no delivery is lost between broker, buffer and
\* goroutines, and while the connection works no two goroutines have the same.
NothingLostOrDoubled == Loop!NothingLostOrDoubled

-----------------------------------------------------------------------------
(* Liveness *)

\* SIGTERM ends Run, although goroutines whose context is cancelled may be
\* handed, and Nack, the same deliveries again (docker stop gives 10 s).
ShutdownEnds == ctxDone ~> run = "returned" \/ ~ctxDone

\* A lost connection leads to a new one, or to a stop somebody asked for:
\* the goroutines find out one by one, the last one lets Run return.
ConnectionReturns == CallsReturn => (~connected ~> connected \/ ctxDone)

=============================================================================
