----------------------------- MODULE PoolProofs ------------------------------
(***************************************************************************)
(* Proofs about LabelPool: its invariants, and that it implements           *)
(* DeliveryLoop, for every number of goroutines and deliveries and every    *)
(* prefetch limit.                                                          *)
(***************************************************************************)
EXTENDS LabelPool, FiniteSetTheorems, TLAPS

\* What a process leaves alone, written once for the proofs.
USE DEF brokerSide, library, contexts, channels, goroutineVars, runVars

LEMMA TypingInit == Init => TypeOK
BY DEF Init, TypeOK, Idle

LEMMA Typing == TypeOK /\ [Next]_vars => TypeOK'
<1> SUFFICES ASSUME TypeOK, [Next]_vars PROVE TypeOK'
  OBVIOUS
<1> USE DEF TypeOK
<1>1. ASSUME NEW d \in Deliveries, Push(d) PROVE TypeOK'
  BY <1>1 DEF Push
<1>2. CASE CancelConsumer
  BY <1>2 DEF CancelConsumer
<1>3. CASE LoseConnection
  BY <1>3 DEF LoseConnection
<1>4. CASE NoticeLoss
  BY <1>4 DEF NoticeLoss
<1>5. CASE DropBuffer
  BY <1>5 DEF DropBuffer
<1>6. ASSUME NEW t \in Goroutines, NEW d \in Deliveries, Take(t, d)
      PROVE TypeOK'
  BY <1>6 DEF Take
<1>7. ASSUME NEW t \in Goroutines, Acknowledge(t) PROVE TypeOK'
  BY <1>7 DEF Acknowledge, HandlerReturnsNil, LeaveHandler
<1>8. ASSUME NEW t \in Goroutines, NackRequeues(t) PROVE TypeOK'
  BY <1>8 DEF NackRequeues, HandlerReturnsNil, LeaveHandler
<1>9. ASSUME NEW t \in Goroutines, AnswerNobody(t) PROVE TypeOK'
  BY <1>9 DEF AnswerNobody, HandlerReturnsNil, LeaveHandler
<1>10. ASSUME NEW t \in Goroutines, HandlerFails(t) PROVE TypeOK'
  BY <1>10 DEF HandlerFails, LeaveHandler
<1>11. ASSUME NEW t \in Goroutines, LeaveOnCancel(t) PROVE TypeOK'
  BY <1>11 DEF LeaveOnCancel
<1>12. ASSUME NEW t \in Goroutines, LeaveOnClose(t) PROVE TypeOK'
  BY <1>12 DEF LeaveOnClose
<1>13. CASE Signal
  BY <1>13 DEF Signal
<1>14. CASE CloseDone
  BY <1>14 DEF CloseDone
<1>15. CASE RunStep
  BY <1>15 DEF RunStep, SelectCtx, SelectErr, SelectDone, WaitDone
<1>16. CASE Restart \/ Crash
  BY <1>16 DEF Restart, Crash, NewProcess, Idle
<1>17. CASE UNCHANGED vars
  BY <1>17 DEF vars
<1> QED
  BY <1>1, <1>2, <1>3, <1>4, <1>5, <1>6, <1>7, <1>8, <1>9, <1>10, <1>11,
     <1>12, <1>13, <1>14, <1>15, <1>16, <1>17 DEF Next

\* Every variable of the pool keeps its type, for any number of goroutines
\* and deliveries (LabelWorker.Run and the client library around it).
THEOREM PoolTyped == Spec => []TypeOK
BY TypingInit, Typing, PTL DEF Spec

-----------------------------------------------------------------------------
(* Goroutines, errors and Run *)

\* Why a goroutine left, what it left behind, and where Run can be then.
Ending ==
  /\ \A t \in gone : handling[t] = NoDelivery
  /\ failed \subseteq gone
  /\ failed = errCh \cup returned
  /\ run = "select" => returned = {}
  /\ doneClosed => gone = Goroutines
  /\ run = "returned" => doneClosed
  /\ noticed => ~connected
  /\ cancelled => ctxDone \/ ~connected
  /\ ~consuming => cancelled \/ noticed
  /\ gone # {} => ctxDone \/ ~connected

LEMMA EndingInit == Init => Ending
BY DEF Init, Ending, Idle

\* A goroutine that fails has not failed before: errCh has room for it.
LEMMA RoomForError ==
  ASSUME TypeOK, Ending, NEW t \in Goroutines, handling[t] # NoDelivery
  PROVE  ErrChHasRoom
<1>1. errCh \subseteq Goroutines \ {t}
  BY DEF TypeOK, Ending
<1>2. IsFiniteSet(Goroutines \ {t}) /\ IsFiniteSet(Goroutines)
  BY PoolAssumption, FS_RemoveElement
<1>3. Cardinality(Goroutines \ {t}) = Cardinality(Goroutines) - 1
  BY PoolAssumption, FS_RemoveElement
<1>4. Cardinality(errCh) <= Cardinality(Goroutines \ {t})
  BY <1>1, <1>2, FS_Subset
<1>5. /\ Cardinality(Goroutines) \in Nat
      /\ Cardinality(errCh) \in Nat
  BY <1>1, <1>2, FS_Subset, FS_CardinalityType
<1> QED
  BY <1>3, <1>4, <1>5 DEF ErrChHasRoom

LEMMA EndingStep == TypeOK /\ Ending /\ [Next]_vars => Ending'
<1> SUFFICES ASSUME TypeOK, Ending, [Next]_vars PROVE Ending'
  OBVIOUS
<1> USE DEF TypeOK, Ending
<1>1. ASSUME NEW d \in Deliveries, Push(d) PROVE Ending'
  BY <1>1 DEF Push
<1>2. CASE CancelConsumer
  BY <1>2 DEF CancelConsumer
<1>3. CASE LoseConnection
  BY <1>3 DEF LoseConnection
<1>4. CASE NoticeLoss
  BY <1>4 DEF NoticeLoss
<1>5. CASE DropBuffer
  BY <1>5 DEF DropBuffer
<1>6. ASSUME NEW t \in Goroutines, NEW d \in Deliveries, Take(t, d)
      PROVE Ending'
  BY <1>6 DEF Take, InSelect
<1>7. ASSUME NEW t \in Goroutines, HandlerReturnsNil(t),
             UNCHANGED connected
      PROVE Ending'
  BY <1>7 DEF HandlerReturnsNil, LeaveHandler
<1>8. ASSUME NEW t \in Goroutines,
             Acknowledge(t) \/ NackRequeues(t) \/ AnswerNobody(t)
      PROVE Ending'
  BY <1>7, <1>8 DEF Acknowledge, NackRequeues, AnswerNobody
<1>9. ASSUME NEW t \in Goroutines, HandlerFails(t) PROVE Ending'
  <2>1. t \notin gone
    BY <1>9 DEF HandlerFails, LeaveHandler
  <2>2. errCh' = errCh \cup {t}
    BY <1>9, RoomForError DEF HandlerFails, LeaveHandler
  <2>3. ~doneClosed /\ run # "returned"
    BY <2>1
  <2> QED
    BY <1>9, <2>1, <2>2, <2>3 DEF HandlerFails, LeaveHandler
<1>10. ASSUME NEW t \in Goroutines, LeaveOnCancel(t) PROVE Ending'
  BY <1>10 DEF LeaveOnCancel, InSelect
<1>11. ASSUME NEW t \in Goroutines, LeaveOnClose(t) PROVE Ending'
  BY <1>11 DEF LeaveOnClose, InSelect, DeliveriesClosed
<1>12. CASE Signal
  BY <1>12 DEF Signal
<1>13. CASE CloseDone
  BY <1>13 DEF CloseDone
<1>14. CASE SelectCtx
  BY <1>14 DEF SelectCtx
<1>15. ASSUME NEW t \in Goroutines, SelectErr(t) PROVE Ending'
  BY <1>15 DEF SelectErr
<1>16. CASE SelectDone \/ WaitDone
  BY <1>16 DEF SelectDone, WaitDone
<1>17. CASE Restart \/ Crash
  BY <1>17 DEF Restart, Crash, NewProcess, Idle
<1>18. CASE UNCHANGED vars
  BY <1>18 DEF vars
<1> QED
  BY <1>1, <1>2, <1>3, <1>4, <1>5, <1>6, <1>8, <1>9, <1>10, <1>11, <1>12,
     <1>13, <1>14, <1>15, <1>16, <1>17, <1>18 DEF Next, RunStep

THEOREM EndingInvariant == Spec => [](TypeOK /\ Ending)
<1>1. Init => TypeOK /\ Ending
  BY TypingInit, EndingInit
<1>2. TypeOK /\ Ending /\ [Next]_vars => (TypeOK /\ Ending)'
  BY Typing, EndingStep
<1> QED
  BY <1>1, <1>2, PTL DEF Spec

\* No handler error is dropped by the non-blocking send to errCh, for any
\* LABEL_WORKER_CONCURRENCY.
THEOREM ErrorsAreNeverDropped == Spec => []NoErrorDropped
<1>1. Ending => NoErrorDropped
  BY DEF Ending, NoErrorDropped
<1> QED
  BY <1>1, EndingInvariant, PTL

\* Run returns after its last goroutine: main closes broker and database
\* under nobody.
THEOREM ReturnsAfterGoroutines == Spec => []ReturnedMeansStopped
<1>1. TypeOK /\ Ending => ReturnedMeansStopped
  BY DEF TypeOK, Ending, ReturnedMeansStopped, Idle
<1> QED
  BY <1>1, EndingInvariant, PTL

\* A worker whose connection works and that nobody stops keeps all its
\* goroutines.
THEOREM KeepsFullConcurrency == Spec => []FullConcurrency
<1>1. Ending => FullConcurrency
  BY DEF Ending, FullConcurrency
<1> QED
  BY <1>1, EndingInvariant, PTL

-----------------------------------------------------------------------------
(* The pool implements DeliveryLoop *)

\* A delivery is in one place; once the connection is lost, the broker has
\* everything that is not settled and the rest are copies.
OnePlace ==
  /\ ready \cap settled = {}
  /\ prefetched \cap settled = {}
  /\ ~connected => ready = Deliveries \ settled
  /\ connected =>
       /\ ready \cap prefetched = {}
       /\ \A t \in Goroutines :
            handling[t] \notin ready \cup prefetched \cup settled
       /\ \A t, u \in Goroutines :
            handling[t] = handling[u] /\ handling[t] # NoDelivery => t = u

LEMMA OnePlaceInit == Init => OnePlace
BY PoolAssumption DEF Init, OnePlace, Idle

LEMMA OnePlaceStep == TypeOK /\ OnePlace /\ [Next]_vars => OnePlace'
<1> SUFFICES ASSUME TypeOK, OnePlace, [Next]_vars PROVE OnePlace'
  OBVIOUS
<1> USE PoolAssumption DEF TypeOK, OnePlace
<1>1. ASSUME NEW d \in Deliveries, Push(d) PROVE OnePlace'
  BY <1>1 DEF Push
<1>2. CASE CancelConsumer \/ NoticeLoss
  BY <1>2 DEF CancelConsumer, NoticeLoss
<1>3. CASE LoseConnection
  BY <1>3 DEF LoseConnection
<1>4. CASE DropBuffer
  BY <1>4 DEF DropBuffer
<1>5. ASSUME NEW t \in Goroutines, NEW d \in Deliveries, Take(t, d)
      PROVE OnePlace'
  BY <1>5 DEF Take, InSelect
<1>6. ASSUME NEW t \in Goroutines, Acknowledge(t) PROVE OnePlace'
  BY <1>6 DEF Acknowledge, HandlerReturnsNil, LeaveHandler
<1>7. ASSUME NEW t \in Goroutines, NackRequeues(t) PROVE OnePlace'
  BY <1>7 DEF NackRequeues, HandlerReturnsNil, LeaveHandler
<1>8. ASSUME NEW t \in Goroutines, AnswerNobody(t) \/ HandlerFails(t)
      PROVE OnePlace'
  BY <1>8 DEF AnswerNobody, HandlerReturnsNil, HandlerFails, LeaveHandler
<1>9. ASSUME NEW t \in Goroutines, LeaveOnCancel(t) \/ LeaveOnClose(t)
      PROVE OnePlace'
  BY <1>9 DEF LeaveOnCancel, LeaveOnClose
<1>10. CASE Signal \/ CloseDone \/ RunStep
  BY <1>10 DEF Signal, CloseDone, RunStep, SelectCtx, SelectErr, SelectDone,
               WaitDone
<1>11. CASE Restart \/ Crash
  BY <1>11 DEF Restart, Crash, NewProcess, Idle
<1>12. CASE UNCHANGED vars
  BY <1>12 DEF vars
<1> QED
  BY <1>1, <1>2, <1>3, <1>4, <1>5, <1>6, <1>7, <1>8, <1>9, <1>10, <1>11,
     <1>12 DEF Next

LEMMA LoopInit == Init => Loop!Init
BY DEF Init, Idle, Loop!Init, Loop!Idle

\* Every step of the pool is a step of the loop, or changes nothing in it.
LEMMA LoopStep ==
  TypeOK /\ Ending /\ OnePlace /\ [Next]_vars => [Loop!Next]_(Loop!vars)
<1> DEFINE same == /\ UNCHANGED <<settled, connected, handling>>
                   /\ (IF connected THEN ready \cup prefetched ELSE ready)' =
                        IF connected THEN ready \cup prefetched ELSE ready
<1> SUFFICES ASSUME TypeOK, Ending, OnePlace, [Next]_vars
             PROVE  Loop!Next \/ same
  BY DEF Loop!vars
<1> USE PoolAssumption DEF TypeOK, OnePlace
<1>1. ASSUME NEW d \in Deliveries, Push(d) PROVE same
  BY <1>1 DEF Push
<1>2. CASE CancelConsumer \/ NoticeLoss
  BY <1>2 DEF CancelConsumer, NoticeLoss
<1>3. CASE LoseConnection
  BY <1>3 DEF LoseConnection, Loop!Next, Loop!LoseLink, Loop!AllWaitAgain
<1>4. CASE DropBuffer
  BY <1>4 DEF DropBuffer, Ending
<1>5. ASSUME NEW t \in Goroutines, NEW d \in Deliveries, Take(t, d)
      PROVE Loop!Begin(t, d)
  BY <1>5 DEF Take, InSelect, Loop!Begin
<1>6. ASSUME NEW t \in Goroutines, Acknowledge(t) PROVE Loop!Settle(t)
  BY <1>6 DEF Acknowledge, HandlerReturnsNil, LeaveHandler, Loop!Settle,
              Loop!End
<1>7. ASSUME NEW t \in Goroutines, NackRequeues(t) PROVE Loop!GiveBack(t)
  BY <1>7 DEF NackRequeues, HandlerReturnsNil, LeaveHandler, Loop!GiveBack,
              Loop!End
<1>8. ASSUME NEW t \in Goroutines, AnswerNobody(t) \/ HandlerFails(t)
      PROVE Loop!EndInVain(t)
  BY <1>8 DEF AnswerNobody, HandlerReturnsNil, HandlerFails, LeaveHandler,
              Loop!EndInVain, Loop!End
<1>9. ASSUME NEW t \in Goroutines, LeaveOnCancel(t) \/ LeaveOnClose(t)
      PROVE same
  BY <1>9 DEF LeaveOnCancel, LeaveOnClose
<1>10. CASE Signal \/ CloseDone \/ RunStep
  BY <1>10 DEF Signal, CloseDone, RunStep, SelectCtx, SelectErr, SelectDone,
               WaitDone
<1>11. CASE Restart \/ Crash
  <2>1. Loop!StartAgain
    BY <1>11 DEF Restart, Crash, NewProcess, Idle, Loop!StartAgain, Loop!Idle,
                 Loop!AllWaitAgain
  <2> QED
    BY <2>1 DEF Loop!Next
<1>12. CASE UNCHANGED vars
  BY <1>12 DEF vars
<1> QED
  BY <1>1, <1>2, <1>3, <1>4, <1>5, <1>6, <1>7, <1>8, <1>9, <1>10, <1>11,
     <1>12 DEF Next, Loop!Next

\* The pool is an at-least-once consumer: it implements DeliveryLoop for
\* every number of goroutines and deliveries and every prefetch limit.
THEOREM PoolImplementsLoop == Spec => ImplementsDeliveryLoop
<1>1. Init => TypeOK /\ Ending /\ OnePlace
  BY TypingInit, EndingInit, OnePlaceInit
<1>2. TypeOK /\ Ending /\ OnePlace /\ [Next]_vars
        => (TypeOK /\ Ending /\ OnePlace)'
  BY Typing, EndingStep, OnePlaceStep
<1> QED
  BY <1>1, <1>2, LoopInit, LoopStep, PTL
  DEF Spec, ImplementsDeliveryLoop, Loop!Spec

-----------------------------------------------------------------------------
(* What the loop promises, and so the pool *)

\* Without a link all that is not settled waits.
LoopInv ==
  /\ Loop!NothingLostOrDoubled
  /\ connected \/ ready = Deliveries \ settled
  /\ handling \in [Goroutines -> Deliveries \cup {NoDelivery}]

LEMMA LoopInvInit == Loop!Init => LoopInv
BY PoolAssumption
   DEF Loop!Init, Loop!Idle, LoopInv, Loop!NothingLostOrDoubled, Loop!Held

LEMMA LoopInvNext == LoopInv /\ [Loop!Next]_(Loop!vars) => LoopInv'
<1> SUFFICES ASSUME LoopInv, [Loop!Next]_(Loop!vars) PROVE LoopInv'
  OBVIOUS
<1> USE PoolAssumption DEF LoopInv, Loop!NothingLostOrDoubled, Loop!Held
<1>1. ASSUME NEW t \in Goroutines, NEW d \in Deliveries, Loop!Begin(t, d)
      PROVE  LoopInv'
  BY <1>1 DEF Loop!Begin
<1>2. ASSUME NEW t \in Goroutines, Loop!Settle(t)
      PROVE  LoopInv'
  BY <1>2 DEF Loop!Settle, Loop!End
<1>3. ASSUME NEW t \in Goroutines, Loop!GiveBack(t)
      PROVE  LoopInv'
  BY <1>3 DEF Loop!GiveBack, Loop!End
<1>4. ASSUME NEW t \in Goroutines, Loop!EndInVain(t)
      PROVE  LoopInv'
  BY <1>4 DEF Loop!EndInVain, Loop!End
<1>5. CASE Loop!LoseLink
  BY <1>5 DEF Loop!LoseLink, Loop!AllWaitAgain
<1>6. CASE Loop!StartAgain
  BY <1>6 DEF Loop!StartAgain, Loop!Idle, Loop!AllWaitAgain
<1>7. CASE UNCHANGED Loop!vars
  BY <1>7 DEF Loop!vars
<1> QED BY <1>1, <1>2, <1>3, <1>4, <1>5, <1>6, <1>7 DEF Loop!Next

LEMMA LoopLosesNothing == Loop!Spec => []Loop!NothingLostOrDoubled
<1>1. LoopInv => Loop!NothingLostOrDoubled
  BY DEF LoopInv
<1> QED BY <1>1, LoopInvInit, LoopInvNext, PTL DEF Loop!Spec

\* What every consumer promises that implements DeliveryLoop, the pool does:
\* no delivery is lost between broker, buffer and goroutines, and no two
\* goroutines of a connected worker have the same one.
THEOREM PoolLosesNothing == Spec => []NothingLostOrDoubled
BY PoolImplementsLoop, LoopLosesNothing, PTL
   DEF ImplementsDeliveryLoop, NothingLostOrDoubled

=============================================================================
