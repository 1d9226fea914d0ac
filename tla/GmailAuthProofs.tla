--------------------------- MODULE GmailAuthProofs --------------------------
(***************************************************************************)
(* The token tool, for any number of callbacks and of runs.  Which code is  *)
(* saved is decided where it leaves the channel: while main is in its       *)
(* select, the channel holds the first code that came or none came.  Later  *)
(* codes find a reader gone and stay where they are.                        *)
(***************************************************************************)
EXTENDS GmailAuth, SequenceTheorems, TLAPS

\* While main has no code, the channel has the first one; afterwards code is
\* the first one, whatever is in the channel by then.
FirstCodeTaken ==
  /\ pc \in {"select", "shutdownToFail"} => code = {}
  /\ pc = "select" => firstCode = IF codeCh = <<>> THEN {} ELSE {Head(codeCh)}
  /\ pc \in {"shutdown", "exchange", "open", "write", "exited"} =>
       code = firstCode
  /\ pc \in {"shutdown", "exchange", "open", "write", "exited"} => ~serving
  /\ pc = "exited" => file = "whole" /\ savedBy = <<attempt, code>>

ToolInv == TypeOK /\ FirstCodeTaken /\ TokenFileStaysUsable

-----------------------------------------------------------------------------
(* Types *)

\* The channel has room for one code.
LEMMA OfferType ==
  ASSUME NEW b \in Callbacks, Offer(b), codeCh \in Seq(Callbacks),
         Len(codeCh) <= 1
  PROVE  codeCh' \in Seq(Callbacks) /\ Len(codeCh') <= 1
BY DEF Offer

LEMMA TypesInit == Init => TypeOK
<1> SUFFICES ASSUME Init PROVE TypeOK
  OBVIOUS
<1>1. attempt \in 1 .. MaxAttempts
  BY GmailAuthAssumption DEF Init
<1>2. codeCh \in Seq(Callbacks) /\ Len(codeCh) <= 1
  BY DEF Init
<1>3. savedBy \in (0 .. MaxAttempts) \X (SUBSET Callbacks)
  BY GmailAuthAssumption DEF Init
<1> QED BY <1>1, <1>2, <1>3 DEF Init, TypeOK, Running

LEMMA TypesNext == TypeOK /\ [Next]_toolVars => TypeOK'
<1> SUFFICES ASSUME TypeOK, [Next]_toolVars PROVE TypeOK'
  OBVIOUS
<1> USE GmailAuthAssumption
    DEF TypeOK, Running, server, signals, disk
<1>1. CASE Interrupt \/ TimerFires \/ ListenFails
  BY <1>1 DEF Interrupt, TimerFires, ListenFails
<1>2. CASE Kill
  BY <1>2 DEF Kill
<1>3. CASE RunAgain
  <2>1. attempt' \in 1 .. MaxAttempts
    BY <1>3 DEF RunAgain
  <2>2. codeCh' \in Seq(Callbacks) /\ Len(codeCh') <= 1
    BY <1>3 DEF RunAgain, Start
  <2> QED BY <1>3, <2>1, <2>2 DEF RunAgain, Start
<1>4. ASSUME NEW b \in Callbacks, Callback(b) PROVE TypeOK'
  <2>1. codeCh' \in Seq(Callbacks) /\ Len(codeCh') <= 1
    BY <1>4, OfferType DEF Callback
  <2> QED BY <1>4, <2>1 DEF Callback
<1>5. ASSUME NEW b \in Callbacks, Answer(b) PROVE TypeOK'
  BY <1>5 DEF Answer
<1>6. CASE SelectCtx \/ SelectTimer \/ SelectErr
  BY <1>6 DEF SelectCtx, SelectTimer, SelectErr, ShutDownTo
<1>7. CASE SelectCode
  <2>1. /\ Head(codeCh) \in Callbacks
        /\ codeCh' \in Seq(Callbacks) /\ Len(codeCh') <= 1
    BY <1>7, HeadTailProperties DEF SelectCode
  <2> QED BY <1>7, <2>1 DEF SelectCode, ShutDownTo
<1>8. CASE ShutdownReturns \/ Exchange
  BY <1>8 DEF ShutdownReturns, Exchange
<1>9. CASE Open
  BY <1>9 DEF Open
<1>10. CASE Write
  <2>1. savedBy' \in (0 .. MaxAttempts) \X (SUBSET Callbacks)
    BY <1>10 DEF Write
  <2> QED BY <1>10, <2>1 DEF Write
<1>11. CASE UNCHANGED toolVars
  BY <1>11 DEF toolVars
<1> QED BY <1>1, <1>2, <1>3, <1>4, <1>5, <1>6, <1>7, <1>8, <1>9, <1>10, <1>11
          DEF Next, MainStep

\* Every variable of the tool keeps its type; in particular the channel never
\* holds two codes.
THEOREM ToolTyped == Spec => []TypeOK
BY TypesInit, TypesNext, PTL DEF Spec

-----------------------------------------------------------------------------
(* The code that is saved *)

LEMMA FirstCodeTakenInit == Init => FirstCodeTaken
BY DEF Init, FirstCodeTaken

LEMMA FirstCodeTakenNext ==
  ASSUME TypeOK, FirstCodeTaken, [Next]_toolVars
  PROVE  FirstCodeTaken'
<1> USE DEF TypeOK, FirstCodeTaken, Running, server, signals, disk
<1>1. CASE Interrupt \/ TimerFires \/ ListenFails \/ Kill
  BY <1>1 DEF Interrupt, TimerFires, ListenFails, Kill
<1>2. CASE RunAgain
  BY <1>2 DEF RunAgain, Start
<1>3. ASSUME NEW b \in Callbacks, Callback(b) PROVE FirstCodeTaken'
  <2>1. CASE pc = "select"
    <3>1. CASE codeCh = <<>>
      <4>1. codeCh' = <<b>> /\ firstCode' = {b}
        BY <1>3, <2>1, <3>1 DEF Callback, Offer
      <4>2. Head(<<b>>) = b /\ <<b>> # <<>>
        OBVIOUS
      <4>3. firstCode' = IF codeCh' = <<>> THEN {} ELSE {Head(codeCh')}
        BY <4>1, <4>2
      <4>4. UNCHANGED <<pc, code>>
        BY <1>3 DEF Callback
      <4> QED BY <2>1, <4>3, <4>4
    <3>2. CASE codeCh # <<>>
      BY <1>3, <2>1, <3>2 DEF Callback, Offer
    <3> QED BY <3>1, <3>2
  <2>2. CASE pc # "select"
    BY <1>3, <2>2 DEF Callback
  <2> QED BY <2>1, <2>2
<1>4. ASSUME NEW b \in Callbacks, Answer(b) PROVE FirstCodeTaken'
  BY <1>4 DEF Answer
<1>5. CASE SelectCtx \/ SelectTimer \/ SelectErr
  BY <1>5 DEF SelectCtx, SelectTimer, SelectErr, ShutDownTo
<1>6. CASE SelectCode
  BY <1>6 DEF SelectCode, ShutDownTo
<1>7. CASE ShutdownReturns \/ Exchange \/ Open
  BY <1>7 DEF ShutdownReturns, Exchange, Open
<1>8. CASE Write
  BY <1>8 DEF Write
<1>9. CASE UNCHANGED toolVars
  BY <1>9 DEF toolVars
<1> QED BY <1>1, <1>2, <1>3, <1>4, <1>5, <1>6, <1>7, <1>8, <1>9
          DEF Next, MainStep

LEMMA UsableNext ==
  ASSUME TypeOK, TokenFileStaysUsable, [Next]_toolVars
  PROVE  TokenFileStaysUsable'
<1> USE DEF TypeOK, TokenFileStaysUsable, Loadable, Running, server, signals,
            disk
<1>1. CASE Interrupt \/ TimerFires \/ ListenFails \/ Kill
  BY <1>1 DEF Interrupt, TimerFires, ListenFails, Kill
<1>2. CASE RunAgain
  BY <1>2 DEF RunAgain, Start
<1>3. ASSUME NEW b \in Callbacks, Callback(b) \/ Answer(b)
      PROVE  TokenFileStaysUsable'
  BY <1>3 DEF Callback, Answer
<1>4. CASE SelectCtx \/ SelectTimer \/ SelectErr \/ SelectCode
  BY <1>4 DEF SelectCtx, SelectTimer, SelectErr, SelectCode, ShutDownTo
<1>5. CASE ShutdownReturns \/ Exchange \/ Open
  BY <1>5 DEF ShutdownReturns, Exchange, Open
<1>6. CASE Write
  BY <1>6 DEF Write
<1>7. CASE UNCHANGED toolVars
  BY <1>7 DEF toolVars
<1> QED BY <1>1, <1>2, <1>3, <1>4, <1>5, <1>6, <1>7 DEF Next, MainStep

LEMMA ToolInvHolds == Spec => []ToolInv
<1>1. Init => ToolInv
  BY TypesInit, FirstCodeTakenInit
     DEF ToolInv, Init, TokenFileStaysUsable, Loadable
<1>2. ToolInv /\ [Next]_toolVars => ToolInv'
  BY TypesNext, FirstCodeTakenNext, UsableNext DEF ToolInv
<1> QED BY <1>1, <1>2, PTL DEF Spec

\* Whatever the tool meets -- a signal, the timer, a port that is taken, a
\* refusal of Google, a kill -- the file it found or saved stays whole, unless
\* SaveToken's write itself is interrupted.
THEOREM TokenFileAlwaysUsable == Spec => []TokenFileStaysUsable
<1>1. ToolInv => TokenFileStaysUsable
  BY DEF ToolInv
<1> QED BY <1>1, ToolInvHolds, PTL

\* A tool that reports success has saved the token of the code that came
\* first, however many callbacks arrive and whenever they do.
THEOREM SavedAlwaysFirstCode == Spec => []SavedIsFirstCode
<1>1. ToolInv => SavedIsFirstCode
  BY DEF ToolInv, FirstCodeTaken, SavedIsFirstCode, Loadable
<1> QED BY <1>1, ToolInvHolds, PTL

=============================================================================
