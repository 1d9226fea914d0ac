----------------------------- MODULE GmailAuth ------------------------------
(***************************************************************************)
(* cmd/gmail-auth and internal/gmail/oauth.go: the tool that obtains the    *)
(* OAuth token and the file it leaves it in.  main waits in one select for  *)
(* a signal, a listener that fails, the timer, or the code that the browser *)
(* brings to the callback URL; it shuts the server down, exchanges the code *)
(* and overwrites the file in place.  The other processes load the file     *)
(* when they start (loadToken).                                             *)
(***************************************************************************)
EXTENDS Naturals, Sequences

CONSTANTS
  Callbacks,     \* requests to the callback URL, each with its own code
  MaxAttempts    \* bound: how often the tool is run

ASSUME GmailAuthAssumption == MaxAttempts \in Nat \ {0}

VARIABLES
  pc,            \* where main is
  attempt,       \* how often the tool has been run
  ctxDone,       \* the signal context is done
  timerFired,    \* three minutes have passed
  codeCh,        \* the channel with room for one code
  errCh,         \* the listener has failed
  serving,       \* the listener accepts requests
  handlers,      \* callback -> its handler: "none", "answering", "answered"
  code,          \* the local variable code: a set of at most one
  file,          \* the token file
  savedBy,       \* the attempt and the code of a whole file
  firstCode,     \* history: the code that reached the channel first
  interrupted    \* history: SaveToken was killed or its write failed

toolVars == <<pc, attempt, ctxDone, timerFired, codeCh, errCh, serving,
              handlers, code, file, savedBy, firstCode, interrupted>>

server == <<codeCh, errCh, serving, handlers, firstCode>>
signals == <<ctxDone, timerFired>>
disk == <<file, savedBy, interrupted>>

Running ==
  {"select", "shutdownToFail", "shutdown", "exchange", "open", "write"}

TypeOK ==
  /\ pc \in Running \cup {"failed", "exited"}
  /\ attempt \in 1 .. MaxAttempts
  /\ ctxDone \in BOOLEAN
  /\ timerFired \in BOOLEAN
  /\ codeCh \in Seq(Callbacks) /\ Len(codeCh) <= 1
  /\ errCh \in BOOLEAN
  /\ serving \in BOOLEAN
  /\ handlers \in [Callbacks -> {"none", "answering", "answered"}]
  /\ code \subseteq Callbacks
  /\ file \in {"missing", "empty", "partial", "whole"}
  /\ savedBy \in (0 .. MaxAttempts) \X (SUBSET Callbacks)
  /\ firstCode \subseteq Callbacks
  /\ interrupted \in BOOLEAN

\* A freshly started tool.
Start ==
  /\ pc' = "select"
  /\ ctxDone' = FALSE
  /\ timerFired' = FALSE
  /\ codeCh' = <<>>
  /\ errCh' = FALSE
  /\ serving' = TRUE
  /\ handlers' = [b \in Callbacks |-> "none"]
  /\ code' = {}
  /\ firstCode' = {}

Init ==
  /\ pc = "select"
  /\ attempt = 1
  /\ ctxDone = FALSE
  /\ timerFired = FALSE
  /\ codeCh = <<>>
  /\ errCh = FALSE
  /\ serving = TRUE
  /\ handlers = [b \in Callbacks |-> "none"]
  /\ code = {}
  /\ file \in {"missing", "whole"}
  /\ savedBy = <<0, {}>>
  /\ firstCode = {}
  /\ interrupted = FALSE

-----------------------------------------------------------------------------
(* The world *)

Interrupt ==
  /\ pc \in Running
  /\ ctxDone' = TRUE
  /\ UNCHANGED <<pc, attempt, timerFired, server, code, disk>>

TimerFires ==
  /\ pc = "select"
  /\ timerFired' = TRUE
  /\ UNCHANGED <<pc, attempt, ctxDone, server, code, disk>>

\* The port is taken, or accepting fails later.
ListenFails ==
  /\ pc = "select"
  /\ serving
  /\ serving' = FALSE
  /\ errCh' = TRUE
  /\ UNCHANGED <<pc, attempt, signals, codeCh, handlers, code, disk, firstCode>>

\* SIGKILL, or the machine stops.
Kill ==
  /\ pc \in Running
  /\ pc' = "failed"
  /\ serving' = FALSE
  /\ interrupted' = (interrupted \/ pc = "write")
  /\ UNCHANGED <<attempt, signals, codeCh, errCh, handlers, code, file,
                 savedBy, firstCode>>

\* The operator runs the tool again.  Its state parameter is random, so that
\* requests meant for an earlier run are refused.
RunAgain ==
  /\ pc \notin Running
  /\ attempt < MaxAttempts
  /\ attempt' = attempt + 1
  /\ Start
  /\ UNCHANGED disk

-----------------------------------------------------------------------------
(* The handler of the callback URL *)

\* Mutant: every code is queued.
OfferQueued(b) == codeCh' = Append(codeCh, b)

\* Mutant: the latest code replaces the one that waits.
OfferLatest(b) == codeCh' = <<b>>

\* select { case codeCh <- code: default: }
Offer(b) == codeCh' = IF codeCh = <<>> THEN <<b>> ELSE codeCh

\* A request with the right state and a code.  (Without them it is refused.)
Callback(b) ==
  /\ pc \in Running
  /\ serving
  /\ handlers[b] = "none"
  /\ Offer(b)
  /\ firstCode' = IF firstCode = {} THEN {b} ELSE firstCode
  /\ handlers' = [handlers EXCEPT ![b] = "answering"]
  /\ UNCHANGED <<pc, attempt, signals, errCh, serving, code, disk>>

\* "Authorization received", whether the code was taken or not.
Answer(b) ==
  /\ pc \in Running
  /\ handlers[b] = "answering"
  /\ handlers' = [handlers EXCEPT ![b] = "answered"]
  /\ UNCHANGED <<pc, attempt, signals, codeCh, errCh, serving, code, disk,
                 firstCode>>

-----------------------------------------------------------------------------
(* main *)

\* Shutdown closes the listener, and returns when no handler is active.
ShutDownTo(next) ==
  /\ pc' = next
  /\ serving' = FALSE
  /\ UNCHANGED <<attempt, signals, errCh, handlers, disk, firstCode>>

SelectCtx ==
  /\ pc = "select"
  /\ ctxDone
  /\ ShutDownTo("shutdownToFail")
  /\ UNCHANGED <<codeCh, code>>

\* Mutant: no case for the timer.
SelectOnlySignal == SelectCtx

SelectTimer ==
  /\ pc = "select"
  /\ timerFired
  /\ ShutDownTo("shutdownToFail")
  /\ UNCHANGED <<codeCh, code>>

SelectErr ==
  /\ pc = "select"
  /\ errCh
  /\ pc' = "failed"
  /\ UNCHANGED <<attempt, signals, server, code, disk>>

SelectCode ==
  /\ pc = "select"
  /\ codeCh # <<>>
  /\ code' = {Head(codeCh)}
  /\ codeCh' = Tail(codeCh)
  /\ ShutDownTo("shutdown")

NoHandlerActive == \A b \in Callbacks : handlers[b] # "answering"

\* With a code, Shutdown gives up after five seconds.
ShutdownReturns ==
  /\ \/ pc = "shutdownToFail" /\ NoHandlerActive /\ pc' = "failed"
     \/ pc = "shutdown" /\ pc' = "exchange"
  /\ UNCHANGED <<attempt, signals, server, code, disk>>

\* Mutant: the file is opened before the code is exchanged.
ExchangeIntoOpenFile ==
  /\ pc = "exchange"
  /\ pc' \in {"write", "failed"}
  /\ file' = "empty"
  /\ UNCHANGED <<attempt, signals, server, code, savedBy, interrupted>>

\* ExchangeCode succeeds or fails; no signal interrupts it.
Exchange ==
  /\ pc = "exchange"
  /\ pc' \in {"open", "failed"}
  /\ UNCHANGED <<attempt, signals, server, code, disk>>

\* SaveToken: MkdirAll and OpenFile with O_TRUNC, which may fail.
Open ==
  /\ pc = "open"
  /\ \/ pc' = "write" /\ file' = "empty"
     \/ pc' = "failed" /\ UNCHANGED file
  /\ UNCHANGED <<attempt, signals, server, code, savedBy, interrupted>>

\* SaveToken: Encode, in one write, which may fail half way.
Write ==
  /\ pc = "write"
  /\ \/ /\ pc' = "exited"
        /\ file' = "whole"
        /\ savedBy' = <<attempt, code>>
        /\ UNCHANGED interrupted
     \/ /\ pc' = "failed"
        /\ file' \in {"empty", "partial"}
        /\ interrupted' = TRUE
        /\ UNCHANGED savedBy
  /\ UNCHANGED <<attempt, signals, server, code>>

MainStep ==
  \/ SelectCtx \/ SelectTimer \/ SelectErr \/ SelectCode
  \/ ShutdownReturns \/ Exchange \/ Open \/ Write

Next ==
  \/ Interrupt \/ TimerFires \/ ListenFails \/ Kill \/ RunAgain
  \/ \E b \in Callbacks : Callback(b) \/ Answer(b)
  \/ MainStep

Spec == Init /\ [][Next]_toolVars

\* main and the handlers run, the timer fires, and the exchange answers.
FairSpec ==
  /\ Spec
  /\ WF_toolVars(MainStep)
  /\ WF_toolVars(TimerFires)
  /\ \A b \in Callbacks : WF_toolVars(Answer(b))

-----------------------------------------------------------------------------
(* Properties *)

\* loadToken succeeds.
Loadable == file = "whole"

\* An attempt that is cancelled, times out, cannot listen, or is refused by
\* Google leaves the token of an earlier one usable, and no attempt leaves
\* half a token: only a kill or a full disk inside SaveToken's write can, since
\* the file is overwritten in place.
TokenFileStaysUsable ==
  pc # "write" /\ ~interrupted => Loadable \/ (file = "missing" /\ savedBy = <<0, {}>>)

\* A tool that reports success has saved the token of the first code that any
\* browser brought in this run, however many came and whenever they came.
SavedIsFirstCode ==
  pc = "exited" => Loadable /\ savedBy = <<attempt, firstCode>>

\* The tool ends: nobody need authorize anything, and a signal that arrives
\* while nobody looks at it does no harm.
ToolEnds == pc \in Running ~> pc \notin Running

=============================================================================
