------------------------------- MODULE ScanApi ------------------------------
(***************************************************************************)
(* internal/api/scans.go: the API process.  createScan and the scheduler    *)
(* start a scan; every scan has an enqueueScan goroutine that lists the     *)
(* mailbox page by page (internal/reader), publishes one raw event for      *)
(* every message it finds and keeps the counters of the scan_runs row;      *)
(* getScan reads that row and then, in a second statement, the statuses of  *)
(* the run's messages.                                                      *)
(*                                                                          *)
(* The process owns one AMQP channel and never opens another.  Publishes    *)
(* are not confirmed by the broker: between the moment the connection       *)
(* breaks and the moment the client notices, they succeed and are lost.     *)
(***************************************************************************)
EXTENDS Broker, Faults, Sequences

CONSTANTS
  Pages,      \* the pages, sequences of messages, that Gmail may answer with
  MaxPages,   \* bound: pages of one listing
  Readers     \* clients that call GET /api/scans/{id}

ASSUME ScanApiAssumption ==
  /\ Pages \subseteq Seq(Messages)
  /\ MaxPages \in Nat \ {0}

VARIABLES
  enqueue,    \* run -> its enqueueScan goroutine
  apiConn,    \* the AMQP channel: "up", "broken" (not noticed yet), "closed"
  views,      \* reader -> the getScan call it is in, or made last
  handed      \* history: run -> messages whose publish returned no error

scanApiVars == <<enqueue, apiConn, views, handed>>

GoroutineStates ==
  {"none", "list", "publish", "progress", "complete", "fail", "done", "killed"}

\* The local variables of enqueueScan and IterateMessages: the rest of the
\* batch, whether a next page was announced, and the three totals.
Goroutine ==
  [pc : GoroutineStates, todo : Seq(Messages), more : BOOLEAN,
   pages : 0 .. MaxPages, found : Nat, processed : Nat, failed : Nat]

Answers == {"pending", "not_started", "processing", "complete"}
View == [run : Runs, row : ScanRun, answer : Answers]

ScanApiTypeOK ==
  /\ enqueue \in [Runs -> Goroutine]
  /\ apiConn \in {"up", "broken", "closed"}
  /\ DOMAIN views \subseteq Readers
  /\ views \in [DOMAIN views -> View]
  /\ handed \in [Runs -> SUBSET Messages]

ScanApiInit ==
  /\ enqueue = [r \in Runs |->
       [pc |-> "none", todo |-> <<>>, more |-> FALSE, pages |-> 0,
        found |-> 0, processed |-> 0, failed |-> 0]]
  /\ apiConn = "up"
  /\ views = [c \in {} |-> {}]
  /\ handed = [r \in Runs |-> {}]

Active(r) == enqueue[r].pc \notin {"none", "done", "killed"}

-----------------------------------------------------------------------------
(* startScan *)

\* createScan, or a tick of StartScheduledScans: the row is inserted, then
\* the goroutine is started with a context nobody cancels.
StartScan(r) ==
  /\ CreateScanRun(r, request[r].user, request[r].mode)
  /\ enqueue' = [enqueue EXCEPT ![r].pc = "list"]
  /\ UNCHANGED <<emailMessages, verdict, brokerVars, apiConn, views, handed,
                 faults>>

\* The row was inserted but the call returned an error (connection lost
\* before the answer): startScan returns and no goroutine will ever run.
StartScanReplyLost(r) ==
  /\ Fault
  /\ CreateScanRun(r, request[r].user, request[r].mode)
  /\ UNCHANGED <<emailMessages, verdict, brokerVars, scanApiVars>>

-----------------------------------------------------------------------------
(* enqueueScan *)

\* Mutant: the empty page token does not end the listing.
AlwaysNextPage(more) == "list"

\* What IterateMessages does after a page.
AfterPage(more) == IF more THEN "list" ELSE "complete"

\* A goroutine that was handed a page.
WithPage(g, page, more) ==
  [g EXCEPT !.pc    = IF page = <<>> THEN AfterPage(more) ELSE "publish",
            !.todo  = page,
            !.more  = more,
            !.pages = @ + 1,
            !.found = @ + Len(page)]

\* ListMessagesPage returned a page.  A page without messages is not visited;
\* a next page token that repeats the last one counts as no next page.
ListPage(r) ==
  /\ enqueue[r].pc = "list"
  /\ enqueue[r].pages < MaxPages
  /\ \E page \in Pages, more \in BOOLEAN :
       /\ more => enqueue[r].pages + 1 < MaxPages
       /\ enqueue' = [enqueue EXCEPT ![r] = WithPage(@, page, more)]
  /\ UNCHANGED <<storageVars, brokerVars, apiConn, views, handed, faults>>

\* The listing, or the Get of one of its messages, failed.
ListPageFails(r) ==
  /\ Fault
  /\ enqueue[r].pc = "list"
  /\ enqueue' = [enqueue EXCEPT ![r].pc = "fail"]
  /\ UNCHANGED <<storageVars, brokerVars, apiConn, views, handed>>

\* Mutant: totalFailed++ is missing.
AdvancedUncounted(g, ok) ==
  [g EXCEPT !.pc        = IF Len(g.todo) = 1 THEN "progress" ELSE "publish",
            !.todo      = Tail(g.todo),
            !.processed = IF ok THEN @ + 1 ELSE @]

\* The batch loop: one more message, published without error or not.
Advanced(g, ok) ==
  [g EXCEPT !.pc        = IF Len(g.todo) = 1 THEN "progress" ELSE "publish",
            !.todo      = Tail(g.todo),
            !.processed = IF ok THEN @ + 1 ELSE @,
            !.failed    = IF ok THEN @ ELSE @ + 1]

\* PublishRawEmail of the next message.  Only a channel known to be closed
\* makes it return an error; the event reaches the queue only while the
\* connection works.
PublishNext(r) ==
  LET g == Head(enqueue[r].todo) IN
  /\ enqueue[r].pc = "publish"
  /\ enqueue' = [enqueue EXCEPT ![r] = Advanced(@, apiConn # "closed")]
  /\ IF apiConn = "up" THEN PublishRawEmail([run |-> r, msg |-> g])
                       ELSE UNCHANGED rawQueue
  /\ handed' = IF apiConn = "closed" THEN handed
               ELSE [handed EXCEPT ![r] = @ \cup {g}]
  /\ UNCHANGED <<storageVars, request, classifiedQueue, apiConn, views, faults>>

WriteProgress(r) ==
  UpdateScanRunProgress(r, enqueue[r].found, enqueue[r].processed,
                        enqueue[r].failed)

UpdateProgress(r) ==
  /\ enqueue[r].pc = "progress"
  /\ WriteProgress(r)
  /\ enqueue' = [enqueue EXCEPT ![r].pc = AfterPage(enqueue[r].more)]
  /\ UNCHANGED <<emailMessages, verdict, brokerVars, apiConn, views, handed,
                 faults>>

\* The statement returned an error, before or after it took effect: visit
\* returns it, IterateMessages stops, the run fails.
UpdateProgressFails(r) ==
  /\ Fault
  /\ enqueue[r].pc = "progress"
  /\ WriteProgress(r) \/ UNCHANGED scanRuns
  /\ enqueue' = [enqueue EXCEPT ![r].pc = "fail"]
  /\ UNCHANGED <<emailMessages, verdict, brokerVars, apiConn, views, handed>>

WriteCompletion(r, status) ==
  CompleteScanRun(r, status, enqueue[r].found, enqueue[r].processed,
                  enqueue[r].failed)

\* Mutant: the return after failRun is missing.
FallsThrough(r) ==
  enqueue' = [enqueue EXCEPT ![r].pc = IF @ = "fail" THEN "complete" ELSE "done"]

GoroutineReturns(r) == enqueue' = [enqueue EXCEPT ![r].pc = "done"]

\* failRun.
FailRun(r) ==
  /\ enqueue[r].pc = "fail"
  /\ WriteCompletion(r, "failed")
  /\ GoroutineReturns(r)
  /\ UNCHANGED <<emailMessages, verdict, brokerVars, apiConn, views, handed,
                 faults>>

QueuedStatus(failed) == IF failed > 0 THEN "queued_with_errors" ELSE "queued"

\* Mutant: a scan that found nothing returns early.
CompleteUnlessEmpty(r) ==
  /\ enqueue[r].pc = "complete"
  /\ \/ enqueue[r].found = 0 /\ UNCHANGED scanRuns
     \/ enqueue[r].found > 0 /\ WriteCompletion(r, "queued")
  /\ GoroutineReturns(r)
  /\ UNCHANGED <<emailMessages, verdict, brokerVars, apiConn, views, handed,
                 faults>>

CompleteRun(r) ==
  /\ enqueue[r].pc = "complete"
  /\ WriteCompletion(r, QueuedStatus(enqueue[r].failed))
  /\ GoroutineReturns(r)
  /\ UNCHANGED <<emailMessages, verdict, brokerVars, apiConn, views, handed,
                 faults>>

\* CompleteScanRun returned an error without effect.  It is ignored (failRun)
\* or logged; either way the goroutine returns.
CompletionLost(r) ==
  /\ Fault
  /\ enqueue[r].pc \in {"complete", "fail"}
  /\ GoroutineReturns(r)
  /\ UNCHANGED <<storageVars, brokerVars, apiConn, views, handed>>

EnqueueStep(r) ==
  ListPage(r) \/ PublishNext(r) \/ UpdateProgress(r) \/ FailRun(r)
    \/ CompleteRun(r)

-----------------------------------------------------------------------------
(* getScan: two statements, each its own snapshot *)

GetScanRun(c, r) ==
  /\ c \in DOMAIN views => views[c].answer # "pending"
  /\ r \in DOMAIN scanRuns
  /\ views' = With(views, c,
       [run |-> r, row |-> scanRuns[r], answer |-> "pending"])
  /\ UNCHANGED <<storageVars, brokerVars, enqueue, apiConn, handed, faults>>

\* processingStatus(run, counts)
ProcessingStatus(row, counts) ==
  LET processed == counts["dry_run"] + counts["classified"] + counts["applied"]
  IN  IF row.processed = 0 THEN "not_started"
      ELSE IF processed >= row.processed THEN "complete"
      ELSE "processing"

GetScanCounts(c) ==
  /\ c \in DOMAIN views
  /\ views[c].answer = "pending"
  /\ views' = [views EXCEPT ![c].answer =
       ProcessingStatus(views[c].row, CountEmailMessagesByScanRun(views[c].run))]
  /\ UNCHANGED <<storageVars, brokerVars, enqueue, apiConn, handed, faults>>

-----------------------------------------------------------------------------
(* The process and its connection *)

ApiConnBreaks ==
  /\ Fault
  /\ apiConn = "up"
  /\ apiConn' = "broken"
  /\ UNCHANGED <<storageVars, brokerVars, enqueue, views, handed>>

\* The client notices (a failed write, a missed heartbeat).
ApiConnCloses ==
  /\ apiConn = "broken"
  /\ apiConn' = "closed"
  /\ UNCHANGED <<storageVars, brokerVars, enqueue, views, handed, faults>>

\* The process ends (crash, or SIGTERM: main does not wait for goroutines)
\* and is started again.  Scans in progress are not resumed.
ApiRestart ==
  /\ Fault
  /\ enqueue' = [r \in Runs |->
       IF Active(r) THEN [enqueue[r] EXCEPT !.pc = "killed"] ELSE enqueue[r]]
  /\ apiConn' = "up"
  /\ views' = [c \in {} |-> {}]
  /\ UNCHANGED <<storageVars, brokerVars, handed>>

ScanApiNext ==
  \/ \E r \in Runs :
       \/ StartScan(r)
       \/ StartScanReplyLost(r)
       \/ EnqueueStep(r)
       \/ ListPageFails(r)
       \/ UpdateProgressFails(r)
       \/ CompletionLost(r)
       \/ \E c \in Readers : GetScanRun(c, r)
  \/ \E c \in Readers : GetScanCounts(c)
  \/ ApiConnBreaks
  \/ ApiConnCloses
  \/ ApiRestart

=============================================================================
