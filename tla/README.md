# Email Triage System: TLA+ models and proofs

This directory is a verification development of the email triage system: TLA+
modules that model its pipeline, its rule engine, its authentication and its
token tool, TLC configurations that check them on small instances, and theorems
that TLAPS proves for every instance.

* `tlc -config Redelivery.cfg MCEmailTriage` checks one configuration.
* `tlc -config RuleChoice.cfg MCClassifier` checks the rule engine.
* `LabelPool.cfg`, `Access.cfg` and `GmailToken.cfg` belong to `LabelPool`, `MCAuth` and
  `GmailAuth`; every other configuration to `MCEmailTriage`, `Audience.cfg` to `MCAuth`.
* `tlapm DeliveryProofs.tla` checks the proofs of one module.
* `PROJECT.json` lists components, runs, mutants, the source lines behind every
  definition, the findings, the hazards and the theorems.

Paths below are relative to `src/`.

## 1. Inventory

### The system

Three processes share a PostgreSQL database, two RabbitMQ queues and one Gmail
mailbox (`deployments/docker-compose.yml`, `docs/architecture.md`).

```
 POST /scans, ticker                    email.raw                    email.classified
   |                                      |                               |
 API process  -- one goroutine per scan --+--> classifier worker ---------+--> label worker
   |  lists the mailbox page by page           1 delivery at a time            4 goroutines
   |  scan_runs row (counters, status)         user_rules -> label             EnsureLabel, modify
   |                                           email_messages upsert           email_messages: applied
 GET /scans/{id}: scan_runs row, then COUNT(*) of email_messages
```

| Component | Code | State | Operations | Talks to |
|---|---|---|---|---|
| Scan API | `internal/api/scans.go`, `cmd/api-server` | goroutines in memory, one AMQP channel that is never reopened | `createScan`, `StartScheduledScans`, `startScan`, `enqueueScan`, `failRun`, `getScan` | storage, broker (publish), reader |
| Mail reader | `internal/reader` | page token of one listing | `IterateMessages`, `toMessages`; mock source | Gmail |
| Classifier worker | `internal/consumer/classifier_worker.go` | the delivery in its handler | `Run`, `handleDelivery`, `processRawEmail` | broker, storage, rule engine |
| Label worker | `internal/consumer/label_worker.go` | one delivery per goroutine; `errCh`, `doneCh`, cancel | `Run`, `handleDelivery`, `processClassifiedEmail` | broker, Gmail, storage |
| Broker | `internal/broker` | two durable queues, unacknowledged deliveries | publish (no confirms), consume, Ack, Nack with requeue | RabbitMQ |
| Storage | `internal/storage` | `scan_runs`, `email_messages`, `user_rules`, `users` | one SQL statement each, no transaction anywhere | PostgreSQL |
| Gmail client | `internal/gmail` | label names, labels of every message | `ListMessagesPage`, `EnsureLabel` (list, then create), `ApplyLabelToMessage`, `IsPermanentError` | Gmail |
| Rule engine | `internal/classifier`, `internal/rules` | none | `Classify` | - |
| Auth | `internal/auth`, `internal/api/auth.go`, `router.go` | tokens in clients' hands, the settings of the process | Telegram login, `Issue`, `Verify`, `requireAuth`, the checks of the handlers, `StartScheduledScans`'s conditions | storage (`users`, `scan_runs.user_id`) |
| `gmail-auth` | `cmd/gmail-auth`, `internal/gmail/oauth.go` | one code channel, the token file | callback handler, select, shutdown, exchange, `SaveToken` | Google, the processes that load the file |
| Configuration, migrations | `internal/config`, `migrations` | environment, schema | - | - |

### What is hard here

* **Three calls, two systems.** The classifier worker upserts, publishes and
  acknowledges; the label worker modifies, marks and acknowledges. Each may
  fail or die between any two of them, and each call may take effect and still
  report an error.
* **At-least-once delivery.** Everything is redelivered after a Nack, a lost
  connection or a crash, while the row and the mailbox already show the first
  attempt. The broker takes the deliveries of a lost connection back at once,
  but the handlers go on until they need the channel.
* **Rows are keyed by user and message, not by run.** Two scans of one mailbox
  write to the same rows; stale events of one run meet the row of the other.
* **Concurrency in the label worker.** Its goroutines share one mailbox
  and race in list-then-create.
* **In-memory scans.** An `enqueueScan` goroutine is not persisted, not
  awaited at shutdown and never resumed. Publishes on a connection that is
  already dead succeed and are lost.
* **Shutdown.** The label worker's `Run` has two contexts, an error channel with a
  slot per goroutine, a done channel and a delivery channel that the library
  closes; several of its select cases can be ready at once.
* **Prefetched deliveries.** A worker whose connection is gone can still start on a
  delivery it was sent before.
* **Tokens live on.** After the login nobody looks at `users` again (but
  `GET /auth/me`): a token carries its role through edits of the table and restarts
  with other settings, and it counts time in whole seconds.
* **A file written in place.** `SaveToken` truncates the token file and then writes.
* **Non-atomic reads.** `getScan` reads the run and the message counters in two
  statements and compares them.

The full list, each at its line, is `hazards` in `PROJECT.json`.

### What makes each component correct

| Component | Properties |
|---|---|
| Scan API | counters of a row always balance; a finished row is final; an answer "complete" is true; every goroutine returns; every run gets finished (documented, not guaranteed) |
| Classifier worker | what is recorded as classified is never forgotten; a queued message gets a row |
| Label worker | a row says applied only if the mailbox agrees; nothing is touched except for an apply scan; a classified row is settled |
| Whole pipeline | it always drains; without failures everything classified is applied (violated by the label race) |
| Label worker `Run` | no handler error is dropped; it returns after its last goroutine, keeps all of them while the connection works, ends after a signal, comes back after a lost connection; it is an at-least-once consumer |
| Storage and mailbox together | every write is a step of a small ledger: offer, record, label, confirm |
| Rule engine | the label of the one rule that takes precedence: user before global, then priority, specificity, age |
| Auth | access ends within a token lifetime and a login of the user's; scans are read by owner or recent admin; a token works as long as the client was told |
| `gmail-auth` | the file stays loadable; what is saved belongs to the first code; the tool ends |

## 2. Modules

```
Faults          Storage
    |          /    |    \
    |      Broker   |   Gmail                            MessageLedger
    |     /   |  \  |  /                                    ^ implements
  ScanApi  ClassifierWorker  LabelWorker                    |
         \        |        /                                |
            EmailTriage ------------------------------------+
              |      \
   MCEmailTriage    TypeProofs --- LabelProofs --- DeliveryProofs --- ScanProofs

  UserRules --- RulePrecedence
       \             ^ implements
        Classifier --- ClassifierProofs
             \
          MCClassifier

  LabelPool --- PoolProofs        Auth --- AuthProofs        GmailAuth
      | implements                  \                            \
  DeliveryLoop                     MCAuth                   GmailAuthProofs
```

| Module | Models | Correspondence |
|---|---|---|
| `Storage` | `internal/storage`, the schema | a table is a partial function from key to row; one operator per SQL statement, one statement per step. `verdict` is `user_rules` seen through `Classify`: the label that the rules enabled now give to a user's message. `EditRules` changes it at any time, since nothing in the code prevents it |
| `Broker` | `internal/broker` | a queue is a bag of events. Order is left out: a requeued delivery goes behind prefetched ones and the label worker is concurrent, so no consumer may rely on it. `request[r]` is what run `r` is (or will be) requested with; all events of the run carry it |
| `Gmail` | `internal/gmail` | the one mailbox behind the client, with the labels, INBOX and UNREAD of a message |
| `Faults` | the environment | the budget of failures, spent by every action that models one |
| `ScanApi` | `internal/api/scans.go`, `internal/reader`, `cmd/api-server` | `enqueue[r]` is the goroutine of run `r` with its local variables. One action per page, publish and statement. `views[c]` is a client between the two statements of `getScan` |
| `ClassifierWorker` | `classifier_worker.go` | `classifying[w]` is the delivery in the handler with the next call: load rules, upsert, publish, Ack |
| `LabelWorker` | `label_worker.go`, `EnsureLabel` | `labelling[t]` is the delivery of a goroutine with the next call: list, create, modify, mark, Ack |
| `EmailTriage` | the composition | `Next`, `Fairness`, all properties |
| `MCEmailTriage` | - | small sets for TLC |
| `UserRules` | `internal/rules`, the table `user_rules`, `matchCandidate` | a row is a record with the columns; `hit` says how its normalized value occurs in the normalized field its type selects, which is all that trimming, lower-casing and the message's text decide |
| `RulePrecedence` | the documented promise | one step, from a table of rules to the label and confidence of the rule that takes precedence |
| `Classifier` | `ListEnabledUserRules`, `Classify` | the query with its `WHERE` and `ORDER BY`, one action per round of the loop with its two running maxima, and the choice after it |
| `MCClassifier` | - | small tables for TLC |
| `MessageLedger` | what the pipeline promises about rows and mailbox | no processes, queues or failures: a run offers messages, an offered message may be recorded, labelled, confirmed, again and late. `EmailTriage!Ledger` maps `offered` to `handed` and `rows` to `emailMessages` |
| `LabelPool` | `LabelWorker.Run`, `cmd/label-worker`, the client library's buffer | one variable per context, channel and flag of `Run`; one action per case of a select; what a handler does is left to `LabelWorker`, here it ends with Ack, Nack, or an error of either |
| `DeliveryLoop` | the promise of a consumer | waiting, worked on or settled, exactly one of them (`NothingLostOrDoubled`); `LabelPool!Loop` maps `waiting` to the queue and, while the connection lasts, the library's buffer |
| `Auth` | `internal/auth`, `api/auth.go`, `router.go`, the conditions of `StartScheduledScans`, the part of `internal/config` they use | a call is a login between lookup and token, a request with the principal of its token, or a `getScan` past its check; the table is edited, the process restarted with any environment of `Environments`, at any time |
| `MCAuth` | - | small environments for TLC |
| `GmailAuth` | `cmd/gmail-auth`, `oauth.go` | `main` by its program counter, the handlers of the callback URL, the file with its half-written states |
| `TypeProofs`, `LabelProofs`, `DeliveryProofs`, `ScanProofs`, `ClassifierProofs`, `PoolProofs`, `AuthProofs`, `GmailAuthProofs` | - | theorems |

Conventions. `XFails` or `XLost` is the error path of `X` and spends a fault; an
error may come before or after the effect wherever the code cannot tell. A
definition whose comment begins with `Mutant:` is a plausible bug of the
definition that follows it; `PROJECT.json` says which property it breaks, and
no specification uses it.

### Decisions worth knowing

* **A lost connection is two things.** The broker requeues the deliveries in the
  same step; the process learns of it at its next use of the channel. In
  between its database and Gmail calls take effect. That is how the models get
  handlers that work on a delivery somebody else already has again.
* **Stale deliveries.** A worker whose connection is lost may also begin a delivery it
  had prefetched; the broker has requeued it already (`Broker`, `ClassifierWorker`,
  `LabelWorker`). Any number of classifier processes is allowed.
* **`LabelWorker` and `LabelPool` are two views of one process.** The pipeline needs what a
  handler does between any two calls and abstracts `Run` to "a goroutine takes
  a delivery, the process loses its connection or restarts"; `LabelPool` has
  `Run` in full and abstracts the handler to its outcome. One module with
  both would multiply two state spaces that only touch at take and answer.
* **Signatures are perfect.** A token carries the secret that signed it; `Verify`
  compares. `Auth` counts in ticks, `Second` of them to a second, because what is
  interesting about expiry is the truncation.
* **The API's channel has three states.** "up"; "broken": publishes return nil
  and are lost; "closed": publishes return an error and count as failed.
  `cmd/api-server` never opens another.
* **A 409 is permanent.** `IsPermanentError` calls every 4xx but 429 permanent,
  so a goroutine that loses the race to create a label drops its delivery.
* **Branches without an action** because no reachable state takes them:
  unmarshal errors (only this code writes to the queues), the AMQP `Consume`
  error at start, `MarkEmailLabelApplied` without a row is modelled
  but never fires (rows are never deleted and the upsert precedes the publish).
* **`dropped`** and **`handed`** are history variables: the messages whose
  delivery the label worker dropped, and the messages whose publish returned no
  error. No guard reads them.

## 3. Properties and runs

State counts are TLC's distinct states.

| Run (`.cfg`, module) | Instance | Shows |
|---|---|---|
| `Redelivery` (65 k, `MCEmailTriage`) | 1 scan of 1 message, 2 labels, 2 faults, any mode and mark_read, fair | `TypeOK`, `AppliedIsReal`, `MailboxOnlyByApply`, `NoSilentLoss`, `LabelsGetApplied` with two failures anywhere in the pipeline; `EnqueueReturns`, `QueuedIsRecorded`, `ClassifiedIsSettled`, `KeepsDraining` |
| `Rescan` (299 k, `MCEmailTriage`) | 2 scans of either mode of 1 message, or 1 scan of 2 messages without faults; 2 classifier processes, 2 label goroutines, 1 fault | `AppliedIsReal`, `MailNeverForgotten`, `RowBeforeEvent`, `FewLostToRace`, `EventsAreHandedOn`, `ImplementsLedger` when stale events of one scan meet the row of the other, a cut-off worker overwrites what another one finished, and goroutines race for a label |
| `ScanStatus` (1.7 M, `MCEmailTriage`) | 2 dry runs, the first with up to two pages of up to two messages, repetitions included, 1 client, 1 fault | `CountersBalance`, `AbandonedOnlyByFailure`, `FinishedIsFinal`, `CompleteAnswersAreTrue`, `CompleteEndsByRescan` |
| `RuleChoice` (565 k, `MCClassifier`) | every table of up to 3 rules out of 45 | `TypeOK`, `LoopKeepsBest`, `ImplementsPrecedence` |
| `LabelPool` (66 k, `LabelPool`) | 3 goroutines, 4 deliveries, prefetch 3; signals, lost connections, crashes, fair | `TypeOK`, `NoErrorDropped`, `ReturnedMeansStopped`, `FullConcurrency`, `NothingLostOrDoubled`, `ImplementsDeliveryLoop`, `ShutdownEnds`, `ConnectionReturns` |
| `Access` (536 k, `MCAuth`) | 2 users who share an account in turn, 1 call at a time, 1 token, 1 scan; restarts with a rotated secret, a shorter lifetime, a schedule | `TypeOK`, `AccessIsRecent`, `ScansAreRead`, `ScansHaveUsers`, `FreshTokensAreAccepted` |
| `GmailToken` (6.7 k, `GmailAuth`) | 2 runs of the tool, 2 callbacks each, fair | `TypeOK`, `TokenFileStaysUsable`, `SavedIsFirstCode`, `ToolEnds` |

and five runs that TLC is expected to refute, each one a statement of the
documentation (section 6): `LabelRace`, `DryRunApplied`, `ScanHistory`,
`StuckRun`, `Audience`.

The properties, in a line each:

* `AppliedIsReal`: a row with status applied names a label that the message
  carries, and the message is archived.
* `MailboxOnlyByApply`: a message is touched only after an apply scan published
  it, marked read only for a scan that asked for it, and all labels exist.
* `NoSilentLoss`: a row with status classified has an event that is queued or in
  the hands of a connected worker that has not yet used it up, unless the
  label worker dropped it. (An event a disconnected worker still works on does
  not count: only the requeued copy does.)
* `MailNeverForgotten`: what `NoSilentLoss` becomes with several classifier processes: a
  classified row without an event belongs to a message that has been labelled
  and archived already, or was dropped.
* `RowBeforeEvent`: a classified event, queued or in a handler, always finds its row.
* `EventsAreHandedOn`: a consumer is done with a raw event only when its message has a row
  and, in apply mode, an open event for the label worker; with a classified event
  only when the message is labelled and archived and its row says so, or the event was
  dropped. `NoSilentLoss` looks at a state, this at the moment an event is given up: an
  early Ack, a missed requeue and a swapped order all show there.
* `FewLostToRace`: without failures the label race costs at most one message per label and
  other goroutine, however many messages need the label. It is the positive side of
  `LabelRace`.
* `ImplementsLedger`: whichever handler, redelivery, stale delivery or failed call it is,
  a write to `email_messages` or to the mailbox is one step of `MessageLedger`
  for a message that its run has published; only what has been done to a
  message is confirmed in its row.
* `CountersBalance`: found = processed + failed in every row, and plus the rest
  of the batch in every goroutine.
* `LabelsGetApplied`: without failures nothing is left classified once the
  system is at rest. It holds with one goroutine and is refuted with two.
* `FinishedIsFinal`: no write ever reaches a finished `scan_runs` row.
* `CompleteAnswersAreTrue`: if `getScan` answers "complete" about a run it saw
  finished, the rows of the run are exactly the messages the run handed over.
* `CompleteEndsByRescan`: what ends "complete" of a finished run is that another run of the
  same user records one of its messages, and nothing else: no redelivery, label,
  failure or scan of other messages. It is the positive side of `ScanHistory`.
* `AbandonedOnlyByFailure`: without failures a run's goroutine is at work or has written a
  finished status, also when it found nothing. It is the positive side of `StuckRun`.
* `LoopKeepsBest`: at the top of the loop each scope's best match is the earliest
  one of the highest score among the rules seen so far.
* `ImplementsPrecedence`: the query's order, the score and the loop together
  give the result of `RulePrecedence`. The documentation speaks of
  evaluating the user's rules first and the global ones otherwise
  (`docs/architecture.md:133`); the code makes one pass over both, packs
  priority and specificity into one integer, and leaves ties to the SQL
  statement's `id ASC`. Ties are the part the documentation does not state.
* `EnqueueReturns`, `QueuedIsRecorded`, `ClassifiedIsSettled`, `KeepsDraining`:
  the goroutine of a scan returns; a queued message gets a row; a classified
  row is applied, taken over or dropped; the work of a scan ends.
* `NoErrorDropped`: the non-blocking send to `errCh` always finds room, also when all
  goroutines fail at once: an error is in the channel or is what `Run` returns.
* `ReturnedMeansStopped`: when `main` closes broker and database no goroutine is left.
* `FullConcurrency`: no failing delivery, however often it returns, costs the worker a
  goroutine.
* `NothingLostOrDoubled`: a delivery is waiting, in the hands of one goroutine or settled,
  and never at two of these places.
* `ImplementsDeliveryLoop`: through every Nack, shutdown, lost connection and restart a
  delivery is settled only by a goroutine the broker counted on.
* `ShutdownEnds`, `ConnectionReturns`: a signal ends `Run`; after a lost connection there
  is a new one or a stop that somebody asked for. The latter holds if calls in a handler
  return (`CallsReturn`): a goroutine that hangs in Gmail, which has no timeout,
  keeps `Run` from returning although all the others have left, since a closed
  delivery channel does not cancel them. TLC refutes it without that assumption.
* `AccessIsRecent`: a request that was let in acts for a user who held the role of its
  token, enabled, less than one token lifetime and one login ago.
* `ScansAreRead`: `getScan` shows a scan to its owner or to such an admin.
* `ScansHaveUsers`: a scan belongs to the user of the schedule or to somebody who has been an
  enabled user, although `scan_runs.user_id` is no foreign key.
* `FreshTokensAreAccepted`: a token works for the `expires_in` the client was told, less the
  second that truncation takes, unless secret or issuer change.
* `TokenFileStaysUsable`: only a kill or a failed write inside `SaveToken` leaves a file that
  cannot be loaded; every earlier failure leaves the old token.
* `SavedIsFirstCode`: a tool that reports success has saved the token of the first code of
  this run.
* `ToolEnds`: and it ends.

### Bounds, and why they are enough

* **Faults** (`MaxFaults`). Every failure the models know needs one fault; the
  interesting windows are between two calls of one handler and two overlapping
  handlers: a lost connection puts a second handler on the same delivery, and
  one failure more can hit either of them; `Redelivery` allows two. `Rescan` needs no failure
  to overlap handlers and has one. Without the bound, Nack and requeue may
  go on for ever and liveness would fail for a reason nobody doubts. The
  safety proofs have no bound.
* **Scans** (`Runs`). Runs interact through shared rows only, pairwise.
* **Messages.** One is enough for everything that concerns one key; two for
  batches, pages, counters and goroutines that race. `Rescan` has two messages as long as
  one scan runs alone and nothing has failed (`CONSTRAINT SeveralOnlyAlone`), which is
  where goroutines race for a label; scans that overlap and failures meet on one
  message there, for the rows and the events of two messages do not depend on each other. Its pages (`OneOrRepeated`) name a message once, or one message
  twice and another one.
* **Labels.** Two in `Redelivery`, so that a reclassification can change the label; one
  in `Rescan`, where the scans, processes and goroutines are what matters.
* **Symmetry.** `Rescan` permutes classifier processes and label goroutines
  (`WorkerSymmetry`): no definition tells one from another, and its properties are
  invariants and a refinement without fairness that does not mention them.
* **Pages** (`MaxPages`). `ScanStatus` lists two pages for the first scan and at most one
  message for the other (`CONSTRAINT OneLongListing`); `UpToTwo` contains the
  empty page, a page that names a message twice, and pages that overlap with
  each other and with the other scan. The remaining runs list one page.
* **Goroutines and deliveries.** Three goroutines: one can fail while one leaves and
  one is in its handler. Four deliveries and prefetch 3: the queue, the
  library's buffer and the handlers can be non-empty at once.
* **Time** (`MaxTime`). Half-second ticks show the truncation; six ticks exceed a lifetime (4)
  and a login (1), so that a token issued late can expire. `MaxLogin` is an assumption
  about the process (nothing but a signature lies between lookup and token).
  `CONSTRAINT OneRoleEnds` lets one user lose one role, any number of times.
* **Runs of the tool** (`MaxAttempts`). Two: what one run leaves, the next one finds.
* **Rules.** Two rules compete at a time and three make a running maximum that
  is replaced or kept twice. `Rows` of `MCClassifier` holds the matching rules
  in every combination of scope, type, operator, label and two priorities, a rule
  for each reason not to match, and priorities on both sides of each confidence
  band. Priorities are PostgreSQL integers (32 bits) and a score is a 64-bit
  `int`, so `priority*1000 + specificity` does not overflow.
* **Users.** One: every key contains the user and no statement relates two users
  (the mailbox is shared, and only by message).
* **Deadlock.** The configurations that have just one label, and those
  that may end with everything finished, `RuleChoice` and `GmailToken` included, say `CHECK_DEADLOCK FALSE`: with one
  label `EditRules` has nothing to change, and a system that has worked off
  its scans really comes to rest.

`CompleteAnswersAreTrue` is checked with dry runs, which have no second
queue: `getScan` adds the three statuses up and does not see which it is.

## 4. Fairness

`Fairness` asks for weak fairness of the steps that one goroutine or process
takes on its own: `EnqueueStep(r)`, `ClassifierStep(w)`, `LabelerStep(t)` and
`RestartLabelWorker`. The Go scheduler runs every goroutine, the broker delivers
what is queued to an idle consumer, and Docker restarts a worker that exits with
any status (`restart: unless-stopped`, `deployments/docker-compose.yml:102` and
`:124`). The restart matters: `Run` of the label worker returns nil when its
delivery channel is closed, and an on-failure policy would leave it down (the
mutant of `KeepsDraining`).

`LabelPool`: its `Fairness` asks that goroutines take a case of their select, that handlers
return once their context is cancelled, and that `Run`, the waiter and the
client library go on (heartbeats end a dead connection); `DockerRestarts` that the process is
started again unless it was stopped. `CallsReturn` is stated as the hypothesis of
`ConnectionReturns`, because the code does not see to it.

`GmailAuth`: `main` and the callback handlers run, and the timer fires. The exchange of
the code is assumed to answer (its context cannot be cancelled).

Nothing is assumed about the environment: nobody has to start a scan, edit a
rule, poll a scan, or cause a failure, and a failure need not happen for
anything to go on. `WF` is per goroutine and not per call because a
goroutine has one next call.

## 5. Proofs

All theorems hold for every value of the constants that satisfies the
assumptions `StorageAssumption` (run ids are natural numbers, the sets are
finite), `RequestsAssumption`, `MaxFaultsAssumption`, `ScanApiAssumption` and
`LabelersAssumption` (finitely many goroutines), or, for the rule engine,
`UserRulesAssumption` and `ClassifierAssumption`, `PoolAssumption`, `AuthAssumption`,
`GmailAuthAssumption`. In particular the number of
faults, scans, messages, labels, workers and rules is arbitrary.

| Theorem | States | Inductive invariant |
|---|---|---|
| `TypeCorrect` (`TypeProofs`) | `[]TypeOK` | `TypeInv` = `TypeOK`, `BatchOK` (the batch loop is only entered with a message left), `NotStarted` (a run without a row has no goroutine) |
| `CountersAlwaysBalance` (`ScanProofs`) | `[]CountersBalance` | `ScanRowInv`; a row can balance because totals are written between batches, when `BatchOK` says that nothing is left to publish |
| `FinishedStaysFinal` (`ScanProofs`) | `FinishedIsFinal` | the same, with `EnqueuingWhileActive`: a goroutine that could write works on an unfinished row |
| `AppliedAlwaysReal` (`LabelProofs`) | `[]AppliedIsReal` | `AppliedInv`, with `ModifiedBeforeMark`: a handler that is about to mark has modified the message; `MailboxGrows` says nobody undoes that |
| `MailboxTouchedOnlyByApply` (`LabelProofs`) | `[]MailboxOnlyByApply` | `MailboxInv`, with `OnBehalf`: every event in a queue or in a handler is of a run that handed the message over, and on the classified side of an apply run |
| `NothingSilentlyLost` (`DeliveryProofs`) | `[]NoSilentLoss` | `DeliveryInv`, with `RequeuedWhileCutOff`: the delivery of a cut-off worker waits in the queue. Assumes `OneClassifier` |
| `MailAlwaysServed` (`DeliveryProofs`) | `[]MailNeverForgotten` | `MailInv`, with `ServedWhileCutOff`: the message of a cut-off classifier worker is pending, dropped or archived, and stays so; any number of workers |
| `RowsComeFirst` (`DeliveryProofs`) | `[]RowBeforeEvent` | `RowInv`: a handler past its upsert has a row, rows are never deleted |
| `EventsAlwaysHandedOn` (`DeliveryProofs`) | `EventsAreHandedOn` | `LedgerInv`: an open event closes only by a step of its handler, whose pc tells what has been done; `ModifiedBeforeMark` and `RowInv` tell what the calls found |
| `FewAreLostToRaces` (`DeliveryProofs`) | `[]FewLostToRace` | `RowInv` and `RaceInv`: dropped messages and goroutines bound to lose (`Racing`) are together at most labels times other goroutines; a new label makes at most all others racers, and a racer that drops leaves `Racing` |
| `LabelsAlwaysGetApplied` (`DeliveryProofs`) | `[]LabelsGetApplied` | `DeliveryInv`, `RowInv`, `RaceInv`: with one goroutine the bound of `RaceInv` is zero, so nothing is dropped (`NothingDropped`). Assumes `OneClassifier` and `OneGoroutine`; `LabelRace` is what happens with two |
| `PipelineImplementsLedger` (`DeliveryProofs`) | `ImplementsLedger` | `LedgerInv` = `AppliedInv`, `OnBehalf`, `RowInv`: each write finds the guard of its ledger step true |
| `CompleteAnswersAlwaysTrue` (`ScanProofs`) | `CompleteAnswersAreTrue` | `AnswerInv`: `RowsOwned` (the rows of a run are messages it handed over, one row each), `HandedCounted` (processed is at least the number of distinct messages), `ViewsCurrent` (a finished row does not change under a reader). At least as many rows as messages, then, means all of them |
| `OnlyRescansEndComplete` (`ScanProofs`) | `CompleteEndsByRescan` | `AnswerInv`: the finished row stays, so fewer rows must be left (`CountsAlwaysRows`); a row leaves its run only by an upsert of another run (`RowLeaves`), which owns it by `RowsOwned` |
| `OnlyFailuresAbandon` (`ScanProofs`) | `[]AbandonedOnlyByFailure` | with `ScanRowInv`: a goroutine that returns without a failure has just written its row, and a finished row stays |
| `PoolTyped`, `ErrorsAreNeverDropped`, `ReturnsAfterGoroutines`, `KeepsFullConcurrency` (`PoolProofs`) | `[]TypeOK`, `[]NoErrorDropped`, `[]ReturnedMeansStopped`, `[]FullConcurrency` of `LabelPool` | `Ending`: why a goroutine left, and where `Run` can be then; a goroutine that fails has not failed before, so `errCh` has room (`RoomForError`) |
| `PoolImplementsLoop` (`PoolProofs`) | `ImplementsDeliveryLoop` | `OnePlace`: a delivery is in one place, and after a lost connection what the process holds are copies |
| `PoolLosesNothing` (`PoolProofs`) | `[]NothingLostOrDoubled` | `LoopInv`, proved of the abstract `DeliveryLoop`; the refinement carries it over to `Run` |
| `AuthTyped`, `AccessAlwaysRecent`, `ScansAlwaysRead`, `ScansAlwaysHaveUsers` (`AuthProofs`) | `[]TypeOK`, `[]AccessIsRecent`, `[]ScansAreRead`, `[]ScansHaveUsers` of `Auth` | `AccessInv`: every login, token and request is recent (`LoginIsRecent`, `TokenIsRecent`, `RequestIsRecent`), by way of the monotonicity of integer division |
| `FreshTokensAlwaysAccepted` (`AuthProofs`) | `[]FreshTokensAreAccepted` | `TokensAreGood`. Assumes `EveryIssuerIsAnAudience`; `Audience` is what happens without it |
| `ClassifierTyped` (`ClassifierProofs`) | `[]TypeOK` of `Classifier` | `ChoiceInv` = `TypeOK`, `LoopKeepsBest`, and `ListsRules`: the rows are the listed rules in the order of the statement |
| `LoopAlwaysKeepsBest` (`ClassifierProofs`) | `[]LoopKeepsBest` | the same |
| `ClassifierImplementsPrecedence` (`ClassifierProofs`) | `ImplementsPrecedence` | the same: the return after the loop is the one step of `RulePrecedence`, everything before it stutters |
| `OneRuleWins` (`ClassifierProofs`) | at most one rule of a table is `Winner` | none: a fact about well-typed tables, so that `RulePrecedence` promises one label and not one of several |
| `ToolTyped`, `TokenFileAlwaysUsable`, `SavedAlwaysFirstCode` (`GmailAuthProofs`) | `[]TypeOK`, `[]TokenFileStaysUsable`, `[]SavedIsFirstCode` of `GmailAuth` | `ToolInv`, with `FirstCodeTaken`: until `main` takes a code the channel holds the first one or nothing; once it has taken one it no longer serves callbacks, so nothing replaces it before it is saved |

The proofs about the pipeline's rows and mailbox are built from lemmas about what a step may change
(`MailboxChange`, `RowChange`, `LabellingChange`, `QueuedRawStep`,
`HeldRawStep`, ...), so that an invariant is preserved by a few of those and not
by a case split over all actions each time.

The refinement of the rule engine rests on three facts. `ScoreOrder`: a bonus of
at most 70 never outweighs one step of priority in `priority*1000 +
specificity`, so scores compare like pairs, and the bands 200000 and 120000 are
the priorities 200 and 120. `LoopKeepsBest`: replacing only on a strictly higher
score keeps the earliest. And `Before`: among rows of one scope and priority
earlier means a smaller id. `BestOfScope` joins them.

`OneClassifier` is not a convenience. With two classifier processes
`NoSilentLoss` is false: one loses its connection after loading the rules,
the other handles the requeued delivery to the end and the label worker applies
it; then the first upserts, the row falls back to classified and no event is
left. The deployment runs one; `MailNeverForgotten` is what holds for any number.

Every safety invariant, action property and refinement that a passing run checks is a
theorem. Only model-checked are the liveness properties, since fairness (`ENABLED`) is
outside TLAPS's reach: `EnqueueReturns`, `QueuedIsRecorded`, `ClassifiedIsSettled`, `KeepsDraining`,
`ShutdownEnds`, `ConnectionReturns` and `ToolEnds`. The conditions that some theorems
name, `OneClassifier`, `OneGoroutine` and `EveryIssuerIsAnAudience`, are conditions on the
deployment, each with a run or an argument above for what happens without it.

## 6. What the documentation says and the code does not guarantee

1. **`LabelRace`** (bug). Two goroutines that need a label that does not exist yet
   both create it; the second gets 409, which is permanent, and its message is
   acknowledged and stays classified, with no failure involved.
2. **`DryRunApplied`** (bug). `MarkEmailLabelApplied` does not look at the run
   that owns the row: a stale event of an apply run marks the row of a later
   dry run, whose counters then report an applied message.
3. **`ScanHistory`**. A later scan takes the rows over, and the earlier, complete
   scan is reported as processing from then on. (Within one run, a redelivered raw event
   likewise takes an applied row back to classified until the label worker has
   gone through the message again.)
4. **`StuckRun`**. One lost answer, one restart or one failed completion
   statement leaves a run at enqueuing for ever.
5. **`Audience`** (bug). `requireAuth` passes `JWT_ISSUER` as the audience that a token must name.
   A server with its own issuer and the default audience starts, logs users in and
   refuses every token it has issued.

## 7. Not modelled

* Timestamps, reasons (and, in the pipeline, the confidence), logging, HTTP encoding: no decision of the
  pipeline depends on them.
* The mailbox owner's own edits; other clients of the queues and the database.
* The text side of matching: mail address parsing, trimming, lower-casing and
  substring search are one attribute of a rule (`hit`).
* Cryptography (HMAC, the hash of a Telegram login) and how old a login's `auth_date` is: a
  login is right or it is refused. Most of the configuration: addresses, file names and sizes
  are constants of a model; the variables of login, tokens and schedule are `Load` of
  `Auth`. Migrations and seed rules are data.
* The classifier worker's `Run` is a loop over one channel and has no goroutines of its own;
  its exit and restart are `RestartClassifier` of `ClassifierWorker`.
* The rate of retries: Nack with requeue is a hot loop, which has no meaning here.

## 8. Plan

Order of work, most important behaviour first. Done:

1. `Storage`, `Broker`, `Gmail`, `Faults`, the three processes and their
   composition, checked as above; `TypeProofs`, `ScanProofs`.
2. `LabelProofs`: what is done to the mailbox. `DeliveryProofs`: at-least-once delivery,
   with any number of classifier workers, and without failures.
3. `UserRules`, `Classifier`, `RulePrecedence`, `ClassifierProofs`: which label a
   message gets.
4. `LabelPool`, `DeliveryLoop`, `PoolProofs`: `Run` and its shutdown.
5. `Auth`, `AuthProofs`: who may do what, for how long. `GmailAuth`: the token tool.
6. `MessageLedger`: the abstract specification of rows and mailbox, and the truth of
   "complete" (`DeliveryProofs`, `ScanProofs`).
7. `GmailAuthProofs`; when an event is given up (`EventsAlwaysHandedOn`); what the label race
   costs (`FewAreLostToRaces`); what ends "complete" and what abandons a scan
   (`OnlyRescansEndComplete`, `OnlyFailuresAbandon`); the abstract consumer's conservation of
   deliveries (`PoolLosesNothing`); the uniqueness of the rule that wins (`OneRuleWins`).

Left:

1. The composition of `LabelPool` with `LabelWorker`: the pipeline's label worker shown to be
   a pool whose handlers are those of `LabelWorker`, instead of two views.
2. Two users who share the mailbox with different rules: what
   `email_messages` then says of one message twice.
