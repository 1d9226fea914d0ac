------------------------------- MODULE Storage ------------------------------
(***************************************************************************)
(* internal/storage: the PostgreSQL tables that the three processes share, *)
(* and the statements the code runs on them.  One statement is one atomic   *)
(* step (the code never opens a transaction).  A table is a partial         *)
(* function from its key to its row.                                        *)
(*                                                                          *)
(* Timestamps, confidence and reason columns are left out: no statement     *)
(* reads them.                                                              *)
(***************************************************************************)
EXTENDS Naturals, FiniteSets

CONSTANTS
  Users,        \* users.id values
  Messages,     \* Gmail message ids
  Labels,       \* label names a rule can target, Unknown included
  NoLabel,      \* SQL NULL in applied_label
  Runs          \* scan_runs.id values; bounds the number of scans

ASSUME StorageAssumption ==
  /\ Runs \subseteq Nat
  /\ IsFiniteSet(Users)
  /\ IsFiniteSet(Messages)
  /\ NoLabel \notin Labels

VARIABLES
  scanRuns,       \* table scan_runs
  emailMessages,  \* table email_messages, keyed by (user_id, gmail_message_id)
  verdict         \* table user_rules, seen through the classifier: the label
                  \* the rules now enabled for a user give to a message

storageVars == <<scanRuns, emailMessages, verdict>>

Modes == {"dry_run", "apply"}
FinishedStatuses == {"queued", "queued_with_errors", "failed"}
EmailStatuses == {"dry_run", "classified", "applied"}
MessageKeys == Users \X Messages

ScanRun ==
  [user : Users, mode : Modes, status : {"enqueuing"} \cup FinishedStatuses,
   found : Nat, processed : Nat, failed : Nat]

EmailMessage ==
  [run : Runs, predicted : Labels, applied : Labels \cup {NoLabel},
   status : EmailStatuses]

StorageTypeOK ==
  /\ DOMAIN scanRuns \subseteq Runs
  /\ scanRuns \in [DOMAIN scanRuns -> ScanRun]
  /\ DOMAIN emailMessages \subseteq MessageKeys
  /\ emailMessages \in [DOMAIN emailMessages -> EmailMessage]
  /\ verdict \in [MessageKeys -> Labels]

StorageInit ==
  /\ scanRuns = [r \in {} |-> {}]
  /\ emailMessages = [k \in {} |-> {}]
  /\ verdict \in [MessageKeys -> Labels]

\* Insert or overwrite one row of a table.
With(table, key, row) ==
  [k \in DOMAIN table \cup {key} |-> IF k = key THEN row ELSE table[k]]

\* Remove one row of a table.
Without(table, key) == [k \in DOMAIN table \ {key} |-> table[k]]

-----------------------------------------------------------------------------
(* scan_runs *)

\* INSERT INTO scan_runs ... RETURNING id: ids are handed out in order and
\* the counters start at their column default.
CreateScanRun(r, u, mode) ==
  /\ r \notin DOMAIN scanRuns
  /\ \A q \in Runs : q < r => q \in DOMAIN scanRuns
  /\ scanRuns' = With(scanRuns, r,
       [user |-> u, mode |-> mode, status |-> "enqueuing",
        found |-> 0, processed |-> 0, failed |-> 0])

UpdateScanRunProgress(r, found, processed, failed) ==
  scanRuns' = [scanRuns EXCEPT ![r] =
    [@ EXCEPT !.found = found, !.processed = processed, !.failed = failed]]

CompleteScanRun(r, status, found, processed, failed) ==
  scanRuns' = [scanRuns EXCEPT ![r] =
    [@ EXCEPT !.status = status,
              !.found = found, !.processed = processed, !.failed = failed]]

-----------------------------------------------------------------------------
(* email_messages *)

\* Mutant: the UPDATE forgets scan_run_id.
UpsertKeepsRun(r, key, label, status) ==
  emailMessages' = With(emailMessages, key,
    [run |-> IF key \in DOMAIN emailMessages THEN emailMessages[key].run ELSE r,
     predicted |-> label, applied |-> NoLabel, status |-> status])

\* Mutant: the row goes to the latest scan of all.
UpsertForLatestRun(r, key, label, status) ==
  emailMessages' = With(emailMessages, key,
    [run |-> Cardinality(DOMAIN scanRuns),
     predicted |-> label, applied |-> NoLabel, status |-> status])

\* INSERT ... ON CONFLICT (user_id, gmail_message_id) DO UPDATE: every column
\* of an existing row is overwritten, applied_label by the NULL the classifier
\* worker passes.
UpsertEmailMessage(r, key, label, status) ==
  emailMessages' = With(emailMessages, key,
    [run |-> r, predicted |-> label, applied |-> NoLabel, status |-> status])

\* Mutant: the UPDATE forgets the status column.
MarkLabelOnly(key, label) ==
  emailMessages' = [emailMessages EXCEPT ![key].applied = label]

\* UPDATE ... WHERE user_id AND gmail_message_id: neither the run nor the
\* predicted label of the row is looked at.
MarkEmailLabelApplied(key, label) ==
  emailMessages' = [emailMessages EXCEPT ![key] =
    [@ EXCEPT !.applied = label, !.status = "applied"]]

\* Mutant: the WHERE clause is missing.
CountAllEmailMessages(r) ==
  [s \in EmailStatuses |->
     Cardinality({k \in DOMAIN emailMessages : emailMessages[k].status = s})]

\* SELECT status, COUNT(*) ... WHERE scan_run_id = r GROUP BY status
CountEmailMessagesByScanRun(r) ==
  [s \in EmailStatuses |->
     Cardinality({k \in DOMAIN emailMessages :
                    emailMessages[k].run = r /\ emailMessages[k].status = s})]

-----------------------------------------------------------------------------
(* user_rules *)

\* Someone edits user_rules (migrations, psql, the admin console): the label
\* that a message gets from now on changes.
EditRules ==
  /\ \E k \in MessageKeys : \E l \in Labels \ {verdict[k]} :
       verdict' = [verdict EXCEPT ![k] = l]
  /\ UNCHANGED <<scanRuns, emailMessages>>

=============================================================================
