---------------------------- MODULE MessageLedger ---------------------------
(***************************************************************************)
(* What the pipeline promises about the messages of a mailbox, without      *)
(* processes, queues, goroutines or failures: a run offers messages; an     *)
(* offered message may be recorded for the run; once it has a row, an apply *)
(* run may label and archive it; and only what has been done to the message *)
(* is confirmed in its row.  Each may happen again and late, for rows are   *)
(* keyed by user and message and the pipeline redelivers.                   *)
(***************************************************************************)
CONSTANTS Users, Messages, Labels, NoLabel, Runs

VARIABLES
  request,    \* run -> what it was requested with
  offered,    \* run -> the messages it has sent on their way
  rows,       \* (user, message) -> the row that a reader sees
  mailbox     \* message -> its labels, and whether it is in the inbox, unread

ledgerVars == <<request, offered, rows, mailbox>>

Key(r, m) == <<request[r].user, m>>

Init ==
  /\ request \in [Runs -> [user : Users, mode : {"dry_run", "apply"},
                           markRead : BOOLEAN]]
  /\ offered = [r \in Runs |-> {}]
  /\ rows = [k \in {} |-> {}]
  /\ mailbox = [m \in Messages |->
                  [labels |-> {}, inbox |-> TRUE, unread |-> TRUE]]

Offer(r, m) ==
  /\ offered' = [offered EXCEPT ![r] = @ \cup {m}]
  /\ UNCHANGED <<request, rows, mailbox>>

\* The row becomes the run's, whatever it said before.
Record(r, m, label) ==
  LET status == [dry_run |-> "dry_run", apply |-> "classified"] IN
  /\ m \in offered[r]
  /\ rows' = [k \in DOMAIN rows \cup {Key(r, m)} |->
                IF k = Key(r, m)
                  THEN [run |-> r, predicted |-> label, applied |-> NoLabel,
                        status |-> status[request[r].mode]]
                  ELSE rows[k]]
  /\ UNCHANGED <<request, offered, mailbox>>

\* An apply run may act on a message that has a row.
MayApply(r, m) ==
  /\ m \in offered[r]
  /\ request[r].mode = "apply"
  /\ Key(r, m) \in DOMAIN rows

Label(r, m, label) ==
  /\ MayApply(r, m)
  /\ mailbox' = [mailbox EXCEPT ![m] =
                   [labels |-> @.labels \cup {label},
                    inbox  |-> FALSE,
                    unread |-> @.unread /\ ~request[r].markRead]]
  /\ UNCHANGED <<request, offered, rows>>

Confirm(r, m, label) ==
  /\ MayApply(r, m)
  /\ label \in mailbox[m].labels
  /\ ~mailbox[m].inbox
  /\ rows' = [rows EXCEPT ![Key(r, m)] =
                [@ EXCEPT !.applied = label, !.status = "applied"]]
  /\ UNCHANGED <<request, offered, mailbox>>

Next ==
  \E r \in Runs, m \in Messages :
    \/ Offer(r, m)
    \/ \E label \in Labels :
         Record(r, m, label) \/ Label(r, m, label) \/ Confirm(r, m, label)

Spec == Init /\ [][Next]_ledgerVars

=============================================================================
