-------------------------------- MODULE Gmail -------------------------------
(***************************************************************************)
(* internal/gmail: the one mailbox behind the Gmail client.  All users of   *)
(* the system share it (the client is created once, for GMAIL_USER_ID).     *)
(* Labels that differ only in case are the same label (EnsureLabel compares *)
(* with EqualFold), so Labels holds one name of each.                       *)
(* The mailbox owner's own edits are not modelled.                          *)
(***************************************************************************)
EXTENDS Storage

VARIABLES
  mailboxLabels,  \* names of the labels that exist in the mailbox
  mailbox         \* message -> its user labels and its INBOX / UNREAD labels

gmailVars == <<mailboxLabels, mailbox>>

Mail == [labels : SUBSET Labels, inbox : BOOLEAN, unread : BOOLEAN]

GmailTypeOK ==
  /\ mailboxLabels \subseteq Labels
  /\ mailbox \in [Messages -> Mail]

GmailInit ==
  /\ mailboxLabels = {}
  /\ mailbox = [g \in Messages |->
                  [labels |-> {}, inbox |-> TRUE, unread |-> TRUE]]

\* users.labels.create, the second half of EnsureLabel.
CreateLabel(label) == mailboxLabels' = mailboxLabels \cup {label}

\* Mutant: UNREAD is always removed.
ModifyAlwaysRead(g, label, markRead) ==
  mailbox' = [mailbox EXCEPT ![g] =
                [labels |-> @.labels \cup {label},
                 inbox  |-> FALSE,
                 unread |-> FALSE]]

\* users.messages.modify: add the label, archive, and mark read on request.
ApplyLabelToMessage(g, label, markRead) ==
  mailbox' = [mailbox EXCEPT ![g] =
                [labels |-> @.labels \cup {label},
                 inbox  |-> FALSE,
                 unread |-> @.unread /\ ~markRead]]

=============================================================================
