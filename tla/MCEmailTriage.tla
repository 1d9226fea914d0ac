---------------------------- MODULE MCEmailTriage ---------------------------
(***************************************************************************)
(* Small instances of EmailTriage for TLC.                                  *)
(***************************************************************************)
EXTENDS EmailTriage, TLC

CONSTANTS u1, m1, m2

OneUser == {u1}

\* The requests a run may serve.
AllRequests == [user : {u1}, mode : Modes, markRead : BOOLEAN]
EitherMode == [user : {u1}, mode : Modes, markRead : {FALSE}]
ApplyOnly == [user : {u1}, mode : {"apply"}, markRead : {FALSE}]
DryRunOnly == [user : {u1}, mode : {"dry_run"}, markRead : {FALSE}]

\* Listings: one message or none; pages with no, one or two messages, the
\* same one twice included; always one; always both;
\* one, or both and one of them twice.
OneOrNone == {<<>>, <<m1>>}
UpToTwo == {<<>>, <<m1>>, <<m1, m2>>, <<m1, m1>>}
One == {<<m1>>}
Both == {<<m1, m2>>}
OneOrRepeated == {<<m1>>, <<m1, m1, m2>>}

\* The first scan may list two pages, the others list one message at most.
OneLongListing ==
  \A r \in Runs : r # 1 => ~enqueue[r].more /\ enqueue[r].found <= 1

\* A scan of several messages is the only one, and free of failures.
SeveralOnlyAlone ==
  \A r \in Runs :
    enqueue[r].found > 1 => faults = 0 /\ DOMAIN scanRuns = {r}

\* No definition tells one worker process, or one goroutine of the label
\* worker, from another.
WorkerSymmetry ==
  {p @@ q : p \in Permutations(Classifiers), q \in Permutations(Labelers)}

=============================================================================
