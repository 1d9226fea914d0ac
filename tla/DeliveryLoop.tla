----------------------------- MODULE DeliveryLoop ----------------------------
(***************************************************************************)
(* What a consumer of a queue promises, whatever its goroutines, channels   *)
(* and contexts: at-least-once work.  A delivery is settled only by a       *)
(* worker that handled it while the broker still counted on it; until then  *)
(* it waits, or one worker has it.  When the link breaks everything that    *)
(* is not settled waits again, and what workers do meanwhile is in vain.    *)
(***************************************************************************)

CONSTANTS
  Workers,
  Deliveries,
  NoDelivery

VARIABLES
  waiting,   \* deliveries the broker would hand out
  working,   \* worker -> the delivery it handles
  linked,    \* the broker counts on the workers
  settled    \* deliveries the broker has forgotten

vars == <<waiting, working, linked, settled>>

Idle == [w \in Workers |-> NoDelivery]

Init ==
  /\ waiting = Deliveries
  /\ working = Idle
  /\ linked = TRUE
  /\ settled = {}

\* Without a link a worker can only begin what it was sent earlier: the
\* broker does not notice.
Begin(w, d) ==
  /\ working[w] = NoDelivery
  /\ d \in waiting
  /\ working' = [working EXCEPT ![w] = d]
  /\ waiting' = IF linked THEN waiting \ {d} ELSE waiting
  /\ UNCHANGED <<linked, settled>>

End(w) ==
  /\ working[w] # NoDelivery
  /\ working' = [working EXCEPT ![w] = NoDelivery]
  /\ UNCHANGED linked

Settle(w) ==
  /\ linked
  /\ End(w)
  /\ settled' = settled \cup {working[w]}
  /\ UNCHANGED waiting

GiveBack(w) ==
  /\ linked
  /\ End(w)
  /\ waiting' = waiting \cup {working[w]}
  /\ UNCHANGED settled

EndInVain(w) ==
  /\ ~linked
  /\ End(w)
  /\ UNCHANGED <<waiting, settled>>

AllWaitAgain == waiting' = Deliveries \ settled /\ UNCHANGED settled

LoseLink == linked /\ linked' = FALSE /\ AllWaitAgain /\ UNCHANGED working

StartAgain == linked' = TRUE /\ working' = Idle /\ AllWaitAgain

Next ==
  \/ \E w \in Workers :
       \/ \E d \in Deliveries : Begin(w, d)
       \/ Settle(w)
       \/ GiveBack(w)
       \/ EndInVain(w)
  \/ LoseLink
  \/ StartAgain

Spec == Init /\ [][Next]_vars

-----------------------------------------------------------------------------
(* What a consumer can rely on *)

Held == {working[w] : w \in Workers} \ {NoDelivery}

\* At least once, and not twice at a time: a delivery that is not settled waits
\* or is in a worker's hands; while the link holds one worker has it, and
\* what is settled never waits or is handled again.
NothingLostOrDoubled ==
  /\ waiting \cup Held \cup settled = Deliveries
  /\ waiting \cap settled = {}
  /\ linked =>
       /\ Held \cap (waiting \cup settled) = {}
       /\ \A v, w \in Workers :
            working[v] = working[w] /\ working[v] # NoDelivery => v = w

=============================================================================
