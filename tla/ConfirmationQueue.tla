--------------------------- MODULE ConfirmationQueue ---------------------------
(***************************************************************************)
(* What the processor relies on: an entry that is put into the queue of     *)
(* pending confirmations leaves it, is confirmed at most once, and is never *)
(* put back. A check that is under way when its entry is dropped may still  *)
(* confirm it. One step may change several entries: an addition drops       *)
(* another one, and a clean-up removes all that have waited too long.       *)
(***************************************************************************)
CONSTANT Entry

VARIABLE state  \* unseen, waiting, confirmed or abandoned

Init == state = [e \in Entry |-> "unseen"]

Moves == {<<"unseen", "waiting">>, <<"waiting", "abandoned">>,
          <<"waiting", "confirmed">>, <<"abandoned", "confirmed">>}

Changed == {e \in Entry : state'[e] # state[e]}
Enters(s) == {e \in Changed : state'[e] = s}

(* At most one entry is added or confirmed at a time.                       *)
Next ==
  /\ DOMAIN state' = Entry
  /\ \A e \in Changed : <<state[e], state'[e]>> \in Moves
  /\ \A d, e \in Enters("waiting") \cup Enters("confirmed") : d = e

(* No entry waits for ever; none comes back, so this is said with []<>.     *)
Leaves(e) == []<>(state[e] # "waiting")

Spec == Init /\ [][Next]_state /\ \A e \in Entry : Leaves(e)

=============================================================================
