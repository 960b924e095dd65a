---------------------------- MODULE TurnLifecycle ----------------------------
(***************************************************************************)
(* What the turn API promises a client, with no executor, store row, lock  *)
(* or signal in sight.  A turn is opened once, is closed once, and its     *)
(* stream announces one outcome: the one it was closed with.  Only the     *)
(* deletion of the session takes an outcome away.                          *)
(***************************************************************************)
CONSTANTS Turns

VARIABLES state,     \* "absent", "open", an outcome, or "deleted"
          announced  \* the outcome the stream announced, or "none"

vars == <<state, announced>>

Outcome == {"done", "cancelled", "error"}

Init ==
  /\ state = [t \in Turns |-> "absent"]
  /\ announced = [t \in Turns |-> "none"]

Open(t) ==
  /\ state[t] = "absent"
  /\ state' = [state EXCEPT ![t] = "open"]
  /\ UNCHANGED announced

Close(t, o) ==
  /\ state[t] = "open"
  /\ state' = [state EXCEPT ![t] = o]
  /\ UNCHANGED announced

Announce(t, o) ==
  /\ announced[t] = "none"
  /\ state[t] \in {o, "deleted"}
  /\ announced' = [announced EXCEPT ![t] = o]
  /\ UNCHANGED state

Delete ==
  /\ state' = [t \in Turns |-> "deleted"]
  /\ UNCHANGED announced

Next ==
  \/ \E t \in Turns : Open(t)
  \/ \E t \in Turns, o \in Outcome : Close(t, o) \/ Announce(t, o)
  \/ Delete

Spec == Init /\ [][Next]_vars
=============================================================================
