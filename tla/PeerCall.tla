------------------------------ MODULE PeerCall ------------------------------
(***************************************************************************)
(* What the request-reply transport promises to a caller, and what the     *)
(* cancel endpoint builds on: a request is handled at most once; an answer *)
(* is the handler's; a refused request is never handled; one given up on   *)
(* may still be handled later.                                             *)
(***************************************************************************)
CONSTANTS Calls, Statuses

VARIABLES call,     \* "new", "waiting", "refused", "failed", or the status answered
          handled   \* "no", or the status the handler produced

Init ==
  /\ call = [c \in Calls |-> "new"]
  /\ handled = [c \in Calls |-> "no"]

Send(c) ==
  /\ call[c] = "new"
  /\ call' = [call EXCEPT ![c] = "waiting"]
  /\ UNCHANGED handled

Refuse(c) ==
  /\ call[c] = "new"
  /\ call' = [call EXCEPT ![c] = "refused"]
  /\ UNCHANGED handled

Handle(c, status) ==
  /\ call[c] \in {"waiting", "failed"}
  /\ handled[c] = "no"
  /\ handled' = [handled EXCEPT ![c] = status]
  /\ UNCHANGED call

Answer(c) ==
  /\ call[c] = "waiting"
  /\ handled[c] # "no"
  /\ call' = [call EXCEPT ![c] = handled[c]]
  /\ UNCHANGED handled

GiveUp(c) ==
  /\ call[c] = "waiting"
  /\ call' = [call EXCEPT ![c] = "failed"]
  /\ UNCHANGED handled

Next == \E c \in Calls :
  \/ Send(c) \/ Refuse(c) \/ Answer(c) \/ GiveUp(c)
  \/ \E status \in Statuses : Handle(c, status)

Spec == Init /\ [][Next]_<<call, handled>>
=============================================================================
