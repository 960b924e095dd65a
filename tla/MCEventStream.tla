---------------------------- MODULE MCEventStream ----------------------------
(* Instances of EventStream: two subscribers of one turn. *)
EXTENDS EventStream

CONSTANTS s1, s2

TwoSubscribers == {s1, s2}
=============================================================================
