---------------------------- MODULE MCTurnServer ----------------------------
(* Instances of TurnServer: two turns, one or two replicas. *)
EXTENDS TurnServer, TLC

CONSTANTS t1, t2, e1, e2, c1, main, sub

MCTurns == {t1, t2}
MCThreads == {main, sub}
OneThread == {main}
MCExecutors == {e1, e2}
OneExecutor == {e1}
MCCancels == {c1}
MCEvents == {"turn.created", "thread.created", "thread.done", "output", "event"}
AnyRequest == {"auto", "none"} \cup MCTurns
AllKinds == Kinds
Symmetry == Permutations(MCTurns) \cup Permutations(MCExecutors)
=============================================================================
