-------------------------- MODULE MCPostgresStore --------------------------
(* Two connections on a session of two turns. *)
EXTENDS PostgresStore, TLC

CONSTANTS t1, t2, main, c1, c2

MCTurns == {t1, t2}
OneThread == {main}
TwoConnections == {c1, c2}
Symmetry == Permutations(MCTurns) \cup Permutations({c1, c2})
=============================================================================
