--------------------------- MODULE MCAgentThreads ---------------------------
EXTENDS AgentThreads, TLC

CONSTANTS main, a, b

MCChildren == {a, b}
Symmetry == Permutations(MCChildren)

\* The shapes that decide how threads interact, two calls at most.
MCMainShapes ==
  {<<>>, <<"client">>, <<"tool", "thread">>, <<"approval", "thread">>, <<"thread", "thread">>}
MCChildShapes == {<<>>, <<"approval">>}

\* Every other mix of kinds the code tells apart.
MCMixedShapes ==
  {<<>>, <<"tool">>, <<"thread">>, <<"tool", "approval">>, <<"client", "thread">>}
MCMixedChildShapes == {<<>>, <<"tool">>, <<"approval">>}
=============================================================================
