----------------------- MODULE MCSandboxEnvironments -----------------------
EXTENDS SandboxEnvironments, TLC

CONSTANTS dflt, x1, x2, y1

\* x is created, deleted and created again; y competes for the default slot.
MCEnvs == {dflt, x1, x2, y1}
MCNameOf == (dflt :> "default") @@ (x1 :> "x") @@ (x2 :> "x") @@ (y1 :> "y")

MCBodies ==
    {[enabled |-> "on", isDefault |-> "set"], [enabled |-> "off", isDefault |-> "keep"],
     [enabled |-> "keep", isDefault |-> "set"], [enabled |-> "keep", isDefault |-> "clear"]}

\* The writes that race for the flags, without builds; the builds of two
\* versions of x; of an x that is deleted; under a change of flags and a new key;
\* and the reserved environment's shared snapshot, deactivated while x builds.
MCBudgets ==
    LET none == [put |-> 0, delete |-> 0, patch |-> 0, rotate |-> 0, idle |-> 0,
                 names |-> {"x"}, loop |-> TRUE]
    IN  {[none EXCEPT !.put = 2, !.delete = 1, !.patch = 3,
                      !.names = {"x", "y"}, !.loop = FALSE],
         [none EXCEPT !.put = 2],
         [none EXCEPT !.put = 1, !.delete = 1],
         [none EXCEPT !.patch = 2, !.rotate = 1],
         [none EXCEPT !.put = 1, !.rotate = 1, !.idle = 1]}
=============================================================================
