---------------------- MODULE SandboxEnvironmentsProofs ----------------------
(***************************************************************************)
(* The default slot and the builds, for any number of environments, names,  *)
(* PATCH requests, versions, progress calls, timeouts and restarts.         *)
(*                                                                          *)
(* The slot: at most one environment is the default, and it is active and   *)
(* enabled.  The invariant is inductive once it also says what the row lock *)
(* of setDefaultEnvironment protects (HeldTargets) and that the reserved    *)
(* environment, the only one inserted as the default, is inserted first     *)
(* and stays (ReservedFirst).                                               *)
(*                                                                          *)
(* The builds: a ready version's snapshot is its own (SnapshotMatches) and  *)
(* an active environment's newest ready version is the one it points to     *)
(* (ActiveIsNewestReady).  BuildInv adds where snapshot names come from     *)
(* (VersionsOK, SnapsOK), what a call knows of its version (CallsOK) and,   *)
(* while nothing has failed, that calls do not overlap (AloneOK).           *)
(***************************************************************************)
EXTENDS SandboxEnvironments, TLAPS

\* The progress of a PATCH.
PatchState ==
    {Idle}
    \cup [pc : {"enabled"}, body : {b \in Bodies : b.enabled # "keep"}, name : Names]
    \cup [pc : {"set", "clear"}, body : Bodies, name : Names]
    \cup [pc : {"setting"}, env : Envs, seen : SUBSET Envs]

SlotTypes ==
    /\ stage \in [Envs -> {"absent", "active", "deleted"}]
    /\ enabled \in [Envs -> BOOLEAN]
    /\ isDefault \in [Envs -> BOOLEAN]
    /\ patch \in [Patches -> PatchState]
    /\ key \in Nat

Holds(p, e) == patch[p].pc = "setting" /\ patch[p].env = e

\* The target of a set-default that holds its row is active and enabled, and no
\* other request holds it.
HeldTargets ==
    \A p \in Patches, e \in Envs : Holds(p, e) =>
        /\ stage[e] = "active"
        /\ enabled[e]
        /\ \A q \in Patches : Holds(q, e) => q = p

\* The reserved environment exists from the provider's first PUT on, and
\* nothing does before.
ReservedFirst ==
    IF key = 0 THEN \A e \in Envs : stage[e] = "absent"
               ELSE stage[Reserved] = "active"

SlotInv == SlotTypes /\ HeldTargets /\ ReservedFirst /\ DefaultSlot

slotVars == <<flags, patch, key>>

LEMMA SlotInit == Init => SlotInv
  <1> SUFFICES ASSUME Init PROVE SlotInv
    OBVIOUS
  <1>1. SlotTypes
    BY DEF Init, SlotTypes, PatchState
  <1>2. HeldTargets /\ ReservedFirst /\ DefaultSlot
    BY DEF Init, HeldTargets, Holds, ReservedFirst, DefaultSlot, Idle
  <1> QED
    BY <1>1, <1>2 DEF SlotInv

\* Steps of the loop, of progress calls and of Daytona leave the slot alone.
LEMMA SlotUnchanged == SlotInv /\ UNCHANGED slotVars => SlotInv'
  BY DEF SlotInv, slotVars, flags, SlotTypes, HeldTargets, Holds, ReservedFirst, DefaultSlot

\* A write leaves the flags of an existing row alone, or inserts a row.
LEMMA WriteEffect ==
    ASSUME NEW n, NEW s, WriteEnvironment(n, s)
    PROVE  \/ \E e \in Envs : NameOf[e] = n /\ stage[e] = "active" /\ UNCHANGED flags
           \/ \E e \in Envs :
                /\ NameOf[e] = n
                /\ stage[e] = "absent"
                /\ Row(n) = {}
                /\ stage' = [stage EXCEPT ![e] = "active"]
                /\ enabled' = [enabled EXCEPT ![e] = TRUE]
                /\ isDefault' = [isDefault EXCEPT ![e] = (e = Reserved)]
  <1>1. CASE \E e \in Row(n) : UNCHANGED flags
    BY <1>1 DEF Row
  <1>2. CASE ~ \E e \in Row(n) : UNCHANGED flags
    <2> DEFINE e == CHOOSE x \in Envs : NameOf[x] = n /\ stage[x] = "absent"
    <2>1. /\ Row(n) = {}
          /\ \E x \in Envs : NameOf[x] = n /\ stage[x] = "absent"
          /\ stage' = [stage EXCEPT ![e] = "active"]
          /\ enabled' = [enabled EXCEPT ![e] = TRUE]
          /\ isDefault' = [isDefault EXCEPT ![e] = (e = Reserved)]
      BY <1>2 DEF WriteEnvironment
    <2>2. e \in Envs /\ NameOf[e] = n /\ stage[e] = "absent"
      BY <2>1
    <2> HIDE DEF e
    <2> QED
      BY <2>1, <2>2
  <1> QED
    BY <1>1, <1>2

\* The provider's PUT finds the reserved row, or inserts it into an empty table.
LEMMA PutProviderKeepsSlot == SlotInv /\ PutProvider => SlotInv'
  <1> SUFFICES ASSUME SlotInv, PutProvider PROVE SlotInv'
    OBVIOUS
  <1> USE EnvsAssumption
  <1>1. /\ WriteEnvironment(NameOf[Reserved], ReservedSpec)
        /\ key' = key + 1
        /\ key' \in Nat
        /\ key' # 0
        /\ patch' = patch
    BY DEF PutProvider, SlotInv, SlotTypes
  <1>2. CASE stage[Reserved] = "active" /\ UNCHANGED flags
    BY <1>1, <1>2 DEF SlotInv, flags, SlotTypes, HeldTargets, Holds, ReservedFirst, DefaultSlot
  <1>3. CASE /\ stage[Reserved] = "absent"
             /\ stage' = [stage EXCEPT ![Reserved] = "active"]
             /\ enabled' = [enabled EXCEPT ![Reserved] = TRUE]
             /\ isDefault' = [isDefault EXCEPT ![Reserved] = TRUE]
    <2>1. \A e \in Envs : stage[e] = "absent" /\ ~isDefault[e]
      BY <1>3 DEF SlotInv, ReservedFirst, DefaultSlot
    <2>2. SlotTypes'
      BY <1>1, <1>3 DEF SlotInv, SlotTypes
    <2>3. HeldTargets'
      BY <1>1, <1>3, <2>1 DEF SlotInv, SlotTypes, HeldTargets, Holds
    <2>4. ReservedFirst' /\ DefaultSlot'
      BY <1>1, <1>3, <2>1 DEF SlotInv, SlotTypes, ReservedFirst, DefaultSlot
    <2> QED
      BY <2>2, <2>3, <2>4 DEF SlotInv
  <1> QED
    BY <1>1, <1>2, <1>3, WriteEffect

LEMMA PutEnvironmentKeepsSlot ==
    ASSUME SlotInv, NEW n \in Names, NEW s \in Specs, PutEnvironment(n, s)
    PROVE  SlotInv'
  <1> USE EnvsAssumption
  <1>1. /\ WriteEnvironment(n, s)
        /\ n # NameOf[Reserved]
        /\ key # 0
        /\ UNCHANGED <<key, patch>>
    BY DEF PutEnvironment, Request
  <1>2. CASE UNCHANGED flags
    BY <1>1, <1>2, SlotUnchanged DEF slotVars
  <1>3. ASSUME NEW e \in Envs,
               NameOf[e] = n,
               stage[e] = "absent",
               stage' = [stage EXCEPT ![e] = "active"],
               enabled' = [enabled EXCEPT ![e] = TRUE],
               isDefault' = [isDefault EXCEPT ![e] = (e = Reserved)]
        PROVE  SlotInv'
    <2>1. e # Reserved /\ ~isDefault[e] /\ isDefault' = isDefault
      BY <1>1, <1>3 DEF SlotInv, SlotTypes, DefaultSlot
    <2>2. SlotTypes'
      BY <1>1, <1>3, <2>1 DEF SlotInv, SlotTypes
    <2>3. HeldTargets'
      BY <1>1, <1>3 DEF SlotInv, SlotTypes, HeldTargets, Holds
    <2>4. ReservedFirst' /\ DefaultSlot'
      BY <1>1, <1>3, <2>1 DEF SlotInv, SlotTypes, ReservedFirst, DefaultSlot
    <2> QED
      BY <2>2, <2>3, <2>4 DEF SlotInv
  <1> QED
    BY <1>1, <1>2, <1>3, WriteEffect

\* The row DELETE takes is neither the default nor held by a set-default.
LEMMA DeleteKeepsSlot ==
    ASSUME SlotInv, NEW n \in Names, DeleteEnvironment(n)
    PROVE  SlotInv'
  <1> USE EnvsAssumption
  <1>1. PICK e \in Envs : /\ NameOf[e] = n
                          /\ n # NameOf[Reserved]
                          /\ ~Locked(e)
                          /\ ~isDefault[e]
                          /\ stage' = [stage EXCEPT ![e] = "deleted"]
                          /\ key # 0
                          /\ UNCHANGED <<enabled, isDefault, key, patch>>
    BY DEF DeleteEnvironment, Row, Request
  <1>2. SlotTypes'
    BY <1>1 DEF SlotInv, SlotTypes
  <1>3. HeldTargets'
    BY <1>1 DEF SlotInv, SlotTypes, HeldTargets, Holds, Locked
  <1>4. ReservedFirst' /\ DefaultSlot'
    BY <1>1 DEF SlotInv, SlotTypes, ReservedFirst, DefaultSlot
  <1> QED
    BY <1>2, <1>3, <1>4 DEF SlotInv

\* A PATCH that moves on without taking a row, leaving the flags as they are.
LEMMA PatchMoves ==
    ASSUME SlotInv, NEW p \in Patches, NEW st \in PatchState, st.pc # "setting",
           patch' = [patch EXCEPT ![p] = st], UNCHANGED <<flags, key>>
    PROVE  SlotInv'
  <1>1. SlotTypes'
    BY DEF SlotInv, SlotTypes, flags
  <1>2. HeldTargets'
    BY DEF SlotInv, SlotTypes, HeldTargets, Holds, flags
  <1>3. ReservedFirst' /\ DefaultSlot'
    BY DEF SlotInv, ReservedFirst, DefaultSlot, flags
  <1> QED
    BY <1>1, <1>2, <1>3 DEF SlotInv

LEMMA IdleState == Idle \in PatchState /\ Idle.pc # "setting"
  BY DEF PatchState, Idle

LEMMA PatchLoadKeepsSlot ==
    ASSUME SlotInv, NEW p \in Patches, NEW n \in Names, NEW b \in Bodies, PatchLoad(p, n, b)
    PROVE  SlotInv'
  <1> DEFINE st == [pc |-> IF b.enabled = "keep" THEN b.isDefault ELSE "enabled",
                    body |-> b, name |-> n]
  <1>1. patch' = [patch EXCEPT ![p] = st] /\ UNCHANGED <<flags, key>>
    BY DEF PatchLoad
  <1>2. \/ st.pc = "enabled" /\ b.enabled # "keep"
        \/ st.pc \in {"set", "clear"}
    BY BodiesAssumption
  <1>3. st \in PatchState /\ st.pc # "setting"
    BY <1>2 DEF PatchState
  <1> HIDE DEF st
  <1> QED
    BY <1>1, <1>3, PatchMoves

LEMMA PatchGoneKeepsSlot ==
    ASSUME SlotInv, NEW p \in Patches, PatchGone(p)
    PROVE  SlotInv'
  BY IdleState, PatchMoves DEF PatchGone

\* Disabling finds the row neither the default nor held.
LEMMA SetEnabledKeepsSlot ==
    ASSUME SlotInv, NEW p \in Patches, SetEnvironmentEnabled(p)
    PROVE  SlotInv'
  <1>1. PICK e \in Envs :
            /\ stage[e] = "active"
            /\ ~Locked(e)
            /\ IF patch[p].body.enabled = "off" /\ isDefault[e]
               THEN patch' = [patch EXCEPT ![p] = Idle] /\ UNCHANGED enabled
               ELSE /\ enabled' = [enabled EXCEPT ![e] = (patch[p].body.enabled = "on")]
                    /\ patch' = [patch EXCEPT ![p] = AfterEnabled(patch[p])]
    BY DEF SetEnvironmentEnabled, Row
  <1>2. patch[p].pc = "enabled" /\ UNCHANGED <<stage, isDefault, key>>
    BY DEF SetEnvironmentEnabled
  <1>3. patch[p] \in [pc : {"enabled"}, body : {b \in Bodies : b.enabled # "keep"}, name : Names]
    BY <1>2 DEF SlotInv, SlotTypes, PatchState, Idle
  <1>4. AfterEnabled(patch[p]) \in PatchState /\ AfterEnabled(patch[p]).pc # "setting"
    <2>1. CASE patch[p].body.isDefault = "keep"
      BY <2>1, IdleState DEF AfterEnabled
    <2>2. CASE patch[p].body.isDefault # "keep"
      <3>1. patch[p].body.isDefault \in {"set", "clear"}
        BY <1>3, <2>2, BodiesAssumption
      <3>2. AfterEnabled(patch[p]) = [patch[p] EXCEPT !.pc = patch[p].body.isDefault]
        BY <2>2 DEF AfterEnabled
      <3> QED
        BY <1>3, <3>1, <3>2 DEF PatchState
    <2> QED
      BY <2>1, <2>2
  <1>5. CASE patch[p].body.enabled = "off" /\ isDefault[e]
    BY <1>1, <1>2, <1>5, IdleState, PatchMoves DEF flags
  <1>6. CASE ~(patch[p].body.enabled = "off" /\ isDefault[e])
    <2> DEFINE st == AfterEnabled(patch[p])
    <2>1. /\ enabled' = [enabled EXCEPT ![e] = (patch[p].body.enabled = "on")]
          /\ patch' = [patch EXCEPT ![p] = st]
          /\ st \in PatchState
          /\ st.pc # "setting"
      BY <1>1, <1>4, <1>6
    <2>2. isDefault[e] => patch[p].body.enabled = "on"
      <3>1. patch[p].body.enabled \in {"on", "off"}
        BY <1>3, BodiesAssumption
      <3> QED
        BY <1>6, <3>1
    <2> HIDE DEF st
    <2>3. SlotTypes'
      BY <1>2, <2>1 DEF SlotInv, SlotTypes
    <2>4. HeldTargets'
      BY <1>1, <1>2, <2>1 DEF SlotInv, SlotTypes, HeldTargets, Holds, Locked
    <2>5. ReservedFirst' /\ DefaultSlot'
      BY <1>2, <2>1, <2>2 DEF SlotInv, SlotTypes, ReservedFirst, DefaultSlot
    <2> QED
      BY <2>3, <2>4, <2>5 DEF SlotInv
  <1> QED
    BY <1>5, <1>6

LEMMA SetDefaultLockKeepsSlot ==
    ASSUME SlotInv, NEW p \in Patches, SetDefaultLock(p)
    PROVE  SlotInv'
  <1>1. PICK e \in Envs :
            /\ stage[e] = "active"
            /\ ~Locked(e)
            /\ patch' = [patch EXCEPT ![p] =
                    IF enabled[e]
                    THEN [pc |-> "setting", env |-> e,
                          seen |-> {f \in Envs \ {e} : isDefault[f]}]
                    ELSE Idle]
            /\ UNCHANGED <<flags, key>>
    BY DEF SetDefaultLock, Row
  <1>2. CASE ~enabled[e]
    BY <1>1, <1>2, IdleState, PatchMoves
  <1>3. CASE enabled[e]
    <2> DEFINE st == [pc |-> "setting", env |-> e, seen |-> {f \in Envs \ {e} : isDefault[f]}]
    <2>1. st \in PatchState /\ st.pc = "setting" /\ st.env = e
      BY DEF PatchState
    <2>2. patch' = [patch EXCEPT ![p] = st]
      BY <1>1, <1>3
    <2> HIDE DEF st
    <2>3. SlotTypes'
      BY <1>1, <2>1, <2>2 DEF SlotInv, SlotTypes, flags
    <2>4. HeldTargets'
      BY <1>1, <1>3, <2>1, <2>2 DEF SlotInv, SlotTypes, HeldTargets, Holds, Locked, flags
    <2>5. ReservedFirst' /\ DefaultSlot'
      BY <1>1 DEF SlotInv, ReservedFirst, DefaultSlot, flags
    <2> QED
      BY <2>3, <2>4, <2>5 DEF SlotInv
  <1> QED
    BY <1>2, <1>3

\* The slot goes to a row that is still active and enabled, because it is held.
LEMMA SetDefaultCommitKeepsSlot ==
    ASSUME SlotInv, NEW p \in Patches, SetDefaultCommit(p)
    PROVE  SlotInv'
  <1> DEFINE e == patch[p].env
             cleared == [f \in Envs |-> isDefault[f] /\ f \notin patch[p].seen]
  <1>1. /\ patch[p].pc = "setting"
        /\ isDefault' = IF \E f \in Envs \ {e} : cleared[f] THEN isDefault
                                                            ELSE [cleared EXCEPT ![e] = TRUE]
        /\ patch' = [patch EXCEPT ![p] = Idle]
        /\ UNCHANGED <<stage, enabled, key>>
    BY DEF SetDefaultCommit
  <1>2. e \in Envs
    BY <1>1 DEF SlotInv, SlotTypes, PatchState, Idle
  <1>3. stage[e] = "active" /\ enabled[e]
    BY <1>1, <1>2 DEF SlotInv, HeldTargets, Holds
  <1>4. cleared \in [Envs -> BOOLEAN]
    OBVIOUS
  <1> HIDE DEF e, cleared
  <1>5. SlotTypes'
    BY <1>1, <1>2, <1>4, IdleState DEF SlotInv, SlotTypes
  <1>6. HeldTargets'
    BY <1>1, IdleState DEF SlotInv, SlotTypes, HeldTargets, Holds
  <1>7. ReservedFirst'
    BY <1>1 DEF SlotInv, ReservedFirst
  <1>8. DefaultSlot'
    BY <1>1, <1>2, <1>3, <1>4 DEF SlotInv, DefaultSlot
  <1> QED
    BY <1>5, <1>6, <1>7, <1>8 DEF SlotInv

LEMMA ClearDefaultKeepsSlot ==
    ASSUME SlotInv, NEW p \in Patches, ClearDefault(p)
    PROVE  SlotInv'
  <1>1. PICK e \in Envs : isDefault' = [isDefault EXCEPT ![e] = FALSE]
    BY DEF ClearDefault, Row
  <1>2. patch' = [patch EXCEPT ![p] = Idle] /\ UNCHANGED <<stage, enabled, key>>
    BY DEF ClearDefault
  <1>3. SlotTypes'
    BY <1>1, <1>2, IdleState DEF SlotInv, SlotTypes
  <1>4. HeldTargets'
    BY <1>2, IdleState DEF SlotInv, SlotTypes, HeldTargets, Holds
  <1>5. ReservedFirst' /\ DefaultSlot'
    BY <1>1, <1>2 DEF SlotInv, SlotTypes, ReservedFirst, DefaultSlot
  <1> QED
    BY <1>3, <1>4, <1>5 DEF SlotInv

LEMMA BuildsKeepSlot ==
    ASSUME \/ Tick \/ Send \/ Abandon \/ Restart
           \/ \E c \in Calls : ProgressStep(c) \/ TransientError(c)
           \/ \E r \in Refs : BuildEnds(r) \/ Deactivate(r)
           \/ \E e \in Envs : RejectIfSnapshotInactive(e)
    PROVE  UNCHANGED slotVars
  <1>1. CASE Tick \/ Send \/ Abandon \/ Restart
    BY <1>1 DEF Tick, Send, Abandon, Restart, slotVars
  <1>2. CASE \E c \in Calls : ProgressStep(c) \/ TransientError(c)
    BY <1>2 DEF ProgressStep, TransientError, Load, Rejected, GetBuildStatus, Build,
                MarkVersionReady, MarkVersionFailed, slotVars
  <1>3. CASE \/ \E r \in Refs : BuildEnds(r) \/ Deactivate(r)
             \/ \E e \in Envs : RejectIfSnapshotInactive(e)
    BY <1>3 DEF BuildEnds, Deactivate, RejectIfSnapshotInactive, slotVars
  <1> QED
    BY <1>1, <1>2, <1>3

LEMMA SlotStep == SlotInv /\ [Next]_vars => SlotInv'
  <1> SUFFICES ASSUME SlotInv, [Next]_vars PROVE SlotInv'
    OBVIOUS
  <1>1. CASE PutProvider
    BY <1>1, PutProviderKeepsSlot
  <1>2. ASSUME NEW n \in Names, DeleteEnvironment(n) PROVE SlotInv'
    BY <1>2, DeleteKeepsSlot
  <1>3. ASSUME NEW n \in Names, NEW s \in Specs, PutEnvironment(n, s) PROVE SlotInv'
    BY <1>3, PutEnvironmentKeepsSlot
  <1>4. ASSUME NEW n \in Names, NEW p \in Patches, NEW b \in Bodies, PatchLoad(p, n, b)
        PROVE  SlotInv'
    BY <1>4, PatchLoadKeepsSlot
  <1>5. ASSUME NEW p \in Patches, PatchStep(p) PROVE SlotInv'
    BY <1>5, PatchGoneKeepsSlot, SetEnabledKeepsSlot, SetDefaultLockKeepsSlot,
       SetDefaultCommitKeepsSlot, ClearDefaultKeepsSlot DEF PatchStep
  <1>6. CASE \/ Tick \/ Send \/ Abandon \/ Restart
             \/ \E c \in Calls : ProgressStep(c) \/ TransientError(c)
             \/ \E r \in Refs : BuildEnds(r) \/ Deactivate(r)
             \/ \E e \in Envs : RejectIfSnapshotInactive(e)
    BY <1>6, BuildsKeepSlot, SlotUnchanged
  <1>7. CASE UNCHANGED vars
    BY <1>7, SlotUnchanged DEF vars, slotVars
  <1> QED
    BY <1>1, <1>2, <1>3, <1>4, <1>5, <1>6, <1>7 DEF Next

\* At every moment at most one environment is the default, and it is active and
\* enabled: PATCH, DELETE, PUT and the provider's PUT, in any interleaving and
\* any number, never leave the slot with a disabled or deleted environment.
THEOREM DefaultSlotSafe == Spec => []DefaultSlot
  <1>1. SlotInv => DefaultSlot
    BY DEF SlotInv
  <1> QED
    BY <1>1, SlotInit, SlotStep, PTL DEF Spec
-----------------------------------------------------------------------------
(* Builds.  A version's snapshot name was minted by the version itself or   *)
(* by an older one that bakes in the same; a snapshot is registered once,   *)
(* from the version that minted its name; and it stays registered, though   *)
(* Daytona may deactivate it.                                               *)
(* While nothing has failed there is one call at a time, and what the loop  *)
(* has still to send is still pending.                                      *)
BakedSpecs == Specs \cup {ReservedSpec}
Version == [status : {"pending", "ready", "failed"}, spec : BakedSpecs, ref : Refs]
SnapStates == {"none", "building", "active", "inactive", "failed"}

BuildTypes ==
    /\ active \in [Envs -> Nat]
    /\ ver \in [Envs -> Seq(Version)]
    /\ snap \in [Refs -> [state : SnapStates, spec : BakedSpecs \cup {None}]]
    /\ call \in [Calls -> {Idle} \cup [pc : {"load", "poll", "register", "ready", "failed"},
                                       env : Envs, v : Nat, key : Nat]]
    /\ todo \subseteq Refs
    /\ cur \in Calls \cup {None}
    /\ faults \in Nat

\* The snapshot of version v of e is that of a version that bakes in the same.
Minted(e, v) ==
    \E w \in 1 .. v : ver[e][v].ref = <<e, w>> /\ ver[e][w].spec = ver[e][v].spec

VersionsOK ==
    \A e \in Envs :
        /\ stage[e] = "absent" => ver[e] = <<>>
        /\ Len(ver[e]) <= MaxVersions
        /\ \A v \in 1 .. Len(ver[e]) : Minted(e, v)

SnapsOK ==
    \A e \in Envs, w \in 1 .. MaxVersions : snap[<<e, w>>].state # "none" =>
        w <= Len(ver[e]) /\ snap[<<e, w>>].spec = ver[e][w].spec

ReadyOK ==
    \A e \in Envs : \A v \in ReadyVersions(e) : snap[ver[e][v].ref].state # "none"

CallsOK ==
    /\ \A w \in todo : w[2] <= Len(ver[w[1]])
    /\ \A c \in Calls : call[c].pc # "idle" =>
        /\ call[c].v \in 1 .. Len(ver[call[c].env])
        /\ call[c].pc = "ready" => snap[RefOf(c)].state # "none"

NewestOK ==
    \A e \in Envs : stage[e] = "active" => \A v \in ReadyVersions(e) : v <= active[e]

Pending(e, v) == ver[e][v].status = "pending"

AloneOK ==
    faults = 0 =>
        /\ \A w \in todo : Pending(w[1], w[2])
        /\ \A c \in Calls : call[c].pc # "idle" =>
            /\ cur = c
            /\ Pending(call[c].env, call[c].v)
            /\ <<call[c].env, call[c].v>> \notin todo
        /\ \A e \in Envs : stage[e] = "active" =>
            \/ active[e] \in ReadyVersions(e)
            \/ ReadyVersions(e) = {} /\ active[e] = 1

BuildInv == BuildTypes /\ VersionsOK /\ SnapsOK /\ ReadyOK /\ CallsOK /\ NewestOK /\ AloneOK

buildVars == <<stage, builds, snap, loop, faults>>

\* The parts of the invariant that steps use.
LEMMA BuildParts ==
    ASSUME BuildInv
    PROVE  /\ active \in [Envs -> Nat]
           /\ ver \in [Envs -> Seq(Version)]
           /\ snap \in [Refs -> [state : SnapStates, spec : BakedSpecs \cup {None}]]
           /\ call \in [Calls -> {Idle} \cup [pc : {"load", "poll", "register", "ready", "failed"},
                                              env : Envs, v : Nat, key : Nat]]
           /\ todo \subseteq Refs
           /\ cur \in Calls \cup {None}
           /\ faults \in Nat
           /\ \A e \in Envs : /\ ver[e] \in Seq(Version)
                              /\ Len(ver[e]) \in Nat
                              /\ \A v \in 1 .. Len(ver[e]) : ver[e][v] \in Version
  <1>1. BuildTypes
    BY DEF BuildInv
  <1>2. \A e \in Envs : ver[e] \in Seq(Version)
    BY <1>1 DEF BuildTypes
  <1>3. \A e \in Envs : Len(ver[e]) \in Nat /\ \A v \in 1 .. Len(ver[e]) : ver[e][v] \in Version
    BY <1>2
  <1> QED
    BY <1>1, <1>2, <1>3 DEF BuildTypes

LEMMA BuildsUnchanged == BuildInv /\ UNCHANGED buildVars => BuildInv'
  <1> SUFFICES ASSUME BuildInv, UNCHANGED buildVars PROVE BuildInv'
    OBVIOUS
  <1>1. /\ stage' = stage /\ active' = active /\ ver' = ver /\ snap' = snap
        /\ call' = call /\ todo' = todo /\ cur' = cur /\ faults' = faults
    BY DEF buildVars, builds, loop
  <1>2. BuildTypes' /\ VersionsOK' /\ SnapsOK'
    BY <1>1 DEF BuildInv, BuildTypes, VersionsOK, Minted, SnapsOK
  <1>3. ReadyOK' /\ CallsOK' /\ NewestOK'
    BY <1>1 DEF BuildInv, ReadyOK, ReadyVersions, CallsOK, RefOf, NewestOK
  <1>4. AloneOK'
    BY <1>1 DEF BuildInv, AloneOK, Pending, ReadyVersions
  <1> QED
    BY <1>2, <1>3, <1>4 DEF BuildInv

LEMMA BuildInit == Init => BuildInv
  <1> SUFFICES ASSUME Init PROVE BuildInv
    OBVIOUS
  <1> USE DEF Init, Idle
  <1>0. <<>> \in Seq(Version) /\ Len(<<>>) = 0
    OBVIOUS
  <1>1. BuildTypes
    BY <1>0 DEF BuildTypes, SnapStates
  <1>2. VersionsOK
    BY <1>0, BoundsAssumption DEF VersionsOK
  <1>3. \A e \in Envs : ReadyVersions(e) = {}
    BY <1>0 DEF ReadyVersions
  <1>4. SnapsOK
    BY DEF SnapsOK, Refs
  <1>5. ReadyOK /\ CallsOK /\ NewestOK /\ AloneOK
    BY <1>3 DEF ReadyOK, CallsOK, NewestOK, AloneOK
  <1> QED
    BY <1>1, <1>2, <1>4, <1>5 DEF BuildInv

\* A version more: what WriteEnvironment does to the builds.
AddsVersion(e, x) ==
    /\ x \in Version /\ x.status = "pending"
    /\ Len(ver[e]) < MaxVersions
    /\ \E w \in 1 .. Len(ver[e]) + 1 :
        /\ x.ref = <<e, w>>
        /\ w <= Len(ver[e]) => ver[e][w].spec = x.spec
    /\ ver' = [ver EXCEPT ![e] = Append(ver[e], x)]
    /\ \/ stage[e] = "active" /\ UNCHANGED <<stage, active>>
       \/ /\ stage[e] = "absent"
          /\ stage' = [stage EXCEPT ![e] = "active"]
          /\ active' = [active EXCEPT ![e] = 1]

LEMMA NextVersionTyped ==
    ASSUME BuildInv, NEW e \in Envs, NEW s \in BakedSpecs, Len(ver[e]) < MaxVersions
    PROVE  /\ BuildNextVersion(e, s) \in Version
           /\ BuildNextVersion(e, s).status = "pending"
           /\ \E w \in 1 .. Len(ver[e]) + 1 :
                /\ BuildNextVersion(e, s).ref = <<e, w>>
                /\ w <= Len(ver[e]) => ver[e][w].spec = BuildNextVersion(e, s).spec
  <1> DEFINE n == Len(ver[e])
             x == BuildNextVersion(e, s)
  <1>0. n \in Nat /\ n + 1 \in 1 .. MaxVersions
    BY BuildParts, BoundsAssumption
  <1>1. x = [status |-> "pending", spec |-> s,
             ref |-> IF n = 0 \/ ver[e][n].spec # s THEN <<e, n + 1>> ELSE ver[e][n].ref]
    BY DEF BuildNextVersion
  <1>2. CASE n = 0 \/ ver[e][n].spec # s
    <2>1. x = [status |-> "pending", spec |-> s, ref |-> <<e, n + 1>>]
      BY <1>1, <1>2
    <2>2. <<e, n + 1>> \in Refs
      BY <1>0 DEF Refs
    <2> HIDE DEF x
    <2> QED
      BY <1>0, <2>1, <2>2 DEF Version, x
  <1>3. CASE n # 0 /\ ver[e][n].spec = s
    <2>1. x = [status |-> "pending", spec |-> s, ref |-> ver[e][n].ref]
      BY <1>1, <1>3
    <2>2. n \in 1 .. n /\ ver[e][n] \in Version
      BY <1>0, <1>3, BuildParts
    <2>3. Minted(e, n)
      BY <2>2 DEF BuildInv, VersionsOK
    <2>4. PICK w \in 1 .. n : ver[e][n].ref = <<e, w>> /\ ver[e][w].spec = ver[e][n].spec
      BY <2>3 DEF Minted
    <2>5. w \in 1 .. n + 1
      BY <1>0, <2>4
    <2> HIDE DEF x
    <2> QED
      BY <1>3, <2>1, <2>2, <2>4, <2>5 DEF Version, x
  <1> QED
    BY <1>2, <1>3

LEMMA WriteAdds ==
    ASSUME BuildInv, NEW n, NEW s \in BakedSpecs, WriteEnvironment(n, s)
    PROVE  \E e \in Envs, x \in Version : AddsVersion(e, x)
  <1>1. ASSUME NEW e \in Row(n), Len(ver[e]) < MaxVersions,
               ver' = [ver EXCEPT ![e] = Append(ver[e], BuildNextVersion(e, s))],
               UNCHANGED <<flags, active>>
        PROVE  \E f \in Envs, x \in Version : AddsVersion(f, x)
    <2>1. e \in Envs /\ stage[e] = "active"
      BY DEF Row
    <2>2. AddsVersion(e, BuildNextVersion(e, s))
      BY <1>1, <2>1, NextVersionTyped DEF AddsVersion, flags
    <2> QED
      BY <2>1, <2>2 DEF AddsVersion
  <1>2. CASE \E e \in Row(n) :
                /\ Len(ver[e]) < MaxVersions
                /\ ver' = [ver EXCEPT ![e] = Append(@, BuildNextVersion(e, s))]
                /\ UNCHANGED <<flags, active>>
    BY <1>1, <1>2
  <1>3. CASE ~ \E e \in Row(n) :
                /\ Len(ver[e]) < MaxVersions
                /\ ver' = [ver EXCEPT ![e] = Append(@, BuildNextVersion(e, s))]
                /\ UNCHANGED <<flags, active>>
    <2> DEFINE e == CHOOSE x \in Envs : NameOf[x] = n /\ stage[x] = "absent"
    <2>1. /\ \E x \in Envs : NameOf[x] = n /\ stage[x] = "absent"
          /\ stage' = [stage EXCEPT ![e] = "active"]
          /\ active' = [active EXCEPT ![e] = 1]
          /\ ver' = [ver EXCEPT ![e] = <<BuildNextVersion(e, s)>>]
      BY <1>3 DEF WriteEnvironment
    <2>2. e \in Envs /\ stage[e] = "absent"
      BY <2>1
    <2> HIDE DEF e
    <2>3. ver[e] = <<>> /\ Len(ver[e]) = 0 /\ Len(ver[e]) < MaxVersions
      BY <2>2, BoundsAssumption DEF BuildInv, VersionsOK
    <2> DEFINE x == BuildNextVersion(e, s)
    <2>4. Append(ver[e], x) = <<x>>
      <3> HIDE DEF x
      <3> QED
        BY <2>3
    <2>5. AddsVersion(e, x)
      BY <2>1, <2>2, <2>3, <2>4, NextVersionTyped DEF AddsVersion
    <2> QED
      BY <2>2, <2>5 DEF AddsVersion
  <1> QED
    BY <1>2, <1>3

LEMMA AddVersionKeepsBuilds ==
    ASSUME BuildInv, stage \in [Envs -> {"absent", "active", "deleted"}],
           NEW e \in Envs, NEW x \in Version, AddsVersion(e, x),
           UNCHANGED <<snap, loop, faults>>
    PROVE  BuildInv'
  <1> DEFINE n == Len(ver[e])
  <1>0. /\ n \in Nat /\ n + 1 <= MaxVersions /\ MaxVersions \in Nat
        /\ snap' = snap /\ call' = call /\ todo' = todo /\ cur' = cur /\ faults' = faults
    BY BuildParts, BoundsAssumption DEF AddsVersion, loop
  <1>1. /\ Append(ver[e], x) \in Seq(Version)
        /\ Len(Append(ver[e], x)) = n + 1
        /\ Append(ver[e], x)[n + 1] = x
        /\ \A v \in 1 .. n : Append(ver[e], x)[v] = ver[e][v]
    BY BuildParts
  <1>2. ver' = [ver EXCEPT ![e] = Append(ver[e], x)]
    BY DEF AddsVersion
  <1>3. /\ \A f \in Envs : f # e => ver'[f] = ver[f]
        /\ ver'[e] = Append(ver[e], x)
        /\ ver' \in [Envs -> Seq(Version)]
    BY <1>1, <1>2, BuildParts
  <1>4. ASSUME NEW f \in Envs, NEW v \in 1 .. Len(ver[f])
        PROVE  v \in 1 .. Len(ver'[f]) /\ ver'[f][v] = ver[f][v]
    <2>1. CASE f # e
      BY <1>3, <2>1
    <2>2. CASE f = e
      <3>1. v \in 1 .. n /\ ver'[f] = Append(ver[e], x)
        BY <1>3, <2>2
      <3>2. v \in 1 .. n + 1
        BY <1>0, <3>1
      <3> QED
        BY <1>1, <2>2, <3>1, <3>2
    <2> QED
      BY <2>1, <2>2
  <1>5. ASSUME NEW f \in Envs, NEW v \in 1 .. Len(ver'[f])
        PROVE  v \in 1 .. Len(ver[f]) \/ (f = e /\ v = n + 1 /\ ver'[f][v] = x)
    BY <1>0, <1>1, <1>3, BuildParts
  <1>6. \A f \in Envs : ReadyVersions(f)' = ReadyVersions(f)
    <2>1. x.status # "ready"
      BY DEF AddsVersion
    <2> QED
      BY <1>4, <1>5, <2>1 DEF ReadyVersions
  <1> HIDE DEF n
  <1>7. BuildTypes'
    <2>1. active' \in [Envs -> Nat]
      BY BuildParts DEF AddsVersion
    <2> QED
      BY <1>0, <1>3, <2>1, BuildParts DEF BuildTypes
  <1>8. VersionsOK'
    <2>1. ASSUME NEW f \in Envs PROVE stage'[f] = "absent" => ver'[f] = <<>>
      <3>1. CASE f # e
        BY <1>3, <3>1 DEF AddsVersion, BuildInv, VersionsOK
      <3>2. CASE f = e /\ stage[e] = "active" /\ stage' = stage
        BY <3>2
      <3>3. CASE f = e /\ stage' = [stage EXCEPT ![e] = "active"]
        BY <3>3
      <3> QED
        BY <3>1, <3>2, <3>3 DEF AddsVersion
    <2>2. ASSUME NEW f \in Envs PROVE Len(ver'[f]) <= MaxVersions
      BY <1>0, <1>1, <1>3 DEF BuildInv, VersionsOK, n
    <2>3. ASSUME NEW f \in Envs, NEW v \in 1 .. Len(ver'[f]) PROVE Minted(f, v)'
      <3>1. CASE v \in 1 .. Len(ver[f])
        <4>1. PICK w \in 1 .. v : ver[f][v].ref = <<f, w>> /\ ver[f][w].spec = ver[f][v].spec
          BY <3>1 DEF BuildInv, VersionsOK, Minted
        <4>2. w \in 1 .. Len(ver[f])
          BY <3>1, <4>1, BuildParts
        <4> QED
          BY <1>4, <3>1, <4>1, <4>2 DEF Minted
      <3>2. CASE f = e /\ v = n + 1 /\ ver'[f][v] = x
        <4>1. PICK w \in 1 .. n + 1 : /\ x.ref = <<e, w>>
                                      /\ w <= n => ver[e][w].spec = x.spec
          BY DEF AddsVersion, n
        <4>2. ver'[e][w].spec = x.spec
          BY <1>0, <1>1, <1>3, <4>1 DEF n
        <4> QED
          BY <3>2, <4>1, <4>2 DEF Minted
      <3> QED
        BY <1>5, <3>1, <3>2
    <2> QED
      BY <2>1, <2>2, <2>3 DEF VersionsOK
  <1>9. SnapsOK'
    <2> SUFFICES ASSUME NEW f \in Envs, NEW w \in 1 .. MaxVersions,
                        snap'[<<f, w>>].state # "none"
                 PROVE  w <= Len(ver'[f]) /\ snap'[<<f, w>>].spec = ver'[f][w].spec
      BY DEF SnapsOK
    <2>1. w <= Len(ver[f]) /\ snap[<<f, w>>].spec = ver[f][w].spec
      BY <1>0 DEF BuildInv, SnapsOK
    <2>2. w \in 1 .. Len(ver[f])
      BY <2>1, BuildParts, BoundsAssumption
    <2>3. ver'[f][w] = ver[f][w] /\ w \in 1 .. Len(ver'[f])
      BY <1>4, <2>2
    <2> QED
      BY <1>0, <2>1, <2>3
  <1>10. ReadyOK'
    <2>1. ASSUME NEW f \in Envs, NEW v \in ReadyVersions(f)
          PROVE  ver'[f][v] = ver[f][v] /\ snap[ver[f][v].ref].state # "none"
      BY <1>4 DEF ReadyVersions, BuildInv, ReadyOK
    <2> QED
      BY <1>0, <1>6, <2>1 DEF ReadyOK
  <1>11. CallsOK'
    <2>1. ASSUME NEW w \in todo PROVE w[2] <= Len(ver'[w[1]])
      <3>1. w[1] \in Envs /\ w[2] \in 1 .. MaxVersions /\ w[2] <= Len(ver[w[1]])
        BY BuildParts DEF BuildInv, CallsOK, Refs
      <3>2. w[2] \in 1 .. Len(ver[w[1]])
        BY <3>1, BuildParts, BoundsAssumption
      <3>3. w[2] \in 1 .. Len(ver'[w[1]])
        BY <1>4, <3>1, <3>2
      <3> QED
        BY <3>3
    <2>2. ASSUME NEW c \in Calls, call[c].pc # "idle"
          PROVE  /\ call[c].v \in 1 .. Len(ver'[call[c].env])
                 /\ ver'[call[c].env][call[c].v] = ver[call[c].env][call[c].v]
      <3>1. call[c].env \in Envs
        BY <2>2, BuildParts DEF Idle
      <3>2. call[c].v \in 1 .. Len(ver[call[c].env])
        BY <2>2 DEF BuildInv, CallsOK
      <3> QED
        BY <1>4, <3>1, <3>2
    <2>3. ASSUME NEW c \in Calls, call[c].pc = "ready"
          PROVE  snap[RefOf(c)].state # "none"
      BY <2>3 DEF BuildInv, CallsOK
    <2> QED
      BY <1>0, <2>1, <2>2, <2>3 DEF CallsOK, RefOf
  <1>12. ASSUME NEW f \in Envs, stage'[f] = "active"
         PROVE  \/ stage[f] = "active" /\ active'[f] = active[f]
                \/ ReadyVersions(f) = {} /\ active'[f] = 1
    <2>1. CASE UNCHANGED <<stage, active>>
      BY <1>12, <2>1
    <2>2. CASE /\ stage[e] = "absent"
               /\ stage' = [stage EXCEPT ![e] = "active"]
               /\ active' = [active EXCEPT ![e] = 1]
      <3>1. CASE f = e
        <4>1. ver[e] = <<>> /\ Len(ver[e]) = 0
          BY <2>2 DEF BuildInv, VersionsOK
        <4>2. ReadyVersions(e) = {}
          BY <4>1 DEF ReadyVersions
        <4> QED
          BY <2>2, <3>1, <4>2, BuildParts
      <3>2. CASE f # e
        BY <1>12, <2>2, <3>2, BuildParts
      <3> QED
        BY <3>1, <3>2
    <2> QED
      BY <2>1, <2>2 DEF AddsVersion
  <1>13. NewestOK'
    BY <1>6, <1>12 DEF NewestOK, BuildInv
  <1>14. AloneOK'
    <2> SUFFICES ASSUME faults = 0 PROVE AloneOK'
      BY <1>0 DEF AloneOK
    <2>1. ASSUME NEW w \in todo PROVE Pending(w[1], w[2])'
      <3>1. w[1] \in Envs /\ w[2] \in 1 .. Len(ver[w[1]])
        BY BuildParts, BoundsAssumption DEF BuildInv, CallsOK, Refs
      <3>2. ver'[w[1]][w[2]] = ver[w[1]][w[2]]
        BY <1>4, <3>1
      <3> QED
        BY <3>2 DEF BuildInv, AloneOK, Pending
    <2>2. ASSUME NEW c \in Calls, call[c].pc # "idle"
          PROVE  /\ cur = c
                 /\ ver'[call[c].env][call[c].v].status = "pending"
                 /\ <<call[c].env, call[c].v>> \notin todo
      <3>1. call[c].env \in Envs
        BY <2>2, BuildParts DEF Idle
      <3>2. call[c].v \in 1 .. Len(ver[call[c].env])
        BY <2>2 DEF BuildInv, CallsOK
      <3>3. ver'[call[c].env][call[c].v] = ver[call[c].env][call[c].v]
        BY <1>4, <3>1, <3>2
      <3> QED
        BY <2>2, <3>3 DEF BuildInv, AloneOK, Pending
    <2>3. ASSUME NEW f \in Envs, stage'[f] = "active"
          PROVE  \/ active'[f] \in ReadyVersions(f)
                 \/ ReadyVersions(f) = {} /\ active'[f] = 1
      BY <1>12, <2>3 DEF BuildInv, AloneOK
    <2> QED
      BY <1>0, <1>6, <2>1, <2>2, <2>3 DEF AloneOK, Pending
  <1> QED
    BY <1>7, <1>8, <1>9, <1>10, <1>11, <1>13, <1>14 DEF BuildInv

LEMMA DeleteKeepsBuilds ==
    ASSUME BuildInv, stage \in [Envs -> {"absent", "active", "deleted"}],
           NEW n, DeleteEnvironment(n)
    PROVE  BuildInv'
  <1>1. PICK e \in Envs : stage' = [stage EXCEPT ![e] = "deleted"]
    BY DEF DeleteEnvironment, Row
  <1>2. /\ active' = active /\ ver' = ver /\ snap' = snap
        /\ call' = call /\ todo' = todo /\ cur' = cur /\ faults' = faults
    BY DEF DeleteEnvironment, builds, loop
  <1>3. \A f \in Envs : /\ stage'[f] = "active" => stage[f] = "active"
                        /\ stage'[f] = "absent" => stage[f] = "absent"
    BY <1>1
  <1>4. BuildTypes' /\ VersionsOK' /\ SnapsOK'
    <2>1. BuildTypes'
      BY <1>2 DEF BuildInv, BuildTypes
    <2>2. VersionsOK'
      BY <1>2, <1>3 DEF BuildInv, VersionsOK, Minted
    <2>3. SnapsOK'
      BY <1>2 DEF BuildInv, SnapsOK
    <2> QED
      BY <2>1, <2>2, <2>3
  <1>5. ReadyOK' /\ CallsOK' /\ NewestOK'
    BY <1>2, <1>3 DEF BuildInv, ReadyOK, ReadyVersions, CallsOK, RefOf, NewestOK
  <1>6. AloneOK'
    BY <1>2, <1>3 DEF BuildInv, AloneOK, Pending, ReadyVersions
  <1> QED
    BY <1>4, <1>5, <1>6 DEF BuildInv

\* A step of the loop: it may change what is still to send, the call it waits
\* for, and start a call.
LEMMA LoopKeepsBuilds ==
    ASSUME BuildInv, UNCHANGED <<stage, builds, snap>>,
           BuildTypes', CallsOK',
           faults' = 0 =>
             /\ faults = 0
             /\ \A w \in todo' : Pending(w[1], w[2])
             /\ \A c \in Calls : call'[c].pc # "idle" =>
                  /\ cur' = c
                  /\ Pending(call'[c].env, call'[c].v)
                  /\ <<call'[c].env, call'[c].v>> \notin todo'
    PROVE  BuildInv'
  <1>1. stage' = stage /\ active' = active /\ ver' = ver /\ snap' = snap
    BY DEF builds
  <1>2. VersionsOK' /\ SnapsOK' /\ ReadyOK' /\ NewestOK'
    BY <1>1 DEF BuildInv, VersionsOK, Minted, SnapsOK, ReadyOK, ReadyVersions, NewestOK
  <1>3. AloneOK'
    BY <1>1 DEF BuildInv, AloneOK, Pending, ReadyVersions
  <1> QED
    BY <1>2, <1>3 DEF BuildInv

\* A tick finds the loop with no call and, while nothing has failed, the server
\* with none either.
LEMMA TickKeepsBuilds == BuildInv /\ Tick => BuildInv'
  <1> SUFFICES ASSUME BuildInv, Tick PROVE BuildInv'
    OBVIOUS
  <1>1. /\ cur = None /\ todo' = LatestPendingVersions
        /\ stage' = stage /\ active' = active /\ ver' = ver /\ snap' = snap
        /\ call' = call /\ cur' = cur /\ faults' = faults
    BY DEF Tick, builds, flags
  <1>2. \A w \in LatestPendingVersions :
            w \in Refs /\ w[2] <= Len(ver[w[1]]) /\ Pending(w[1], w[2])
    BY DEF LatestPendingVersions, Refs, Pending
  <1>3. BuildTypes'
    BY <1>1, <1>2 DEF BuildInv, BuildTypes
  <1>4. CallsOK'
    BY <1>1, <1>2 DEF BuildInv, CallsOK, RefOf
  <1>5. faults = 0 => \A c \in Calls : call[c].pc = "idle"
    BY <1>1, EnvsAssumption DEF BuildInv, AloneOK
  <1> QED
    BY <1>1, <1>2, <1>3, <1>4, <1>5, LoopKeepsBuilds DEF builds

LEMMA SendKeepsBuilds == BuildInv /\ Send => BuildInv'
  <1> SUFFICES ASSUME BuildInv, Send PROVE BuildInv'
    OBVIOUS
  <1> DEFINE c == CHOOSE d \in Calls : call[d].pc = "idle"
             started(w) == [pc |-> "load", env |-> w[1], v |-> w[2], key |-> 0]
  <1>1. PICK w \in todo : /\ call' = [call EXCEPT ![c] = started(w)]
                          /\ todo' = todo \ {w}
                          /\ cur' = c
    BY DEF Send
  <1>2. /\ cur = None
        /\ stage' = stage /\ active' = active /\ ver' = ver /\ snap' = snap /\ faults' = faults
    BY DEF Send, builds, flags
  <1>3. c \in Calls /\ call[c].pc = "idle"
    BY DEF Send
  <1> HIDE DEF c
  <1>4. w \in Refs /\ w[1] \in Envs /\ w[2] \in 1 .. MaxVersions /\ w = <<w[1], w[2]>>
    BY BuildParts DEF Refs
  <1>5. w[2] \in 1 .. Len(ver[w[1]])
    BY <1>4, BuildParts, BoundsAssumption DEF BuildInv, CallsOK
  <1>6. started(w) \in [pc : {"load", "poll", "register", "ready", "failed"},
                        env : Envs, v : Nat, key : Nat]
    BY <1>4, BoundsAssumption
  <1>7. /\ call'[c] = started(w)
        /\ \A d \in Calls : d # c => call'[d] = call[d]
    BY <1>1, <1>3, BuildParts
  <1>8. BuildTypes'
    BY <1>1, <1>2, <1>3, <1>6 DEF BuildInv, BuildTypes
  <1>9. CallsOK'
    <2>1. \A x \in todo' : x[2] <= Len(ver'[x[1]])
      BY <1>1, <1>2 DEF BuildInv, CallsOK
    <2>2. ASSUME NEW d \in Calls, call'[d].pc # "idle"
          PROVE  /\ call'[d].v \in 1 .. Len(ver[call'[d].env])
                 /\ call'[d].pc = "ready" => snap[ver[call'[d].env][call'[d].v].ref].state # "none"
      <3>1. CASE d = c
        BY <1>5, <1>7, <3>1
      <3>2. CASE d # c
        BY <1>7, <2>2, <3>2 DEF BuildInv, CallsOK, RefOf
      <3> QED
        BY <3>1, <3>2
    <2> QED
      BY <1>2, <2>1, <2>2 DEF CallsOK, RefOf
  <1>10. ASSUME faults = 0
         PROVE  /\ \A x \in todo' : Pending(x[1], x[2])
                /\ \A d \in Calls : call'[d].pc # "idle" =>
                    /\ cur' = d
                    /\ Pending(call'[d].env, call'[d].v)
                    /\ <<call'[d].env, call'[d].v>> \notin todo'
    <2>1. \A x \in todo : Pending(x[1], x[2])
      BY <1>10 DEF BuildInv, AloneOK
    <2>2. \A d \in Calls : call[d].pc = "idle"
      BY <1>2, <1>10, EnvsAssumption DEF BuildInv, AloneOK
    <2> QED
      BY <1>1, <1>4, <1>7, <2>1, <2>2
  <1> QED
    BY <1>2, <1>8, <1>9, <1>10, LoopKeepsBuilds DEF builds

LEMMA AbandonKeepsBuilds == BuildInv /\ (Abandon \/ Restart) => BuildInv'
  <1> SUFFICES ASSUME BuildInv, Abandon \/ Restart PROVE BuildInv'
    OBVIOUS
  <1>1. /\ faults' = faults + 1 /\ cur' = None /\ todo' \subseteq todo
        /\ stage' = stage /\ active' = active /\ ver' = ver /\ snap' = snap /\ call' = call
    BY DEF Abandon, Restart, flags, builds
  <1>2. BuildTypes'
    BY <1>1 DEF BuildInv, BuildTypes
  <1>3. CallsOK'
    BY <1>1 DEF BuildInv, CallsOK, RefOf
  <1>4. faults' # 0
    BY <1>1, BuildParts
  <1> QED
    BY <1>1, <1>2, <1>3, <1>4, LoopKeepsBuilds DEF builds

\* What progress calls and Daytona do to the snapshots: a registered one
\* stays, and one is registered from the version that minted its name.
SnapsGrow ==
    /\ snap' \in [Refs -> [state : SnapStates, spec : BakedSpecs \cup {None}]]
    /\ SnapsOK'
    /\ \A r \in Refs : snap[r].state # "none" => snap'[r].state # "none"

\* A call goes on with its version.
GoesOn(c, q) ==
    /\ call[c].pc # "idle"
    /\ q \in [pc : {"load", "poll", "register", "ready", "failed"}, env : Envs, v : Nat, key : Nat]
    /\ q.env = call[c].env /\ q.v = call[c].v
    /\ q.pc = "ready" => snap'[RefOf(c)].state # "none"
    /\ call' = [call EXCEPT ![c] = q]
    /\ cur' = cur

\* What a call works on.
LEMMA CallVersion ==
    ASSUME BuildInv, NEW c \in Calls, call[c].pc # "idle"
    PROVE  /\ call[c].env \in Envs
           /\ call[c].v \in 1 .. Len(ver[call[c].env])
           /\ RefOf(c) \in Refs /\ SpecOf(c) \in BakedSpecs
           /\ call[c] \in [pc : {"load", "poll", "register", "ready", "failed"},
                           env : Envs, v : Nat, key : Nat]
  <1>1. call[c] \in [pc : {"load", "poll", "register", "ready", "failed"},
                     env : Envs, v : Nat, key : Nat]
    BY BuildParts DEF Idle
  <1>2. call[c].env \in Envs /\ call[c].v \in 1 .. Len(ver[call[c].env])
    BY <1>1 DEF BuildInv, CallsOK
  <1>3. ver[call[c].env][call[c].v] \in Version
    BY <1>2, BuildParts
  <1> QED
    BY <1>1, <1>2, <1>3 DEF RefOf, SpecOf, Version

\* A snapshot registered for a call carries the spec of the version that minted
\* its name.
LEMMA RegisterGrows ==
    ASSUME BuildInv, NEW c \in Calls, call[c].pc # "idle", snap[RefOf(c)].state = "none",
           NEW state \in {"building", "active", "failed"}, UNCHANGED ver,
           snap' = [snap EXCEPT ![RefOf(c)] = [state |-> state, spec |-> SpecOf(c)]]
    PROVE  SnapsGrow /\ snap'[RefOf(c)].state = state
  <1> DEFINE e == call[c].env
             v == call[c].v
             x == [state |-> state, spec |-> SpecOf(c)]
  <1>1. /\ e \in Envs /\ v \in 1 .. Len(ver[e])
        /\ RefOf(c) \in Refs /\ SpecOf(c) \in BakedSpecs
    BY CallVersion
  <1>2. x \in [state : SnapStates, spec : BakedSpecs \cup {None}] /\ x.state = state
    BY <1>1 DEF SnapStates
  <1>3. PICK w \in 1 .. v : ver[e][v].ref = <<e, w>> /\ ver[e][w].spec = ver[e][v].spec
    BY <1>1 DEF BuildInv, VersionsOK, Minted
  <1>4. /\ RefOf(c) = <<e, w>> /\ SpecOf(c) = ver[e][w].spec
        /\ w \in 1 .. Len(ver[e])
    BY <1>1, <1>3, BuildParts DEF RefOf, SpecOf
  <1> HIDE DEF e, v
  <1>5. SnapsOK'
    <2> SUFFICES ASSUME NEW f \in Envs, NEW u \in 1 .. MaxVersions,
                        snap'[<<f, u>>].state # "none"
                 PROVE  u <= Len(ver[f]) /\ snap'[<<f, u>>].spec = ver[f][u].spec
      BY DEF SnapsOK
    <2>1. <<f, u>> \in Refs
      BY DEF Refs
    <2>2. CASE <<f, u>> = RefOf(c)
      <3>1. f = e /\ u = w
        BY <1>4, <2>2
      <3>2. snap'[<<f, u>>] = x
        BY <1>1, <2>2, BuildParts
      <3>3. u <= Len(ver[f])
        BY <1>1, <1>4, <3>1, BuildParts
      <3> QED
        BY <1>4, <3>1, <3>2, <3>3
    <2>3. CASE <<f, u>> # RefOf(c)
      <3>1. snap'[<<f, u>>] = snap[<<f, u>>]
        BY <1>1, <2>1, <2>3, BuildParts
      <3> QED
        BY <3>1 DEF BuildInv, SnapsOK
    <2> QED
      BY <2>2, <2>3
  <1> HIDE DEF x
  <1>6. snap' = [snap EXCEPT ![RefOf(c)] = x]
    BY DEF x
  <1>7. snap' \in [Refs -> [state : SnapStates, spec : BakedSpecs \cup {None}]]
    BY <1>1, <1>2, <1>6, BuildParts
  <1>8. \A r \in Refs : snap[r].state # "none" => snap'[r].state # "none"
    BY <1>1, <1>6, BuildParts
  <1>9. snap'[RefOf(c)].state = state
    BY <1>1, <1>2, <1>6, BuildParts
  <1> QED
    BY <1>5, <1>7, <1>8, <1>9 DEF SnapsGrow

LEMMA SnapsStay == ASSUME BuildInv, UNCHANGED <<ver, snap>> PROVE SnapsGrow
  <1>1. SnapsOK'
    BY DEF BuildInv, SnapsOK
  <1> QED
    BY <1>1, BuildParts DEF SnapsGrow

\* Calls that go on or end, and snapshots that grow, keep the invariant.
LEMMA CallMoveKeepsBuilds ==
    ASSUME BuildInv, UNCHANGED <<stage, builds, todo>>, SnapsGrow,
           faults' \in Nat, faults' = 0 => faults = 0,
           \/ UNCHANGED <<call, cur>>
           \/ \E c \in Calls : call[c].pc # "idle" /\ Finish(c)
           \/ \E c \in Calls : \E q : GoesOn(c, q)
    PROVE  BuildInv'
  <1>1. stage' = stage /\ active' = active /\ ver' = ver /\ todo' = todo
    BY DEF builds
  <1>2. /\ call' \in [Calls -> {Idle} \cup [pc : {"load", "poll", "register", "ready", "failed"},
                                            env : Envs, v : Nat, key : Nat]]
        /\ cur' \in Calls \cup {None}
    BY BuildParts DEF Finish, GoesOn
  <1>3. BuildTypes'
    BY <1>1, <1>2, BuildParts DEF BuildTypes, SnapsGrow
  <1>4. VersionsOK' /\ NewestOK'
    BY <1>1 DEF BuildInv, VersionsOK, Minted, NewestOK, ReadyVersions
  <1>5. ReadyOK'
    <2> SUFFICES ASSUME NEW e \in Envs, NEW v \in ReadyVersions(e)
                 PROVE  snap'[ver[e][v].ref].state # "none"
      BY <1>1 DEF ReadyOK, ReadyVersions
    <2>1. ver[e][v] \in Version
      BY BuildParts DEF ReadyVersions
    <2> QED
      BY <2>1 DEF BuildInv, ReadyOK, SnapsGrow, Version
  <1>6. ASSUME NEW d \in Calls, call'[d].pc # "idle"
        PROVE  /\ call[d].pc # "idle"
               /\ call'[d].env = call[d].env /\ call'[d].v = call[d].v
               /\ call'[d].pc = "ready" => snap'[RefOf(d)].state # "none"
    <2>1. CASE call'[d] = call[d]
      <3>1. RefOf(d) \in Refs
        BY <1>6, <2>1, CallVersion
      <3> QED
        BY <1>6, <2>1, <3>1 DEF BuildInv, CallsOK, SnapsGrow
    <2>2. CASE call'[d] # call[d]
      <3>1. CASE \E c \in Calls : call[c].pc # "idle" /\ Finish(c)
        BY <1>6, <2>2, <3>1, BuildParts DEF Finish, Idle
      <3>2. CASE \E c \in Calls : \E q : GoesOn(c, q)
        <4> PICK c \in Calls : \E q : GoesOn(c, q)
          BY <3>2
        <4>1. PICK q : GoesOn(c, q)
          OBVIOUS
        <4>2. d = c /\ call'[d] = q
          BY <2>2, <4>1, BuildParts DEF GoesOn
        <4> QED
          BY <4>1, <4>2 DEF GoesOn
      <3> QED
        BY <2>2, <3>1, <3>2
    <2> QED
      BY <2>1, <2>2
  <1>7. CallsOK'
    <2>1. \A w \in todo' : w[2] <= Len(ver'[w[1]])
      BY <1>1 DEF BuildInv, CallsOK
    <2>2. ASSUME NEW d \in Calls, call'[d].pc # "idle"
          PROVE  /\ call'[d].v \in 1 .. Len(ver'[call'[d].env])
                 /\ call'[d].pc = "ready" =>
                        snap'[ver'[call'[d].env][call'[d].v].ref].state # "none"
      BY <1>1, <1>6, <2>2 DEF BuildInv, CallsOK, RefOf
    <2> QED
      BY <2>1, <2>2 DEF CallsOK, RefOf
  <1>8. ASSUME faults = 0, NEW d \in Calls, call'[d].pc # "idle" PROVE cur' = d
    <2>1. call[d].pc # "idle" /\ cur = d
      BY <1>6, <1>8 DEF BuildInv, AloneOK
    <2>2. CASE UNCHANGED <<call, cur>>
      BY <2>1, <2>2
    <2>3. ASSUME NEW c \in Calls, call[c].pc # "idle", Finish(c) PROVE cur' = d
      <3>1. cur = c /\ c = d
        BY <1>8, <2>1, <2>3 DEF BuildInv, AloneOK
      <3>2. call'[d] = Idle
        BY <2>3, <3>1, BuildParts DEF Finish
      <3> QED
        BY <1>8, <3>2 DEF Idle
    <2>4. ASSUME NEW c \in Calls, NEW q, GoesOn(c, q) PROVE cur' = d
      BY <2>1, <2>4 DEF GoesOn
    <2> QED
      BY <2>2, <2>3, <2>4
  <1>9. AloneOK'
    BY <1>1, <1>6, <1>8 DEF BuildInv, AloneOK, Pending, ReadyVersions
  <1> QED
    BY <1>3, <1>4, <1>5, <1>7, <1>9 DEF BuildInv, SnapsGrow

\* A call moves to another pc, with the snapshots as SnapsGrow has them.
LEMMA GotoKeepsBuilds ==
    ASSUME BuildInv, UNCHANGED <<stage, builds, todo, faults>>, SnapsGrow,
           NEW c \in Calls, call[c].pc # "idle",
           NEW pc \in {"load", "poll", "register", "ready", "failed"},
           Goto(c, pc), pc = "ready" => snap'[RefOf(c)].state # "none"
    PROVE  BuildInv'
  <1> DEFINE q == [call[c] EXCEPT !.pc = pc]
  <1>1. call[c] \in [pc : {"load", "poll", "register", "ready", "failed"},
                     env : Envs, v : Nat, key : Nat]
    BY CallVersion
  <1>2. /\ q \in [pc : {"load", "poll", "register", "ready", "failed"},
                  env : Envs, v : Nat, key : Nat]
        /\ q.env = call[c].env /\ q.v = call[c].v /\ q.pc = pc
    BY <1>1
  <1>3. call' = [call EXCEPT ![c] = q] /\ cur' = cur
    BY DEF Goto
  <1> HIDE DEF q
  <1>4. GoesOn(c, q)
    BY <1>2, <1>3 DEF GoesOn
  <1> QED
    BY <1>4, BuildParts, CallMoveKeepsBuilds

LEMMA FinishKeepsBuilds ==
    ASSUME BuildInv, UNCHANGED <<stage, builds, todo>>, SnapsGrow,
           faults' \in Nat, faults' = 0 => faults = 0,
           NEW c \in Calls, call[c].pc # "idle", Finish(c)
    PROVE  BuildInv'
  BY CallMoveKeepsBuilds

LEMMA JudgeKeepsBuilds ==
    ASSUME BuildInv, UNCHANGED <<stage, builds, todo, faults>>, SnapsGrow,
           NEW c \in Calls, call[c].pc # "idle",
           NEW state \in SnapStates \ {"none"},
           Judge(c, state), snap'[RefOf(c)].state = state
    PROVE  BuildInv'
  <1>1. CASE state = "active"
    BY <1>1, GotoKeepsBuilds DEF Judge
  <1>2. CASE state = "failed"
    BY <1>2, GotoKeepsBuilds DEF Judge
  <1>3. CASE state \in {"building", "inactive"}
    BY <1>3, FinishKeepsBuilds, BuildParts DEF Judge
  <1> QED
    BY <1>1, <1>2, <1>3 DEF SnapStates

LEMMA LoadKeepsBuilds ==
    ASSUME BuildInv, key \in Nat, NEW c \in Calls, Load(c)
    PROVE  BuildInv'
  <1>1. /\ call[c].pc = "load" /\ UNCHANGED <<stage, builds, todo, faults>>
        /\ UNCHANGED <<ver, snap>>
    BY DEF Load, flags, builds
  <1>2. SnapsGrow
    BY <1>1, SnapsStay
  <1>3. CASE stage[call[c].env] = "active"
    <2> DEFINE q == [call[c] EXCEPT !.pc = "poll", !.key = key]
    <2>1. call[c] \in [pc : {"load", "poll", "register", "ready", "failed"},
                       env : Envs, v : Nat, key : Nat]
      BY <1>1, CallVersion
    <2>2. /\ q \in [pc : {"load", "poll", "register", "ready", "failed"},
                    env : Envs, v : Nat, key : Nat]
          /\ q.env = call[c].env /\ q.v = call[c].v /\ q.pc = "poll"
      BY <2>1
    <2>3. call' = [call EXCEPT ![c] = q] /\ cur' = cur
      BY <1>3 DEF Load
    <2> HIDE DEF q
    <2>4. GoesOn(c, q)
      BY <1>1, <2>2, <2>3 DEF GoesOn
    <2> QED
      BY <1>1, <1>2, <2>4, BuildParts, CallMoveKeepsBuilds
  <1>4. CASE stage[call[c].env] # "active"
    BY <1>1, <1>2, <1>4, BuildParts, FinishKeepsBuilds DEF Load
  <1> QED
    BY <1>3, <1>4

LEMMA RejectedKeepsBuilds ==
    ASSUME BuildInv, NEW c \in Calls, Rejected(c)
    PROVE  BuildInv'
  <1>1. /\ call[c].pc # "idle" /\ UNCHANGED <<stage, builds, todo, faults>>
        /\ UNCHANGED <<ver, snap>> /\ Goto(c, "failed")
    BY DEF Rejected, flags, builds
  <1> QED
    BY <1>1, SnapsStay, GotoKeepsBuilds

LEMMA StatusKeepsBuilds ==
    ASSUME BuildInv, NEW c \in Calls, GetBuildStatus(c)
    PROVE  BuildInv'
  <1> DEFINE state == snap[RefOf(c)].state
  <1>1. /\ call[c].pc # "idle" /\ UNCHANGED <<stage, builds, todo, faults>>
        /\ UNCHANGED <<ver, snap>>
        /\ IF state = "none" THEN Goto(c, "register") ELSE Judge(c, state)
    BY DEF GetBuildStatus, flags, builds
  <1>2. SnapsGrow
    BY <1>1, SnapsStay
  <1>3. CASE state = "none"
    BY <1>1, <1>2, <1>3, GotoKeepsBuilds
  <1>4. CASE state # "none"
    <2>1. snap[RefOf(c)] \in [state : SnapStates, spec : BakedSpecs \cup {None}]
      BY <1>1, CallVersion, BuildParts
    <2>2. state \in SnapStates \ {"none"}
      BY <1>4, <2>1
    <2>3. snap'[RefOf(c)].state = state
      BY <1>1
    <2> HIDE DEF state
    <2> QED
      BY <1>1, <1>2, <1>4, <2>2, <2>3, JudgeKeepsBuilds
  <1> QED
    BY <1>3, <1>4

LEMMA BuildKeepsBuilds ==
    ASSUME BuildInv, NEW c \in Calls, Build(c)
    PROVE  BuildInv'
  <1>1. call[c].pc # "idle" /\ UNCHANGED <<stage, builds, todo, faults>> /\ UNCHANGED ver
    BY DEF Build, flags, builds
  <1>2. ASSUME snap[RefOf(c)].state = "none",
               NEW state \in {"building", "active", "failed"},
               snap' = [snap EXCEPT ![RefOf(c)] = [state |-> state, spec |-> SpecOf(c)]],
               Judge(c, state)
        PROVE  BuildInv'
    <2>1. SnapsGrow /\ snap'[RefOf(c)].state = state
      BY <1>1, <1>2, RegisterGrows
    <2> QED
      BY <1>1, <1>2, <2>1, JudgeKeepsBuilds DEF SnapStates
  <1>3. ASSUME NEW pc \in {"failed", "poll"}, Goto(c, pc), UNCHANGED snap PROVE BuildInv'
    <2>1. SnapsGrow
      BY <1>1, <1>3, SnapsStay
    <2> QED
      BY <1>1, <1>3, <2>1, GotoKeepsBuilds
  <1> QED
    BY <1>2, <1>3 DEF Build

LEMMA ErrorKeepsBuilds ==
    ASSUME BuildInv, NEW c \in Calls, TransientError(c)
    PROVE  BuildInv'
  <1>1. /\ call[c].pc # "idle" /\ UNCHANGED <<stage, builds, todo>> /\ UNCHANGED ver
        /\ faults' = faults + 1 /\ Finish(c)
    BY DEF TransientError, flags, builds
  <1>2. SnapsGrow
    BY <1>1, SnapsStay, RegisterGrows DEF TransientError
  <1>3. faults' \in Nat /\ faults' # 0
    BY <1>1, BuildParts
  <1> QED
    BY <1>1, <1>2, <1>3, FinishKeepsBuilds

\* A registered snapshot changes its state: Daytona ends its build or
\* deactivates it, or a turn activates it.
LEMMA SnapshotMovesKeepsBuilds ==
    ASSUME BuildInv, NEW r \in Refs, NEW state \in SnapStates \ {"none"},
           snap[r].state # "none", snap' = [snap EXCEPT ![r].state = state],
           UNCHANGED <<stage, builds, loop, faults>>
    PROVE  BuildInv'
  <1>1. /\ UNCHANGED <<stage, builds, todo>> /\ UNCHANGED <<call, cur>>
        /\ ver' = ver /\ faults' = faults
    BY DEF builds, loop
  <1>2. /\ snap' \in [Refs -> [state : SnapStates, spec : BakedSpecs \cup {None}]]
        /\ \A q \in Refs : q # r => snap'[q] = snap[q]
        /\ snap'[r].spec = snap[r].spec /\ snap'[r].state # "none"
    <2>1. snap[r] \in [state : SnapStates, spec : BakedSpecs \cup {None}]
      BY BuildParts
    <2> QED
      BY <2>1, BuildParts
  <1>3. SnapsOK'
    <2> SUFFICES ASSUME NEW e \in Envs, NEW w \in 1 .. MaxVersions,
                        snap'[<<e, w>>].state # "none"
                 PROVE  w <= Len(ver[e]) /\ snap'[<<e, w>>].spec = ver[e][w].spec
      BY <1>1 DEF SnapsOK
    <2>1. <<e, w>> \in Refs
      BY DEF Refs
    <2>2. snap[<<e, w>>].state # "none" /\ snap'[<<e, w>>].spec = snap[<<e, w>>].spec
      BY <1>2, <2>1
    <2> QED
      BY <2>2 DEF BuildInv, SnapsOK
  <1>4. SnapsGrow
    BY <1>2, <1>3 DEF SnapsGrow
  <1> QED
    BY <1>1, <1>4, BuildParts, CallMoveKeepsBuilds

LEMMA DaytonaKeepsBuilds ==
    ASSUME BuildInv, NEW r \in Refs, BuildEnds(r) \/ Deactivate(r)
    PROVE  BuildInv'
  <1>1. /\ snap[r].state # "none" /\ UNCHANGED <<stage, builds, loop, faults>>
        /\ \E state \in SnapStates \ {"none"} : snap' = [snap EXCEPT ![r].state = state]
    BY DEF BuildEnds, Deactivate, flags, SnapStates
  <1> QED
    BY <1>1, SnapshotMovesKeepsBuilds

LEMMA TurnKeepsBuilds ==
    ASSUME BuildInv, NEW e \in Envs, RejectIfSnapshotInactive(e)
    PROVE  BuildInv'
  <1>1. PICK v \in ReadyVersions(e) :
            /\ snap[ver[e][v].ref].state = "inactive"
            /\ snap' = [snap EXCEPT ![ver[e][v].ref].state = "building"]
    BY DEF RejectIfSnapshotInactive
  <1>2. PICK r \in Refs : r = ver[e][v].ref
    BY BuildParts DEF ReadyVersions, Version
  <1>3. /\ snap[r].state # "none" /\ UNCHANGED <<stage, builds, loop, faults>>
        /\ snap' = [snap EXCEPT ![r].state = "building"]
    BY <1>1, <1>2 DEF RejectIfSnapshotInactive, flags
  <1>4. "building" \in SnapStates \ {"none"}
    BY DEF SnapStates
  <1> QED
    BY <1>3, <1>4, SnapshotMovesKeepsBuilds

\* The verdict on a call's version: its status is set and the call ends.
Settles(c, st) ==
    /\ call[c].pc # "idle"
    /\ ver' = [ver EXCEPT ![call[c].env][call[c].v].status = st]
    /\ Finish(c)
    /\ UNCHANGED <<stage, snap, todo, faults>>

\* What a verdict changes of the versions.
LEMMA VerdictEffect ==
    ASSUME BuildInv, NEW c \in Calls, NEW st \in {"ready", "failed"}, Settles(c, st)
    PROVE  /\ ver' \in [Envs -> Seq(Version)]
           /\ \A e \in Envs : Len(ver'[e]) = Len(ver[e])
           /\ \A e \in Envs : \A v \in 1 .. Len(ver[e]) :
                /\ ver'[e][v].spec = ver[e][v].spec /\ ver'[e][v].ref = ver[e][v].ref
                /\ ver'[e][v].status = IF e = call[c].env /\ v = call[c].v
                                       THEN st ELSE ver[e][v].status
  <1> DEFINE f == call[c].env
             u == call[c].v
             x == [ver[f][u] EXCEPT !.status = st]
             s == [ver[f] EXCEPT ![u] = x]
  <1>1. f \in Envs /\ u \in 1 .. Len(ver[f]) /\ ver[f] \in Seq(Version) /\ ver[f][u] \in Version
    BY CallVersion, BuildParts DEF Settles
  <1>2. /\ x \in Version /\ x.status = st
        /\ x.spec = ver[f][u].spec /\ x.ref = ver[f][u].ref
    BY <1>1 DEF Version
  <1>3. ver' = [ver EXCEPT ![f] = s]
    BY DEF Settles
  <1> HIDE DEF f, u, x
  <1>4. /\ s \in Seq(Version) /\ Len(s) = Len(ver[f])
        /\ s[u] = x
        /\ \A v \in 1 .. Len(ver[f]) : v # u => s[v] = ver[f][v]
    BY <1>1, <1>2
  <1> HIDE DEF s
  <1>5. /\ ver' \in [Envs -> Seq(Version)]
        /\ ver'[f] = s
        /\ \A e \in Envs : e # f => ver'[e] = ver[e]
    BY <1>1, <1>3, <1>4, BuildParts
  <1>6. \A e \in Envs : Len(ver'[e]) = Len(ver[e])
    BY <1>4, <1>5
  <1>7. ASSUME NEW e \in Envs, NEW v \in 1 .. Len(ver[e])
        PROVE  /\ ver'[e][v].spec = ver[e][v].spec /\ ver'[e][v].ref = ver[e][v].ref
               /\ ver'[e][v].status = IF e = f /\ v = u THEN st ELSE ver[e][v].status
    <2>1. CASE e # f
      BY <1>5, <2>1
    <2>2. CASE e = f /\ v # u
      BY <1>4, <1>5, <2>2
    <2>3. CASE e = f /\ v = u
      BY <1>2, <1>4, <1>5, <2>3
    <2> QED
      BY <2>1, <2>2, <2>3
  <1> QED
    BY <1>5, <1>6, <1>7 DEF f, u

\* A verdict keeps the invariant when the active pointer stays right.
LEMMA VerdictKeepsBuilds ==
    ASSUME BuildInv, NEW c \in Calls, NEW st \in {"ready", "failed"}, Settles(c, st),
           st = "ready" => snap[RefOf(c)].state # "none",
           active' \in [Envs -> Nat], NewestOK',
           faults = 0 => \A e \in Envs : stage[e] = "active" =>
                \/ active'[e] \in ReadyVersions(e)'
                \/ ReadyVersions(e)' = {} /\ active'[e] = 1
    PROVE  BuildInv'
  <1>0. /\ stage' = stage /\ snap' = snap /\ todo' = todo /\ faults' = faults
        /\ call[c].pc # "idle" /\ Finish(c)
    BY DEF Settles
  <1> DEFINE same(e, v) ==
                /\ ver'[e][v].spec = ver[e][v].spec /\ ver'[e][v].ref = ver[e][v].ref
                /\ ver'[e][v].status = IF e = call[c].env /\ v = call[c].v
                                       THEN st ELSE ver[e][v].status
  <1>1. /\ ver' \in [Envs -> Seq(Version)]
        /\ \A e \in Envs : Len(ver'[e]) = Len(ver[e]) /\ Len(ver[e]) \in Nat
        /\ \A e \in Envs : \A v \in 1 .. Len(ver[e]) : same(e, v)
    BY VerdictEffect, BuildParts
  <1>2. /\ call' = [call EXCEPT ![c] = Idle]
        /\ cur' = IF cur = c THEN None ELSE cur
        /\ call'[c] = Idle
        /\ \A d \in Calls : d # c => call'[d] = call[d]
    BY <1>0, BuildParts DEF Finish
  <1>3. BuildTypes'
    BY <1>0, <1>1, <1>2, BuildParts DEF BuildTypes
  <1>4. VersionsOK'
    <2>1. ASSUME NEW e \in Envs, stage[e] = "absent" PROVE ver'[e] = <<>>
      <3>1. ver[e] = <<>> /\ Len(ver'[e]) = 0 /\ ver'[e] \in Seq(Version)
        BY <1>1, <2>1 DEF BuildInv, VersionsOK
      <3> QED
        BY <3>1
    <2>2. ASSUME NEW e \in Envs, NEW v \in 1 .. Len(ver[e]) PROVE Minted(e, v)'
      <3>1. PICK w \in 1 .. v : ver[e][v].ref = <<e, w>> /\ ver[e][w].spec = ver[e][v].spec
        BY <2>2 DEF BuildInv, VersionsOK, Minted
      <3>2. w \in 1 .. Len(ver[e])
        BY <1>1, <3>1
      <3>3. same(e, v) /\ same(e, w)
        BY <1>1, <3>2
      <3> QED
        BY <3>1, <3>3 DEF Minted
    <2>3. ASSUME NEW e \in Envs PROVE Len(ver'[e]) <= MaxVersions
      BY <1>1 DEF BuildInv, VersionsOK
    <2> QED
      BY <1>0, <1>1, <2>1, <2>2, <2>3 DEF VersionsOK
  <1>5. SnapsOK'
    <2> SUFFICES ASSUME NEW e \in Envs, NEW w \in 1 .. MaxVersions, snap[<<e, w>>].state # "none"
                 PROVE  w <= Len(ver'[e]) /\ snap[<<e, w>>].spec = ver'[e][w].spec
      BY <1>0 DEF SnapsOK
    <2>1. w <= Len(ver[e]) /\ snap[<<e, w>>].spec = ver[e][w].spec
      BY DEF BuildInv, SnapsOK
    <2>2. w \in 1 .. Len(ver[e])
      BY <1>1, <2>1, BoundsAssumption
    <2>3. same(e, w)
      BY <1>1, <2>2
    <2> QED
      BY <1>1, <2>1, <2>3
  <1>6. ReadyOK'
    <2> SUFFICES ASSUME NEW e \in Envs, NEW v \in 1 .. Len(ver[e]), ver'[e][v].status = "ready"
                 PROVE  snap[ver'[e][v].ref].state # "none"
      BY <1>0, <1>1 DEF ReadyOK, ReadyVersions
    <2>1. same(e, v)
      BY <1>1
    <2>2. CASE e = call[c].env /\ v = call[c].v
      BY <2>1, <2>2 DEF RefOf
    <2>3. CASE ~(e = call[c].env /\ v = call[c].v)
      <3>1. v \in ReadyVersions(e)
        BY <2>1, <2>3 DEF ReadyVersions
      <3> QED
        BY <2>1, <3>1 DEF BuildInv, ReadyOK
    <2> QED
      BY <2>2, <2>3
  <1>7. CallsOK'
    <2>1. ASSUME NEW w \in todo PROVE w[2] <= Len(ver'[w[1]])
      BY <1>1, BuildParts DEF BuildInv, CallsOK, Refs
    <2>2. ASSUME NEW d \in Calls, call'[d].pc # "idle"
          PROVE  /\ call'[d].v \in 1 .. Len(ver'[call'[d].env])
                 /\ call'[d].pc = "ready" =>
                        snap[ver'[call'[d].env][call'[d].v].ref].state # "none"
      <3>1. d # c /\ call'[d] = call[d] /\ call[d].pc # "idle"
        BY <1>2, <2>2 DEF Idle
      <3>2. call[d].env \in Envs /\ call[d].v \in 1 .. Len(ver[call[d].env])
        BY <3>1, CallVersion
      <3>3. same(call[d].env, call[d].v)
        BY <1>1, <3>2
      <3>4. Len(ver'[call[d].env]) = Len(ver[call[d].env])
        BY <1>1, <3>2
      <3>5. call[d].pc = "ready" => snap[ver[call[d].env][call[d].v].ref].state # "none"
        BY <3>1 DEF BuildInv, CallsOK, RefOf
      <3> QED
        BY <3>1, <3>2, <3>3, <3>4, <3>5
    <2> QED
      BY <1>0, <2>1, <2>2 DEF CallsOK, RefOf
  <1>8. ASSUME faults = 0 PROVE AloneOK'
    <2>1. /\ cur = c
          /\ <<call[c].env, call[c].v>> \notin todo
          /\ \A d \in Calls : call'[d].pc = "idle"
      <3>1. \A d \in Calls : call[d].pc # "idle" =>
                /\ cur = d /\ <<call[d].env, call[d].v>> \notin todo
        BY <1>8 DEF BuildInv, AloneOK
      <3>2. \A d \in Calls : d # c => call'[d].pc = "idle"
        BY <1>0, <1>2, <3>1
      <3> QED
        BY <1>0, <1>2, <3>1, <3>2 DEF Idle
    <2>2. ASSUME NEW w \in todo PROVE Pending(w[1], w[2])'
      <3>1. w[1] \in Envs /\ w[2] \in 1 .. Len(ver[w[1]]) /\ w = <<w[1], w[2]>>
        BY BuildParts, BoundsAssumption DEF BuildInv, CallsOK, Refs
      <3>2. same(w[1], w[2])
        BY <1>1, <3>1
      <3>3. ~(w[1] = call[c].env /\ w[2] = call[c].v)
        BY <2>1, <3>1
      <3> QED
        BY <1>8, <3>2, <3>3 DEF BuildInv, AloneOK, Pending
    <2> QED
      BY <1>0, <1>8, <2>1, <2>2 DEF AloneOK
  <1>9. AloneOK'
    BY <1>0, <1>8 DEF AloneOK
  <1> QED
    BY <1>3, <1>4, <1>5, <1>6, <1>7, <1>9 DEF BuildInv

\* The pointer moves to the version made ready, unless it is past it: no ready
\* version is newer.
LEMMA ReadyKeepsBuilds ==
    ASSUME BuildInv, NEW c \in Calls, MarkVersionReady(c)
    PROVE  BuildInv'
  <1> DEFINE e == call[c].env
             v == call[c].v
  <1>1. /\ Settles(c, "ready") /\ call[c].pc = "ready" /\ stage' = stage
        /\ active' = [active EXCEPT ![e] = IF stage[e] = "active" /\ @ <= v THEN v ELSE @]
    BY DEF MarkVersionReady, Settles, flags
  <1>2. e \in Envs /\ v \in 1 .. Len(ver[e]) /\ v \in Nat /\ v >= 1
    BY <1>1, CallVersion DEF Settles
  <1>3. snap[RefOf(c)].state # "none"
    BY <1>1 DEF BuildInv, CallsOK
  <1>4. \A f \in Envs : ReadyVersions(f)' = IF f = e THEN ReadyVersions(f) \cup {v} ELSE ReadyVersions(f)
    <2>1. ASSUME NEW f \in Envs
          PROVE  ReadyVersions(f)' = IF f = e THEN ReadyVersions(f) \cup {v} ELSE ReadyVersions(f)
      <3>1. /\ Len(ver'[f]) = Len(ver[f])
            /\ \A w \in 1 .. Len(ver[f]) :
                    ver'[f][w].status = IF f = e /\ w = v THEN "ready" ELSE ver[f][w].status
        BY <1>1, VerdictEffect
      <3> QED
        BY <1>2, <3>1 DEF ReadyVersions
    <2> QED
      BY <2>1
  <1>5. /\ \A f \in Envs : ReadyVersions(f) \subseteq Nat
        /\ \A f \in Envs : stage[f] = "active" => \A w \in ReadyVersions(f) : w <= active[f]
        /\ active \in [Envs -> Nat]
    BY BuildParts DEF ReadyVersions, BuildInv, NewestOK
  <1> HIDE DEF e, v
  <1>6. active' \in [Envs -> Nat]
    BY <1>1, <1>2, <1>5
  <1>7. ASSUME NEW f \in Envs
        PROVE  /\ f # e => active'[f] = active[f]
               /\ f = e /\ stage[e] = "active" =>
                    active'[f] = IF active[f] <= v THEN v ELSE active[f]
    BY <1>1, <1>2, <1>5
  <1>8. ASSUME NEW f \in Envs, stage[f] = "active", NEW w \in ReadyVersions(f)'
        PROVE  w <= active'[f]
    <2>1. active[f] \in Nat /\ (w \in ReadyVersions(f) => w \in Nat /\ w <= active[f])
      BY <1>5, <1>8
    <2> QED
      BY <1>2, <1>4, <1>7, <1>8, <2>1
  <1>9. NewestOK'
    BY <1>1, <1>8 DEF NewestOK
  <1>10. ASSUME faults = 0, NEW f \in Envs, stage[f] = "active"
         PROVE  \/ active'[f] \in ReadyVersions(f)'
                \/ ReadyVersions(f)' = {} /\ active'[f] = 1
    <2>1. active[f] \in ReadyVersions(f) \/ (ReadyVersions(f) = {} /\ active[f] = 1)
      BY <1>10 DEF BuildInv, AloneOK
    <2>2. active[f] \in Nat
      BY <1>5
    <2>3. CASE f # e
      BY <1>4, <1>7, <2>1, <2>3
    <2>4. CASE f = e /\ active[f] <= v
      BY <1>4, <1>7, <1>10, <2>4
    <2>5. CASE f = e /\ ~(active[f] <= v)
      BY <1>2, <1>4, <1>7, <1>10, <2>1, <2>2, <2>5
    <2> QED
      BY <2>3, <2>4, <2>5
  <1> QED
    BY <1>1, <1>3, <1>6, <1>9, <1>10, VerdictKeepsBuilds

\* While nothing has failed, the version a call fails was pending, so the
\* active one is still ready.
LEMMA FailedKeepsBuilds ==
    ASSUME BuildInv, NEW c \in Calls, MarkVersionFailed(c)
    PROVE  BuildInv'
  <1>1. Settles(c, "failed") /\ stage' = stage /\ active' = active
    BY DEF MarkVersionFailed, Settles, flags
  <1>2. \A f \in Envs :
            /\ Len(ver'[f]) = Len(ver[f])
            /\ \A w \in 1 .. Len(ver[f]) :
                    ver'[f][w].status = IF f = call[c].env /\ w = call[c].v
                                        THEN "failed" ELSE ver[f][w].status
    BY <1>1, VerdictEffect
  <1>3. \A f \in Envs : ReadyVersions(f)' \subseteq ReadyVersions(f)
    BY <1>2 DEF ReadyVersions
  <1>4. ASSUME faults = 0, NEW f \in Envs PROVE ReadyVersions(f)' = ReadyVersions(f)
    <2>1. ver[call[c].env][call[c].v].status = "pending"
      BY <1>1, <1>4 DEF BuildInv, AloneOK, Pending, Settles
    <2> QED
      BY <1>2, <2>1 DEF ReadyVersions
  <1>5. NewestOK'
    BY <1>1, <1>3 DEF BuildInv, NewestOK
  <1>6. ASSUME faults = 0, NEW f \in Envs, stage[f] = "active"
        PROVE  \/ active'[f] \in ReadyVersions(f)'
               \/ ReadyVersions(f)' = {} /\ active'[f] = 1
    BY <1>1, <1>4, <1>6 DEF BuildInv, AloneOK
  <1> QED
    BY <1>1, <1>5, <1>6, BuildParts, VerdictKeepsBuilds

\* A PATCH changes nothing of the builds.
LEMMA PatchKeepsBuilds ==
    ASSUME NEW p \in Patches,
           PatchStep(p) \/ \E n \in Names, b \in Bodies : PatchLoad(p, n, b)
    PROVE  UNCHANGED buildVars
  <1>1. CASE PatchStep(p)
    BY <1>1 DEF PatchStep, PatchGone, SetEnvironmentEnabled, SetDefaultLock, SetDefaultCommit,
                ClearDefault, flags, builds, loop, buildVars
  <1>2. CASE \E n \in Names, b \in Bodies : PatchLoad(p, n, b)
    BY <1>2 DEF PatchLoad, flags, builds, loop, buildVars
  <1> QED
    BY <1>1, <1>2

LEMMA BuildStep == SlotInv /\ BuildInv /\ [Next]_vars => BuildInv'
  <1> SUFFICES ASSUME SlotInv, BuildInv, [Next]_vars PROVE BuildInv'
    OBVIOUS
  <1>0. stage \in [Envs -> {"absent", "active", "deleted"}] /\ key \in Nat
    BY DEF SlotInv, SlotTypes
  <1>1. CASE PutProvider
    <2>1. /\ WriteEnvironment(NameOf[Reserved], ReservedSpec)
          /\ UNCHANGED <<snap, loop, faults>>
      BY <1>1 DEF PutProvider
    <2>2. ReservedSpec \in BakedSpecs
      BY DEF BakedSpecs
    <2> QED
      BY <1>0, <2>1, <2>2, WriteAdds, AddVersionKeepsBuilds
  <1>2. ASSUME NEW n \in Names, NEW s \in Specs, PutEnvironment(n, s) PROVE BuildInv'
    <2>1. WriteEnvironment(n, s) /\ UNCHANGED <<snap, loop, faults>>
      BY <1>2 DEF PutEnvironment
    <2>2. s \in BakedSpecs
      BY DEF BakedSpecs
    <2> QED
      BY <1>0, <2>1, <2>2, WriteAdds, AddVersionKeepsBuilds
  <1>3. ASSUME NEW n \in Names, DeleteEnvironment(n) PROVE BuildInv'
    BY <1>0, <1>3, DeleteKeepsBuilds
  <1>4. ASSUME NEW p \in Patches,
               PatchStep(p) \/ \E n \in Names, b \in Bodies : PatchLoad(p, n, b)
        PROVE  BuildInv'
    BY <1>4, PatchKeepsBuilds, BuildsUnchanged
  <1>5. CASE Tick \/ Send \/ Abandon \/ Restart
    BY <1>5, TickKeepsBuilds, SendKeepsBuilds, AbandonKeepsBuilds
  <1>6. ASSUME NEW c \in Calls, ProgressStep(c) \/ TransientError(c) PROVE BuildInv'
    BY <1>0, <1>6, LoadKeepsBuilds, RejectedKeepsBuilds, StatusKeepsBuilds, BuildKeepsBuilds,
       ReadyKeepsBuilds, FailedKeepsBuilds, ErrorKeepsBuilds DEF ProgressStep
  <1>7. ASSUME NEW r \in Refs, BuildEnds(r) \/ Deactivate(r) PROVE BuildInv'
    BY <1>7, DaytonaKeepsBuilds
  <1>9. ASSUME NEW e \in Envs, RejectIfSnapshotInactive(e) PROVE BuildInv'
    BY <1>9, TurnKeepsBuilds
  <1>8. CASE UNCHANGED vars
    BY <1>8, BuildsUnchanged DEF vars, flags, builds, loop, buildVars
  <1> QED
    BY <1>1, <1>2, <1>3, <1>4, <1>5, <1>6, <1>7, <1>8, <1>9 DEF Next

\* The versions and snapshots stay consistent: typed, each name minted by a
\* version that bakes in the same, each snapshot built from it.
THEOREM BuildsConsistent == Spec => []BuildInv
  <1>1. Init => SlotInv /\ BuildInv
    BY SlotInit, BuildInit
  <1>2. SlotInv /\ BuildInv /\ [Next]_vars => (SlotInv /\ BuildInv)'
    BY SlotStep, BuildStep
  <1> QED
    BY <1>1, <1>2, PTL DEF Spec

\* A ready version's snapshot exists and was built from that version's own
\* build script and resources, for any number of environments, versions, calls,
\* timeouts and restarts.
THEOREM SnapshotsMatch == Spec => []SnapshotMatches
  <1>1. BuildInv => SnapshotMatches
    <2> SUFFICES ASSUME BuildInv, NEW e \in Envs, NEW v \in ReadyVersions(e)
                 PROVE  /\ snap[ver[e][v].ref].state # "none"
                        /\ snap[ver[e][v].ref].spec = ver[e][v].spec
      BY DEF SnapshotMatches
    <2>1. v \in 1 .. Len(ver[e]) /\ ver[e][v] \in Version /\ Len(ver[e]) \in Nat
      BY BuildParts DEF ReadyVersions
    <2>2. PICK w \in 1 .. v : ver[e][v].ref = <<e, w>> /\ ver[e][w].spec = ver[e][v].spec
      BY <2>1 DEF BuildInv, VersionsOK, Minted
    <2>3. w \in 1 .. MaxVersions
      BY <2>1, <2>2, BoundsAssumption DEF BuildInv, VersionsOK
    <2>4. snap[ver[e][v].ref].state # "none"
      BY DEF BuildInv, ReadyOK
    <2>5. snap[<<e, w>>].spec = ver[e][w].spec
      BY <2>2, <2>3, <2>4 DEF BuildInv, SnapsOK
    <2> QED
      BY <2>2, <2>4, <2>5
  <1> QED
    BY <1>1, BuildsConsistent, PTL

\* No ready version of an active environment is newer than its active one,
\* and while no call has failed or been abandoned the active one is ready as
\* soon as any is, in whatever order calls settle.
THEOREM NewestReadyActive == Spec => []ActiveIsNewestReady
  <1>1. BuildInv => ActiveIsNewestReady
    BY DEF BuildInv, NewestOK, AloneOK, ActiveIsNewestReady
  <1> QED
    BY <1>1, BuildsConsistent, PTL
=============================================================================
