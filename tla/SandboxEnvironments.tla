------------------------- MODULE SandboxEnvironments -------------------------
(***************************************************************************)
(* Sandbox environments of one tenant: the API that writes them, the rows   *)
(* of PostgresSandboxEnvironmentStore, the control loop that drives their   *)
(* snapshot builds, and the calls it makes to the server.                   *)
(*                                                                          *)
(* An environment is a parent row (stage, enabled, isDefault and a pointer  *)
(* to its active version) and a list of versions.  A PUT appends a pending  *)
(* version and returns; the loop hands the newest pending version of each   *)
(* environment to the server, one call at a time, and a call polls or       *)
(* registers the version's snapshot with Daytona and records the verdict.   *)
(* A call outlives the loop that made it when the client gives up waiting   *)
(* or the controller restarts, so several may run at once.                  *)
(*                                                                          *)
(* Data: a spec stands for what a snapshot bakes in (build script and       *)
(* resources); a snapshot name is the <<environment, version>> that minted  *)
(* it; a key is its generation (0: no provider yet).  One subject owns all  *)
(* environments, and manifests mount no secrets.                            *)
(***************************************************************************)
EXTENDS Naturals, Sequences, FiniteSets

CONSTANTS
    Envs,           \* row ids
    NameOf,         \* the name each id is created under
    Reserved,       \* the id of the reserved environment "default"
    Specs,          \* what a snapshot bakes in
    ReservedSpec,   \* that of the reserved environment
    Patches,        \* PATCH requests that may be under way together
    Bodies,         \* their bodies: [enabled, isDefault]
    Calls,          \* progress calls that may be under way together
    None,
    MaxVersions,    \* bound: versions of an environment
    Budgets,        \* bound: writes of each kind (put, delete, patch, rotate),
                    \* names PUT may use, snapshots Daytona deactivates (idle),
                    \* and whether the controller is deployed
    MaxFaults       \* bound: timeouts, errors and restarts

ASSUME EnvsAssumption ==
    /\ Reserved \in Envs
    /\ NameOf \in [Envs -> {NameOf[e] : e \in Envs}]
    /\ \A e \in Envs : NameOf[e] = NameOf[Reserved] => e = Reserved
    /\ None \notin Envs \cup Calls

ASSUME BoundsAssumption ==
    MaxVersions \in Nat \ {0} /\ MaxFaults \in Nat

\* A body asks for something.
ASSUME BodiesAssumption ==
    \A b \in Bodies :
        /\ b \in [enabled : {"on", "off", "keep"}, isDefault : {"set", "clear", "keep"}]
        /\ b.enabled # "keep" \/ b.isDefault # "keep"

VARIABLES
    stage,      \* [Envs -> "absent" | "active" | "deleted"]
    enabled,    \* [Envs -> BOOLEAN]
    isDefault,  \* [Envs -> BOOLEAN]
    active,     \* [Envs -> Nat], active_version
    ver,        \* [Envs -> Seq([status, spec, ref])]
    snap,       \* Daytona: [ref -> [state, spec]]
    key,        \* the provider row's API key
    patch,      \* [Patches -> the progress of a PATCH]
    call,       \* [Calls -> the progress of a progress call]
    todo,       \* the versions the loop's tick has still to send
    cur,        \* the call the loop waits for
    budget,     \* the writes left
    faults

flags == <<stage, enabled, isDefault>>
builds == <<active, ver>>
loop == <<call, todo, cur>>
vars == <<flags, builds, snap, key, patch, loop, budget, faults>>

Names == {NameOf[e] : e \in Envs}
Refs == Envs \X (1 .. MaxVersions)
Idle == [pc |-> "idle"]

Init ==
    /\ stage = [e \in Envs |-> "absent"]
    /\ enabled = [e \in Envs |-> FALSE]
    /\ isDefault = [e \in Envs |-> FALSE]
    /\ active = [e \in Envs |-> 0]
    /\ ver = [e \in Envs |-> <<>>]
    /\ snap = [r \in Refs |-> [state |-> "none", spec |-> None]]
    /\ key = 0
    /\ patch = [p \in Patches |-> Idle]
    /\ call = [c \in Calls |-> Idle]
    /\ todo = {}
    /\ cur = None
    /\ budget \in Budgets
    /\ faults = 0

-----------------------------------------------------------------------------
(* The store.                                                               *)

\* The active row of a name, if it has one: the unique index allows no second.
Row(n) == {e \in Envs : NameOf[e] = n /\ stage[e] = "active"}

\* SELECT ... FOR UPDATE of setDefaultEnvironment, the one transaction whose
\* statements other requests can come between, holds its target's row.
Locked(e) == \E p \in Patches : patch[p].pc = "setting" /\ patch[p].env = e

\* An API write: refused (422) while no provider is configured.  (PATCH does
\* not ask for the provider, but without one there is no row for it to find.)
Request(kind) ==
    /\ key # 0
    /\ budget[kind] > 0
    /\ budget' = [budget EXCEPT ![kind] = @ - 1]

\* The next version of e: pending, under a new snapshot name unless the newest
\* version bakes in the same.
BuildNextVersion_KeepsRef(e, s) ==
    LET n == Len(ver[e])
    IN  [status |-> "pending", spec |-> s,
         ref |-> IF n = 0 THEN <<e, n + 1>> ELSE ver[e][n].ref]
BuildNextVersion(e, s) ==
    LET n == Len(ver[e])
    IN  [status |-> "pending", spec |-> s,
         ref |-> IF n = 0 \/ ver[e][n].spec # s THEN <<e, n + 1>> ELSE ver[e][n].ref]

\* #writeEnvironment, one transaction under the parent's row lock: a version
\* more for the name's active row, or a new row that points at version 1.  The
\* reserved environment claims the default slot when it is inserted.
WriteEnvironment(n, s) ==
    \/ \E e \in Row(n) :
        /\ ~Locked(e)
        /\ Len(ver[e]) < MaxVersions
        /\ ver' = [ver EXCEPT ![e] = Append(@, BuildNextVersion(e, s))]
        /\ UNCHANGED <<flags, active>>
    \/ /\ Row(n) = {}
       /\ \E e \in Envs : NameOf[e] = n /\ stage[e] = "absent"
       /\ LET e == CHOOSE x \in Envs : NameOf[x] = n /\ stage[x] = "absent"
          IN  /\ stage' = [stage EXCEPT ![e] = "active"]
              /\ enabled' = [enabled EXCEPT ![e] = TRUE]
              /\ isDefault' = [isDefault EXCEPT ![e] = (e = Reserved)]
              /\ active' = [active EXCEPT ![e] = 1]
              /\ ver' = [ver EXCEPT ![e] = <<BuildNextVersion(e, s)>>]

\* PUT of the provider.  The first one creates the reserved environment; one
\* with another key appends a pending version to it, in the same transaction.
\* (With the same key it writes nothing that is modelled.)
PutProvider ==
    /\ IF key = 0 THEN UNCHANGED budget ELSE Request("rotate")
    /\ key' = key + 1
    /\ WriteEnvironment(NameOf[Reserved], ReservedSpec)
    /\ UNCHANGED <<snap, patch, loop, faults>>

\* POST and PUT of an environment (POST: of a name not in use).
PutEnvironment(n, s) ==
    /\ Request("put")
    /\ n \in budget.names \ {NameOf[Reserved]}
    /\ WriteEnvironment(n, s)
    /\ UNCHANGED <<snap, key, patch, loop, faults>>

\* DELETE: refused for the reserved and for the default environment.
DeleteEnvironment(n) ==
    /\ Request("delete")
    /\ n # NameOf[Reserved]
    /\ \E e \in Row(n) :
        /\ ~Locked(e)
        /\ ~isDefault[e]
        /\ stage' = [stage EXCEPT ![e] = "deleted"]
    /\ UNCHANGED <<enabled, isDefault, builds, snap, key, patch, loop, faults>>

-----------------------------------------------------------------------------
(* PATCH: load, then one transaction for enabled and one for is_default,    *)
(* each of which finds the row by name again.                               *)

\* The steps left after enabled has been applied.
AfterEnabled(q) == IF q.body.isDefault = "keep" THEN Idle ELSE [q EXCEPT !.pc = q.body.isDefault]

\* The handler's first read refuses to disable the default environment.
PatchLoad(p, n, b) ==
    /\ patch[p].pc = "idle"
    /\ Request("patch")
    /\ \E e \in Row(n) : ~(b.enabled = "off" /\ isDefault[e])
    /\ patch' = [patch EXCEPT ![p] =
                    [pc |-> IF b.enabled = "keep" THEN b.isDefault ELSE "enabled",
                     body |-> b, name |-> n]]
    /\ UNCHANGED <<flags, builds, snap, key, loop, faults>>

\* The row has gone since: 404.
PatchGone(p) ==
    /\ patch[p].pc \in {"enabled", "set", "clear"}
    /\ Row(patch[p].name) = {}
    /\ patch' = [patch EXCEPT ![p] = Idle]
    /\ UNCHANGED <<flags, builds, snap, key, loop, budget, faults>>

\* setEnvironmentEnabled: disabling reads is_default again, under the row lock,
\* and fails with a conflict that ends the request.
SetEnvironmentEnabled_TrustsHandler(p) ==
    /\ patch[p].pc = "enabled"
    /\ \E e \in Row(patch[p].name) :
        /\ ~Locked(e)
        /\ enabled' = [enabled EXCEPT ![e] = (patch[p].body.enabled = "on")]
        /\ patch' = [patch EXCEPT ![p] = AfterEnabled(@)]
    /\ UNCHANGED <<stage, isDefault, builds, snap, key, loop, budget, faults>>
SetEnvironmentEnabled(p) ==
    /\ patch[p].pc = "enabled"
    /\ \E e \in Row(patch[p].name) :
        /\ ~Locked(e)
        /\ IF patch[p].body.enabled = "off" /\ isDefault[e]
           THEN /\ patch' = [patch EXCEPT ![p] = Idle]
                /\ UNCHANGED enabled
           ELSE /\ enabled' = [enabled EXCEPT ![e] = (patch[p].body.enabled = "on")]
                /\ patch' = [patch EXCEPT ![p] = AfterEnabled(@)]
    /\ UNCHANGED <<stage, isDefault, builds, snap, key, loop, budget, faults>>

\* setDefaultEnvironment, first half: lock the target, refuse a disabled one,
\* and start the UPDATE that clears the slot, whose snapshot holds the
\* environments that are the default now.
SetDefaultLock(p) ==
    /\ patch[p].pc = "set"
    /\ \E e \in Row(patch[p].name) :
        /\ ~Locked(e)
        /\ patch' = [patch EXCEPT ![p] =
                IF enabled[e]
                THEN [pc |-> "setting", env |-> e,
                      seen |-> {f \in Envs \ {e} : isDefault[f]}]
                ELSE Idle]
    /\ UNCHANGED <<flags, builds, snap, key, loop, budget, faults>>

\* Second half: the UPDATE waits for a row another request holds, clears the
\* rows of its snapshot, and gives the slot to the target; if an environment
\* outside the snapshot holds it by now, the unique index rolls all back.
SetDefaultCommit(p) ==
    /\ patch[p].pc = "setting"
    /\ \A f \in patch[p].seen : ~Locked(f)
    /\ LET cleared == [f \in Envs |-> isDefault[f] /\ f \notin patch[p].seen]
           e == patch[p].env
       IN  isDefault' = IF \E f \in Envs \ {e} : cleared[f]
                        THEN isDefault
                        ELSE [cleared EXCEPT ![e] = TRUE]
    /\ patch' = [patch EXCEPT ![p] = Idle]
    /\ UNCHANGED <<stage, enabled, builds, snap, key, loop, budget, faults>>

ClearDefault(p) ==
    /\ patch[p].pc = "clear"
    /\ \E e \in Row(patch[p].name) :
        /\ ~Locked(e)
        /\ isDefault' = [isDefault EXCEPT ![e] = FALSE]
    /\ patch' = [patch EXCEPT ![p] = Idle]
    /\ UNCHANGED <<stage, enabled, builds, snap, key, loop, budget, faults>>

-----------------------------------------------------------------------------
(* The control loop.                                                        *)

\* One pending tip per active environment.
LatestPendingVersions_NewestOnly ==
    {w \in Envs \X (1 .. MaxVersions) :
        /\ stage[w[1]] = "active"
        /\ w[2] = Len(ver[w[1]])
        /\ ver[w[1]][w[2]].status = "pending"}
LatestPendingVersions ==
    {w \in Envs \X (1 .. MaxVersions) :
        /\ stage[w[1]] = "active"
        /\ w[2] <= Len(ver[w[1]])
        /\ ver[w[1]][w[2]].status = "pending"
        /\ \A v \in w[2] + 1 .. Len(ver[w[1]]) : ver[w[1]][v].status # "pending"}

Tick ==
    /\ budget.loop
    /\ cur = None
    /\ todo = {}
    /\ LatestPendingVersions # {}
    /\ todo' = LatestPendingVersions
    /\ UNCHANGED <<flags, builds, snap, key, patch, call, cur, budget, faults>>

Send ==
    /\ cur = None
    /\ \E c \in Calls : call[c].pc = "idle"
    /\ \E w \in todo :
        LET c == CHOOSE d \in Calls : call[d].pc = "idle"
        IN  /\ call' = [call EXCEPT ![c] =
                            [pc |-> "load", env |-> w[1], v |-> w[2], key |-> 0]]
            /\ todo' = todo \ {w}
            /\ cur' = c
    /\ UNCHANGED <<flags, builds, snap, key, patch, budget, faults>>

\* The client times out: the loop goes on to the next version, the call too.
Abandon ==
    /\ cur # None
    /\ faults < MaxFaults
    /\ faults' = faults + 1
    /\ cur' = None
    /\ UNCHANGED <<flags, builds, snap, key, patch, call, todo, budget>>

\* The controller restarts: its tick is lost, the server's calls are not.
Restart ==
    /\ cur # None \/ todo # {}
    /\ faults < MaxFaults
    /\ faults' = faults + 1
    /\ cur' = None
    /\ todo' = {}
    /\ UNCHANGED <<flags, builds, snap, key, patch, call, budget>>

-----------------------------------------------------------------------------
(* progressSandboxEnvironmentVersion, on the server.                        *)

Goto(c, pc) ==
    /\ call' = [call EXCEPT ![c].pc = pc]
    /\ UNCHANGED cur

Finish(c) ==
    /\ call' = [call EXCEPT ![c] = Idle]
    /\ cur' = IF cur = c THEN None ELSE cur

RefOf(c) == ver[call[c].env][call[c].v].ref
SpecOf(c) == ver[call[c].env][call[c].v].spec

\* What a call does with a snapshot state: toBuild, then the two branches.  Every
\* state but active and failed counts as pending, an inactive snapshot's too:
\* the version is left for the next tick.
Judge(c, state) ==
    CASE state = "active" -> Goto(c, "ready")
      [] state = "failed" -> Goto(c, "failed")
      [] state \in {"building", "inactive"} -> Finish(c)

\* 404 when the environment is gone.  The status of the version is not read.
Load(c) ==
    /\ call[c].pc = "load"
    /\ IF stage[call[c].env] = "active"
       THEN /\ call' = [call EXCEPT ![c].pc = "poll", ![c].key = key]
            /\ UNCHANGED cur
       ELSE Finish(c)
    /\ UNCHANGED <<flags, builds, snap, key, patch, todo, budget, faults>>

\* Daytona answers 401 to a key that has been replaced, if it was revoked too.
Rejected(c) ==
    /\ call[c].pc \in {"poll", "register"}
    /\ call[c].key # key
    /\ Goto(c, "failed")
    /\ UNCHANGED <<flags, builds, snap, key, patch, todo, budget, faults>>

GetBuildStatus(c) ==
    /\ call[c].pc = "poll"
    /\ LET state == snap[RefOf(c)].state
       IN  IF state = "none" THEN Goto(c, "register") ELSE Judge(c, state)
    /\ UNCHANGED <<flags, builds, snap, key, patch, todo, budget, faults>>

\* build: POST /snapshots; a 409 reads what the winner registered, another 4xx
\* fails the version.
Build(c) ==
    /\ call[c].pc = "register"
    /\ \/ /\ snap[RefOf(c)].state = "none"
          /\ \E state \in {"building", "active", "failed"} :
                /\ snap' = [snap EXCEPT ![RefOf(c)] = [state |-> state, spec |-> SpecOf(c)]]
                /\ Judge(c, state)
       \/ /\ snap[RefOf(c)].state = "none"
          /\ Goto(c, "failed")
          /\ UNCHANGED snap
       \/ /\ snap[RefOf(c)].state # "none"
          /\ Goto(c, "poll")
          /\ UNCHANGED snap
    /\ UNCHANGED <<flags, builds, key, patch, todo, budget, faults>>

\* A timeout, a 429 or a 5xx ends the call; the registration may have landed.
TransientError(c) ==
    /\ call[c].pc \in {"poll", "register"}
    /\ faults < MaxFaults
    /\ faults' = faults + 1
    /\ \/ UNCHANGED snap
       \/ /\ call[c].pc = "register"
          /\ snap[RefOf(c)].state = "none"
          /\ snap' = [snap EXCEPT ![RefOf(c)] = [state |-> "building", spec |-> SpecOf(c)]]
    /\ Finish(c)
    /\ UNCHANGED <<flags, builds, key, patch, todo, budget>>

\* The parent's pointer only moves forward, and only while it is active.
MarkVersionReady_RollsBack(c) ==
    LET e == call[c].env
        v == call[c].v
    IN  /\ call[c].pc = "ready"
        /\ ~Locked(e)
        /\ ver' = [ver EXCEPT ![e][v].status = "ready"]
        /\ active' = [active EXCEPT ![e] = IF stage[e] = "active" THEN v ELSE @]
        /\ Finish(c)
        /\ UNCHANGED <<flags, snap, key, patch, todo, budget, faults>>
MarkVersionReady(c) ==
    LET e == call[c].env
        v == call[c].v
    IN  /\ call[c].pc = "ready"
        /\ ~Locked(e)
        /\ ver' = [ver EXCEPT ![e][v].status = "ready"]
        /\ active' = [active EXCEPT ![e] = IF stage[e] = "active" /\ @ <= v THEN v ELSE @]
        /\ Finish(c)
        /\ UNCHANGED <<flags, snap, key, patch, todo, budget, faults>>

MarkVersionFailed(c) ==
    /\ call[c].pc = "failed"
    /\ ver' = [ver EXCEPT ![call[c].env][call[c].v].status = "failed"]
    /\ Finish(c)
    /\ UNCHANGED <<flags, active, snap, key, patch, todo, budget, faults>>

\* Daytona finishes a build.
BuildEnds(r) ==
    /\ snap[r].state = "building"
    /\ \E state \in {"active", "failed"} : snap' = [snap EXCEPT ![r].state = state]
    /\ UNCHANGED <<flags, builds, key, patch, loop, budget, faults>>

\* Daytona deactivates a snapshot that has not been used for a while.
Deactivate(r) ==
    /\ snap[r].state = "active"
    /\ budget.idle > 0
    /\ budget' = [budget EXCEPT !.idle = @ - 1]
    /\ snap' = [snap EXCEPT ![r].state = "inactive"]
    /\ UNCHANGED <<flags, builds, key, patch, loop, faults>>

ReadyVersions(e) == {v \in 1 .. Len(ver[e]) : ver[e][v].status = "ready"}

\* createFreshSandbox of a turn: a sandbox is created from the active version,
\* if that is ready.  An inactive snapshot is activated and the turn fails; no
\* other state is touched.  The turn read its version at its start, so it may
\* have been replaced, or its environment deleted, since.
RejectIfSnapshotInactive(e) ==
    /\ \E v \in ReadyVersions(e) :
        /\ v <= active[e]
        /\ snap[ver[e][v].ref].state = "inactive"
        /\ snap' = [snap EXCEPT ![ver[e][v].ref].state = "building"]
    /\ UNCHANGED <<flags, builds, key, patch, loop, budget, faults>>

-----------------------------------------------------------------------------
ProgressStep(c) ==
    \/ Load(c) \/ Rejected(c) \/ GetBuildStatus(c) \/ Build(c)
    \/ MarkVersionReady(c) \/ MarkVersionFailed(c)

PatchStep(p) ==
    \/ PatchGone(p) \/ SetEnvironmentEnabled(p)
    \/ SetDefaultLock(p) \/ SetDefaultCommit(p) \/ ClearDefault(p)

Next ==
    \/ PutProvider
    \/ \E n \in Names : \/ DeleteEnvironment(n)
                        \/ \E s \in Specs : PutEnvironment(n, s)
                        \/ \E p \in Patches, b \in Bodies : PatchLoad(p, n, b)
    \/ \E p \in Patches : PatchStep(p)
    \/ Tick \/ Send \/ Abandon \/ Restart
    \/ \E c \in Calls : ProgressStep(c) \/ TransientError(c)
    \/ \E r \in Refs : BuildEnds(r) \/ Deactivate(r)
    \/ \E e \in Envs : RejectIfSnapshotInactive(e)

\* The loop ticks every five seconds and waits for each call; the server runs
\* the requests it has accepted; Daytona ends its builds.  Nothing makes a user
\* start the turn that would activate an inactive snapshot.
Fairness ==
    /\ WF_vars(Tick)
    /\ WF_vars(Send)
    /\ \A c \in Calls : WF_vars(ProgressStep(c))
    /\ \A p \in Patches : WF_vars(PatchStep(p))
    /\ \A r \in Refs : WF_vars(BuildEnds(r))

Spec == Init /\ [][Next]_vars /\ Fairness

-----------------------------------------------------------------------------
\* At most one environment is the tenant's default, and it is one a session
\* can be given: neither deleted nor disabled, however requests that disable,
\* delete and promote environments interleave.
DefaultSlot ==
    /\ \A e, f \in Envs : isDefault[e] /\ isDefault[f] => e = f
    /\ \A e \in Envs : isDefault[e] => stage[e] = "active" /\ enabled[e]

\* Calls settle versions out of order, yet no ready version of an active
\* environment is newer than the one its sessions are given; and while no two
\* calls have overlapped, that one is ready as soon as any is.  (A call left
\* behind by a timeout or a restart can still fail a version another call has
\* made ready: markVersionFailed does not look at the status.)
ActiveIsNewestReady ==
    \A e \in Envs : stage[e] = "active" =>
        /\ \A v \in ReadyVersions(e) : v <= active[e]
        /\ faults = 0 /\ ReadyVersions(e) # {} => active[e] \in ReadyVersions(e)

\* A ready version's snapshot exists and was built from that version's own
\* build script and resources, though versions share snapshots and calls race
\* to register them.  (It need not be active: Daytona may have deactivated it.)
SnapshotMatches ==
    \A e \in Envs : \A v \in ReadyVersions(e) :
        LET r == ver[e][v].ref
        IN  snap[r].state # "none" /\ snap[r].spec = ver[e][v].spec

PendingVersions(e) == {v \in 1 .. Len(ver[e]) : ver[e][v].status = "pending"}

Waiting(e) == budget.loop /\ stage[e] = "active" /\ PendingVersions(e) # {}

\* The version the loop sends for e shares a snapshot that was deactivated, or
\* had its own deactivated before a call saw it active.  No call activates it.
Dormant(e) ==
    \E v \in PendingVersions(e) :
        /\ \A w \in PendingVersions(e) : w <= v
        /\ snap[ver[e][v].ref].state = "inactive"

\* Where a controller runs, pending versions do not stay: each is eventually
\* built or failed, an older one once the newer ones are settled, or its
\* environment deleted, whatever timeouts, errors and restarts of the controller
\* came between.  All that can hold an environment back is the inactive snapshot
\* of its newest pending version, which only a turn activates; it holds back no
\* other environment, and once it is active the version is settled too.
PendingSettles ==
    (\E e \in Envs : Waiting(e)) ~> (\A e \in Envs : Waiting(e) => Dormant(e))
=============================================================================
