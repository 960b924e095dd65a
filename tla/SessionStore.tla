---------------------------- MODULE SessionStore ----------------------------
(***************************************************************************)
(* The turn half of ISessionStore, for one session: the turn rows, their   *)
(* snapshots and event logs, and the two session fields that follow them   *)
(* (last_turn_details and metrics).  Every operation is atomic: the body   *)
(* is synchronous in InMemorySessionStore and one transaction in the       *)
(* SQLite and Postgres stores.                                             *)
(*                                                                         *)
(* An operator here is the SUCCESSFUL outcome of the operation; its guard  *)
(* is the negation of the errors the operation throws.  Callers that react *)
(* to an error test Present, NonTerminal or status themselves.             *)
(*                                                                         *)
(* Context messages are abstracted to the turn that wrote them, so that    *)
(* what a turn inherits can be told from what leaks between branches.      *)
(***************************************************************************)
EXTENDS Integers, Sequences, FiniteSets

CONSTANTS Turns,         \* turn ids; each is minted once
          Threads,       \* thread ids
          MainThread,    \* MAIN_THREAD_ID
          NoTurn,        \* null turn id
          MaxContext,    \* bound on the context a client writes to one thread
          MaxLog,        \* bound on the events a client appends to one turn
          ClientReasons, \* cancellation reasons the clients give
          ClientEvents   \* event types the clients append

ASSUME StoreAssumption ==
  /\ NoTurn \notin Turns
  /\ MainThread \in Threads
  /\ MaxContext \in Nat
  /\ MaxLog \in Nat
  /\ ClientReasons \subseteq {"server-execution-timeout", "client-cancelled",
                              "cancelled-for-next-turn", "abandoned"}
  /\ ClientEvents \subseteq {"turn.created", "thread.created",
                             "thread.done", "output", "event"}

VARIABLES alive,      \* the session row exists
          status,     \* turn.state.status, "absent" when there is no row
          reason,     \* turn.state.reason of a cancelled turn
          previous,   \* turn.previous_turn_id
          snapshot,   \* turn.snapshot
          log,        \* the turn's rows of session_event, in commit order
          lastTurn,   \* session.last_turn_details
          totalTurns, \* session.metrics.total_turns
          folds       \* how often a turn's duration and cost were folded

storeVars == <<alive, status, reason, previous, snapshot, log,
               lastTurn, totalTurns, folds>>

(* CancellationReason *)
Reasons == {"server-execution-timeout", "client-cancelled",
            "cancelled-for-next-turn", "abandoned"}
NoReason == "none"

Terminal == {"done", "cancelled", "error"}
NonTerminalStatus == {"running", "paused"}
Status == Terminal \cup NonTerminalStatus \cup {"absent"}

(* Persisted events.  Only the kinds the properties tell apart are named;  *)
(* "event" is any other row.                                               *)
EventTypes == {"turn.created", "turn.update", "turn.done",
               "thread.created", "thread.done", "output", "event"}
Event(type) == [type |-> type, status |-> "absent"]
TurnDone(s) == [type |-> "turn.done", status |-> s]

Events == [type : EventTypes, status : Status]

Snapshots == [threads    : SUBSET Threads,
              context    : [Threads -> Seq(Turns)],
              capability : [Threads -> Turns \cup {NoTurn}],
              checkpoint : Turns \cup {NoTurn}]

EmptySnapshot ==
  [threads    |-> {},
   context    |-> [th \in Threads |-> <<>>],
   capability |-> [th \in Threads |-> NoTurn],
   checkpoint |-> NoTurn]

-----------------------------------------------------------------------------
Present(t) == t # NoTurn /\ status[t] # "absent"

(* isNonTerminalTurnState *)
NonTerminal(t) == t # NoTurn /\ status[t] \in NonTerminalStatus

RequireRunning_Missing(t) == Present(t)

(* requireRunningTurn, and the turn_running fence of the SQL stores *)
RequireRunning(t) == status[t] = "running"

(* applyTurnStateToSession: a terminal state is folded into the metrics;   *)
(* last_turn_details moves only for the session's last turn.               *)
ApplyTurnStateToSession(t, s) ==
  /\ folds' = [folds EXCEPT ![t] = IF s \in Terminal THEN @ + 1 ELSE @]
  /\ lastTurn' = IF lastTurn.id = t
                 THEN [id |-> t, status |-> s] ELSE lastTurn

(* Every turn-state write changes the row, appends the caller's lifecycle  *)
(* event and updates the session in one atomic unit.                       *)
WriteTurnState(t, s, r, e) ==
  /\ status' = [status EXCEPT ![t] = s]
  /\ reason' = [reason EXCEPT ![t] = r]
  /\ log' = [log EXCEPT ![t] = Append(@, e)]
  /\ ApplyTurnStateToSession(t, s)
  /\ UNCHANGED <<alive, previous, snapshot, totalTurns>>

-----------------------------------------------------------------------------
SnapshotFromDelta_FromTip(t, prev, newThreads, appends, claimed) ==
  LET base == IF Present(lastTurn.id) THEN snapshot[lastTurn.id]
                                      ELSE EmptySnapshot
  IN  [base EXCEPT
         !.threads = @ \cup newThreads,
         !.context = [th \in Threads |->
            base.context[th] \o (IF th \in appends THEN <<t>> ELSE <<>>)]]

(* buildSnapshotFromDelta: copy the previous snapshot, register the new    *)
(* threads, append the contexts the send produced and store the capability *)
(* states the caller passes: the previous turn's, or null for the threads  *)
(* whose agent no longer claims the key (claimCapabilityState).            *)
SnapshotFromDelta(t, prev, newThreads, appends, claimed) ==
  LET base == IF Present(prev) THEN snapshot[prev] ELSE EmptySnapshot
  IN  [base EXCEPT
         !.threads = @ \cup newThreads,
         !.context = [th \in Threads |->
            (IF th \in newThreads THEN <<>> ELSE base.context[th])
              \o (IF th \in appends THEN <<t>> ELSE <<>>)],
         !.capability = [th \in Threads |->
            IF th \in claimed THEN base.capability[th] ELSE NoTurn]]

(* Thread ids of the snapshot a turn continues *)
Known(prev) == IF Present(prev) THEN snapshot[prev].threads ELSE {}

(* The checks of createTurn and of assertCreateTurnThreadDelta: covered    *)
(* are the threads the caller passes a capability state for.  Unknown      *)
(* previous turns are allowed and inherit nothing; a previous turn that is *)
(* still live is rejected.                                                 *)
CanCreateTurn(t, prev, newThreads, appends, covered) ==
  /\ alive
  /\ ~NonTerminal(prev)
  /\ ~Present(t)
  /\ newThreads \cap Known(prev) = {}
  /\ appends \subseteq Known(prev) \cup newThreads
  /\ covered = Known(prev) \cup newThreads

(* createTurn *)
CreateTurn(t, prev, newThreads, appends, covered, claimed) ==
  /\ CanCreateTurn(t, prev, newThreads, appends, covered)
  /\ status' = [status EXCEPT ![t] = "running"]
  /\ reason' = [reason EXCEPT ![t] = NoReason]
  /\ previous' = [previous EXCEPT ![t] = prev]
  /\ snapshot' = [snapshot EXCEPT ![t] =
                    SnapshotFromDelta(t, prev, newThreads, appends, claimed)]
  /\ log' = [log EXCEPT ![t] = <<>>]
  /\ lastTurn' = [id |-> t, status |-> "running"]
  /\ totalTurns' = totalTurns + 1
  /\ UNCHANGED <<alive, folds>>

(* freezeAndGetTurn: cancels a live turn, and is a read of a terminal one. *)
FreezeAndGetTurn(t, r) ==
  /\ Present(t)
  /\ \/ /\ NonTerminal(t)
        /\ WriteTurnState(t, "cancelled", r, TurnDone("cancelled"))
     \/ /\ ~NonTerminal(t)
        /\ UNCHANGED storeVars

(* updateTurnTerminalState: the first terminal write wins. *)
UpdateTurnTerminalState(t, s, r) ==
  /\ NonTerminal(t)
  /\ WriteTurnState(t, s, r, TurnDone(s))

(* updateTurnNonTerminalState: running <-> paused. *)
UpdateTurnNonTerminalState(t, s) ==
  /\ status[t] = (IF s = "paused" THEN "running" ELSE "paused")
  /\ WriteTurnState(t, s, NoReason, Event("turn.update"))

(* appendToEvents *)
AppendToEvents(t, e) ==
  /\ RequireRunning(t)
  /\ log' = [log EXCEPT ![t] = Append(@, e)]
  /\ UNCHANGED <<alive, status, reason, previous, snapshot,
                 lastTurn, totalTurns, folds>>

-----------------------------------------------------------------------------
(* The snapshot writes.  All of them are fenced on a running turn.         *)
WriteSnapshot(t, snap) ==
  /\ RequireRunning(t)
  /\ snapshot' = [snapshot EXCEPT ![t] = snap]
  /\ UNCHANGED <<alive, status, reason, previous, log,
                 lastTurn, totalTurns, folds>>

(* addThreads: the row replaces an existing one, with an empty context. *)
AddThread(t, th) ==
  WriteSnapshot(t, [snapshot[t] EXCEPT !.threads = @ \cup {th},
                                       !.context[th] = <<>>,
                                       !.capability[th] = NoTurn])

(* removeThreads *)
RemoveThread(t, th) ==
  WriteSnapshot(t, [snapshot[t] EXCEPT !.threads = @ \ {th},
                                       !.context[th] = <<>>,
                                       !.capability[th] = NoTurn])

(* appendToThreadContext *)
AppendToThreadContext(t, th) ==
  /\ th \in snapshot[t].threads
  /\ WriteSnapshot(t, [snapshot[t] EXCEPT !.context[th] = Append(@, t)])

(* overwriteThreadContext *)
OverwriteThreadContext(t, th, ctx) ==
  /\ th \in snapshot[t].threads
  /\ WriteSnapshot(t, [snapshot[t] EXCEPT !.context[th] = ctx])

(* patchMCPServers and patchSandboxInfo *)
PatchCheckpoint(t) ==
  WriteSnapshot(t, [snapshot[t] EXCEPT !.checkpoint = t])

(* patchThreadCapabilityState: a null state clears the key. *)
PatchThreadCapabilityState(t, th, clear) ==
  /\ th \in snapshot[t].threads
  /\ WriteSnapshot(t, [snapshot[t] EXCEPT
                         !.capability[th] = IF clear THEN NoTurn ELSE t])

(* deleteSession removes the session, its turns and their events. *)
DeleteSession ==
  /\ alive
  /\ alive' = FALSE
  /\ status' = [t \in Turns |-> "absent"]
  /\ reason' = [t \in Turns |-> NoReason]
  /\ previous' = [t \in Turns |-> NoTurn]
  /\ snapshot' = [t \in Turns |-> EmptySnapshot]
  /\ log' = [t \in Turns |-> <<>>]
  /\ lastTurn' = [id |-> NoTurn, status |-> "absent"]
  /\ totalTurns' = 0
  /\ folds' = [t \in Turns |-> 0]

-----------------------------------------------------------------------------
(* createSession: no turns yet. *)
StoreInit ==
  /\ alive = TRUE
  /\ status = [t \in Turns |-> "absent"]
  /\ reason = [t \in Turns |-> NoReason]
  /\ previous = [t \in Turns |-> NoTurn]
  /\ snapshot = [t \in Turns |-> EmptySnapshot]
  /\ log = [t \in Turns |-> <<>>]
  /\ lastTurn = [id |-> NoTurn, status |-> "absent"]
  /\ totalTurns = 0
  /\ folds = [t \in Turns |-> 0]

(* A compaction of the turn's own thread: a summary the turn writes,       *)
(* followed by the tail of the context it kept.                            *)
Compactions(t, th) ==
  LET ctx == snapshot[t].context[th]
  IN  {<<t>> \o SubSeq(ctx, k, Len(ctx)) : k \in 2..(Len(ctx) + 1)}

(* Any client of the store, in any order: a client names the previous turn *)
(* by the id of an existing one.                                           *)
StoreNext ==
  \/ \E t \in Turns, prev \in Turns \cup {NoTurn} :
        /\ prev = NoTurn \/ Present(prev)
        /\ \E claimed \in SUBSET Known(prev),
              new \in SUBSET (Threads \ Known(prev)) :
           \E app \in SUBSET (Known(prev) \cup new) :
             CreateTurn(t, prev, new, app, Known(prev) \cup new, claimed)
  \/ \E t \in Turns, r \in ClientReasons : FreezeAndGetTurn(t, r)
  \/ \E t \in Turns, s \in {"done", "error"} :
        UpdateTurnTerminalState(t, s, NoReason)
  \/ \E t \in Turns, r \in ClientReasons :
        UpdateTurnTerminalState(t, "cancelled", r)
  \/ \E t \in Turns, s \in NonTerminalStatus :
        Len(log[t]) < MaxLog /\ UpdateTurnNonTerminalState(t, s)
  \/ \E t \in Turns, e \in ClientEvents :
        Len(log[t]) < MaxLog /\ AppendToEvents(t, Event(e))
  \/ \E t \in Turns, th \in Threads : AddThread(t, th)
  \/ \E t \in Turns, th \in Threads : RemoveThread(t, th)
  \/ \E t \in Turns, th \in Threads :
        /\ Len(snapshot[t].context[th]) < MaxContext
        /\ AppendToThreadContext(t, th)
  \/ \E t \in Turns, th \in Threads : \E ctx \in Compactions(t, th) :
        OverwriteThreadContext(t, th, ctx)
  \/ \E t \in Turns : PatchCheckpoint(t)
  \/ \E t \in Turns, th \in Threads, clear \in BOOLEAN :
        PatchThreadCapabilityState(t, th, clear)
  \/ DeleteSession

StoreSpec == StoreInit /\ [][StoreNext]_storeVars

-----------------------------------------------------------------------------
(* Type invariant of the store's state. *)
StoreTypeOK ==
  /\ alive \in BOOLEAN
  /\ status \in [Turns -> Status]
  /\ reason \in [Turns -> Reasons \cup {NoReason}]
  /\ previous \in [Turns -> Turns \cup {NoTurn}]
  /\ snapshot \in [Turns -> Snapshots]
  /\ log \in [Turns -> Seq(Events)]
  /\ lastTurn \in [id : Turns \cup {NoTurn}, status : Status]
  /\ totalTurns \in Nat
  /\ folds \in [Turns -> Nat]

(* A turn's event log carries turn.done exactly when the turn is terminal: *)
(* once, as the last row, with the status of the turn row.  Nothing is     *)
(* appended behind it, whoever froze the turn and whatever the executor    *)
(* that lost the race still had to write (ISessionStore.appendToEvents).   *)
LogSealed ==
  \A t \in Turns :
    /\ status[t] \in Terminal =>
         log[t] # <<>> /\ log[t][Len(log[t])] = TurnDone(status[t])
    /\ \A i \in 1..Len(log[t]) :
         log[t][i].type = "turn.done" =>
           i = Len(log[t]) /\ status[t] \in Terminal

(* A turn's duration and cost enter session.metrics once, when it becomes  *)
(* terminal, however many freezes and terminal writes compete for it.      *)
FoldedOnce ==
  \A t \in Turns : folds[t] = IF status[t] \in Terminal THEN 1 ELSE 0

(* session.last_turn_details mirrors the state of the turn it names, also  *)
(* when turns of other branches change state after the tip moved.          *)
TipAgrees ==
  /\ lastTurn.id = NoTurn => \A t \in Turns : status[t] = "absent"
  /\ lastTurn.id # NoTurn => lastTurn.status = status[lastTurn.id]

TurnRows == {t \in Turns : Present(t)}

(* session.metrics.total_turns counts the turn rows of the session. *)
TurnsCounted == totalTurns = Cardinality(TurnRows)

(* A turn never continues a live one: the turn it was forked from is       *)
(* terminal, so the snapshot it was copied from can no longer move.        *)
ParentSealed ==
  \A t \in Turns : previous[t] # NoTurn => status[previous[t]] \in Terminal

(* What a turn's snapshot holds was written by the turn itself or was      *)
(* inherited along previous_turn_id: sibling branches do not leak into     *)
(* each other's contexts, capability states, MCP servers or sandbox.       *)
Origins(t, th) ==
  {snapshot[t].context[th][i] : i \in 1..Len(snapshot[t].context[th])}
Inherits(t, own, inherited) ==
  own \subseteq {t} \cup (IF previous[t] = NoTurn THEN {} ELSE inherited)
BranchIsolation ==
  \A t \in Turns :
    LET p == previous[t] IN
    /\ \A th \in Threads :
         /\ Inherits(t, Origins(t, th), Origins(p, th))
         /\ Inherits(t, {snapshot[t].capability[th]} \ {NoTurn},
                        {snapshot[p].capability[th]})
    /\ Inherits(t, {snapshot[t].checkpoint} \ {NoTurn},
                   {snapshot[p].checkpoint})

(* First terminal write wins: nothing of a terminal turn changes again, as *)
(* long as the session exists.                                             *)
TerminalIsFinal ==
  [][\A t \in Turns : status[t] \in Terminal /\ alive' =>
       UNCHANGED <<status[t], reason[t], previous[t], snapshot[t],
                   log[t], folds[t]>>]_storeVars
=============================================================================
