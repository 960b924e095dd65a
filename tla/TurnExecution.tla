---------------------------- MODULE TurnExecution ----------------------------
(***************************************************************************)
(* One create-turn request from POST to the end of its event drain:        *)
(* SessionHandle.createTurn, TurnHandle.stream, the tracked generator of   *)
(* ActiveTurnRegistry and drainTurnEvents, over the session store.         *)
(*                                                                         *)
(* Request r mints the turn id r, so requests and turns share one set.     *)
(* Every await of the code is a boundary between two actions; other        *)
(* requests, cancels and shutdowns interleave there.  A yield of           *)
(* TurnHandle.stream is a pc of its own: the event is handed over and the  *)
(* generator resumes (or is closed) when the drain has written it.         *)
(***************************************************************************)
EXTENDS SessionStore

CONSTANTS MaxEvents    \* bound on the events one execution produces

ASSUME ExecutionAssumption == MaxEvents \in Nat

VARIABLES pc,        \* where request r is
          mode,      \* "stream" or "json", body.stream
          prevId,    \* the previous turn createTurn resolved
          base,      \* thread ids of the frozen previous snapshot
          abort,     \* reason of the request's AbortSignal
          outcome,   \* how the orchestrator loop was left
          pend,      \* the execution event being persisted or handed over
          want,      \* the terminal state stream() holds
          silent,    \* stream() will not hand over a(nother) turn.done
          resources, \* the turn resource resolver's
          drain,     \* drainTurnEvents: "none", "on" or "off"
          tracked,   \* runs registered in the ActiveTurnRegistry
          out,       \* events dual-written by the drain
          steps      \* events produced by the orchestrator so far

execVars == <<pc, mode, prevId, base, abort, outcome, pend, want, silent,
              resources, drain, tracked, out, steps>>

(* "error" is stream()'s caughtError or a failed root thread, "abandoned"  *)
(* a consumer that left.                                                   *)
Outcomes == {"abandoned", "result", "error"}

(* Execution events by what persistExecutionEvent does with them.          *)
(*   delta         model.message(.delta): handed over, not persisted       *)
(*   event         one row: tool.response, approvals, auth, compaction,    *)
(*                 passthrough                                             *)
(*   capability    snapshot write only                                     *)
(*   overwrite     snapshot write only                                     *)
(*   context       context append, then its output rows; not handed over   *)
(*   checkpoint    mcp.initialize, sandbox.created: patch, then the row    *)
(*   threadCreated addThreads, then the row                                *)
(*   threadDone    removeThreads, then the row                             *)
(*   threadDropped removeThreads of a cancelled child, nothing else        *)
Kinds == {"delta", "event", "capability", "overwrite", "context",
          "checkpoint", "threadCreated", "threadDone", "threadDropped"}
SnapshotOnly == {"capability", "overwrite", "threadDropped"}

EventOf(k) == CASE k = "delta"         -> [type |-> "delta", status |-> "absent"]
                [] k = "threadCreated" -> Event("thread.created")
                [] k = "threadDone"    -> Event("thread.done")
                [] k = "context"       -> Event("output")
                [] OTHER               -> Event("event")

Yields == {"yieldCreated", "yieldEvent", "yieldFrozen", "yieldDone"}
PCs == {"idle", "begun", "resolving", "committing", "failed", "committed",
        "starting", "running", "persisting", "finishing", "writing",
        "closing", "ended", "suspended"} \cup Yields

NoState == [status |-> "absent", reason |-> NoReason]
StoreState(r) == [status |-> status[r], reason |-> reason[r]]

Goto(r, l) == pc' = [pc EXCEPT ![r] = l]

-----------------------------------------------------------------------------
(* resolvePreviousTurnId, over the session record the handle has loaded *)
ResolvePreviousTurnId(requested) ==
  CASE requested = "none" -> NoTurn
    [] requested = "auto" -> lastTurn.id
    [] OTHER              -> requested

(* createAndExecuteTurnHandler and beginTurnExecution: load the session    *)
(* and mint the turn id.  The handle keeps this copy of the record.        *)
Begin(r, m, requested) ==
  /\ pc[r] = "idle"
  /\ alive
  /\ mode' = [mode EXCEPT ![r] = m]
  /\ prevId' = [prevId EXCEPT ![r] = ResolvePreviousTurnId(requested)]
  /\ Goto(r, "begun")
  /\ UNCHANGED <<storeVars, base, abort, outcome, pend, want, silent,
                 resources, drain, tracked, out, steps>>

FreezePrevious_ReadOnly(r) ==
  /\ pc[r] = "begun"
  /\ base' = [base EXCEPT ![r] = IF Present(prevId[r])
                                 THEN snapshot[prevId[r]].threads ELSE {}]
  /\ Goto(r, "resolving")
  /\ UNCHANGED <<storeVars, mode, prevId, abort, outcome, pend, want, silent,
                 resources, drain, tracked, out, steps>>

(* createTurn freezes the previous turn before anything else; an unknown   *)
(* one fails the request (TurnNotFoundError).                              *)
FreezePrevious(r) ==
  /\ pc[r] = "begun"
  /\ \/ /\ prevId[r] = NoTurn
        /\ Goto(r, "resolving")
        /\ UNCHANGED <<storeVars, base>>
     \/ /\ Present(prevId[r])
        /\ FreezeAndGetTurn(prevId[r], "cancelled-for-next-turn")
        /\ base' = [base EXCEPT ![r] = snapshot'[prevId[r]].threads]
        /\ Goto(r, "resolving")
     \/ /\ prevId[r] # NoTurn /\ ~Present(prevId[r])
        /\ Goto(r, "failed")
        /\ UNCHANGED <<storeVars, base>>
  /\ UNCHANGED <<mode, prevId, abort, outcome, pend, want, silent,
                 resources, drain, tracked, out, steps>>

(* Resolve the agent, its sandbox and definitions, build the threads, and  *)
(* drain orchestrator.send: validation, nothing persisted.                 *)
Prepare(r) ==
  /\ pc[r] = "resolving"
  /\ resources' = [resources EXCEPT ![r] = "open"]
  /\ Goto(r, "committing")
  /\ UNCHANGED <<storeVars, mode, prevId, base, abort, outcome, pend, want,
                 silent, drain, tracked, out, steps>>

CreateTurnFails_Leaks(r) ==
  /\ Goto(r, "failed")
  /\ UNCHANGED <<storeVars, mode, prevId, base, abort, outcome, pend, want,
                 silent, resources, drain, tracked, out, steps>>

(* Any failure before the turn is durable closes the resolver. *)
CreateTurnFails(r) ==
  /\ resources' = [resources EXCEPT ![r] = "closed"]
  /\ Goto(r, "failed")
  /\ UNCHANGED <<storeVars, mode, prevId, base, abort, outcome, pend, want,
                 silent, drain, tracked, out, steps>>

PrepareFails(r) == pc[r] = "resolving" /\ CreateTurnFails(r)

(* store.createTurn comes last.  Threads of the frozen snapshot are        *)
(* carried; a first turn registers the main thread.  The send appended to  *)
(* the main thread (a user message) or to a thread awaiting an answer.     *)
NewThreads(r) == IF prevId[r] = NoTurn THEN {MainThread} ELSE {}
AgentThreads(r) == base[r] \cup NewThreads(r)
Accepted(r, th) ==
  CanCreateTurn(r, prevId[r], NewThreads(r), {th}, AgentThreads(r))

Commit(r) ==
  /\ pc[r] = "committing"
  /\ \E th \in AgentThreads(r), claimed \in SUBSET base[r] :
        CreateTurn(r, prevId[r], NewThreads(r), {th}, AgentThreads(r), claimed)
  /\ Goto(r, "committed")
  /\ UNCHANGED <<mode, prevId, base, abort, outcome, pend, want, silent,
                 resources, drain, tracked, out, steps>>

CommitFails(r) ==
  /\ pc[r] = "committing"
  /\ \A th \in AgentThreads(r) : ~Accepted(r, th)
  /\ CreateTurnFails(r)

(* beginTurnExecution after createTurn: arm the timer, register the run    *)
(* and start the drain.  A registry that is shutting down aborts the run.  *)
Track(r, shutdownReason) ==
  /\ pc[r] = "committed"
  /\ tracked' = tracked \cup {r}
  /\ abort' = [abort EXCEPT ![r] = IF @ = NoReason THEN shutdownReason ELSE @]
  /\ drain' = [drain EXCEPT ![r] = "on"]
  /\ Goto(r, "starting")
  /\ UNCHANGED <<storeVars, mode, prevId, base, outcome, pend, want, silent,
                 resources, out, steps>>

-----------------------------------------------------------------------------
(* TurnHandle.stream: leaving the try block, with caughtError or not. *)
Leave(r, how) ==
  /\ outcome' = [outcome EXCEPT ![r] = how]
  /\ Goto(r, "finishing")
  /\ UNCHANGED <<storeVars, mode, prevId, base, abort, pend, want, silent,
                 resources, drain, tracked, out, steps>>

(* Append turn.created, then hand it over.  A turn frozen or deleted       *)
(* before this write makes the append throw.                               *)
AppendTurnCreated(r) ==
  /\ pc[r] = "starting"
  /\ AppendToEvents(r, Event("turn.created"))
  /\ Goto(r, "yieldCreated")
  /\ UNCHANGED <<mode, prevId, base, abort, outcome, pend, want, silent,
                 resources, drain, tracked, out, steps>>

AppendTurnCreatedFails(r) ==
  pc[r] = "starting" /\ ~RequireRunning(r) /\ Leave(r, "error")

(* The snapshot write that comes first in persistExecutionEvent. *)
SnapshotWrite(r, k) ==
  LET snap == snapshot[r] IN
  \/ /\ k = "capability"
     /\ \E th \in snap.threads, c \in BOOLEAN :
           PatchThreadCapabilityState(r, th, c)
  \/ /\ k = "overwrite"
     /\ \E th \in snap.threads : \E ctx \in Compactions(r, th) :
           OverwriteThreadContext(r, th, ctx)
  \/ /\ k = "context"
     /\ \E th \in snap.threads : /\ Len(snap.context[th]) < MaxContext
                                 /\ AppendToThreadContext(r, th)
  \/ k = "checkpoint" /\ PatchCheckpoint(r)
  \/ k = "threadCreated" /\ \E th \in Threads \ snap.threads : AddThread(r, th)
  \/ /\ k \in {"threadDone", "threadDropped"}
     /\ \E th \in snap.threads \ {MainThread} : RemoveThread(r, th)

(* The orchestrator produces an event, and its first write commits. *)
PersistFirst(r, k) ==
  /\ pc[r] = "running"
  /\ steps[r] < MaxEvents
  /\ steps' = [steps EXCEPT ![r] = @ + 1]
  /\ pend' = [pend EXCEPT ![r] = k]
  /\ \/ k = "delta" /\ Goto(r, "yieldEvent") /\ UNCHANGED storeVars
     \/ k = "event" /\ AppendToEvents(r, EventOf(k)) /\ Goto(r, "yieldEvent")
     \/ /\ SnapshotWrite(r, k)
        /\ Goto(r, IF k \in SnapshotOnly THEN "running" ELSE "persisting")
  /\ UNCHANGED <<mode, prevId, base, abort, outcome, want, silent,
                 resources, drain, tracked, out>>

PersistSecond_Swallows(r) ==
  /\ pc[r] = "persisting"
  /\ IF RequireRunning(r) THEN AppendToEvents(r, EventOf(pend[r]))
                          ELSE UNCHANGED storeVars
  /\ Goto(r, IF pend[r] = "context" THEN "running" ELSE "yieldEvent")
  /\ UNCHANGED <<mode, prevId, base, abort, outcome, pend, want, silent,
                 resources, drain, tracked, out, steps>>

(* The second write: the event row.  Context output is not handed over,    *)
(* the model message was streamed before.                                  *)
PersistSecond(r) ==
  /\ pc[r] = "persisting"
  /\ AppendToEvents(r, EventOf(pend[r]))
  /\ Goto(r, IF pend[r] = "context" THEN "running" ELSE "yieldEvent")
  /\ UNCHANGED <<mode, prevId, base, abort, outcome, pend, want, silent,
                 resources, drain, tracked, out, steps>>

Frozen_OwnState(r) ==
  /\ pc[r] \in {"running", "persisting"}
  /\ status[r] \in Terminal
  /\ want' = [want EXCEPT ![r] = [status |-> "done", reason |-> NoReason]]
  /\ silent' = [silent EXCEPT ![r] = TRUE]
  /\ Goto(r, "yieldFrozen")
  /\ UNCHANGED <<storeVars, mode, prevId, base, abort, outcome, pend,
                 resources, drain, tracked, out, steps>>

(* A write met TurnNotRunningError: the store's state is authoritative,    *)
(* it is handed over and the terminal write is skipped.                    *)
Frozen(r) ==
  /\ pc[r] \in {"running", "persisting"}
  /\ status[r] \in Terminal
  /\ want' = [want EXCEPT ![r] = StoreState(r)]
  /\ silent' = [silent EXCEPT ![r] = TRUE]
  /\ Goto(r, "yieldFrozen")
  /\ UNCHANGED <<storeVars, mode, prevId, base, abort, outcome, pend,
                 resources, drain, tracked, out, steps>>

(* Any other store error leaves the loop as caughtError. *)
PersistFails(r) ==
  pc[r] \in {"running", "persisting"} /\ ~Present(r) /\ Leave(r, "error")

(* The first write of an event the orchestrator produces fails. *)
Interrupted(r) == pc[r] = "running" /\ (Frozen(r) \/ PersistFails(r))

(* The orchestrator returns, or throws.  An aborted signal stops it. *)
Finish(r) ==
  /\ pc[r] = "running"
  /\ \E how \in {"result", "error"} : Leave(r, how)

-----------------------------------------------------------------------------

(* The finally block.  The terminal state is computed from the signal and  *)
(* from how the loop was left, and written in a later step.                *)
TerminalState(r) ==
  IF abort[r] # NoReason THEN [status |-> "cancelled", reason |-> abort[r]]
  ELSE IF outcome[r] = "error" THEN [status |-> "error", reason |-> NoReason]
  ELSE IF outcome[r] = "abandoned"
       THEN [status |-> "cancelled", reason |-> "client-cancelled"]
  ELSE [status |-> "done", reason |-> NoReason]

ComputeTerminal(r) ==
  /\ pc[r] = "finishing"
  /\ want' = [want EXCEPT ![r] = TerminalState(r)]
  /\ Goto(r, "writing")
  /\ UNCHANGED <<storeVars, mode, prevId, base, abort, outcome, pend, silent,
                 resources, drain, tracked, out, steps>>

WriteTerminal_KeepsOwn(r) ==
  /\ pc[r] = "writing"
  /\ IF NonTerminal(r)
     THEN UpdateTurnTerminalState(r, want[r].status, want[r].reason)
     ELSE UNCHANGED storeVars
  /\ Goto(r, "closing")
  /\ UNCHANGED <<mode, prevId, base, abort, outcome, pend, want, silent,
                 resources, drain, tracked, out, steps>>

(* updateTurnTerminalState; when the turn was frozen meanwhile the store's *)
(* state is adopted; when the row is gone the stream rejects.              *)
WriteTerminal(r) ==
  /\ pc[r] = "writing"
  /\ \/ /\ UpdateTurnTerminalState(r, want[r].status, want[r].reason)
        /\ UNCHANGED <<want, silent>>
     \/ /\ status[r] \in Terminal
        /\ want' = [want EXCEPT ![r] = StoreState(r)]
        /\ UNCHANGED <<storeVars, silent>>
     \/ /\ ~Present(r)
        /\ silent' = [silent EXCEPT ![r] = TRUE]
        /\ UNCHANGED <<storeVars, want>>
  /\ Goto(r, "closing")
  /\ UNCHANGED <<mode, prevId, base, abort, outcome, pend, resources, drain,
                 tracked, out, steps>>

End_KeepsRun(r) ==
  /\ drain' = [drain EXCEPT ![r] = "off"]
  /\ Goto(r, "ended")
  /\ UNCHANGED tracked

(* The generator ends: the tracked wrapper deregisters the run and the     *)
(* drain loop is over.                                                     *)
End(r) ==
  /\ tracked' = tracked \ {r}
  /\ drain' = [drain EXCEPT ![r] = "off"]
  /\ Goto(r, "ended")

(* resolver.close(), then the yield of turn.done.  With no consumer left   *)
(* that yield is never resumed.                                            *)
Close(r) ==
  /\ pc[r] = "closing"
  /\ resources' = [resources EXCEPT ![r] = "closed"]
  /\ \/ silent[r] /\ End(r)
     \/ /\ ~silent[r]
        /\ Goto(r, IF drain[r] = "on" THEN "yieldDone" ELSE "suspended")
        /\ UNCHANGED <<tracked, drain>>
  /\ UNCHANGED <<storeVars, mode, prevId, base, abort, outcome, pend, want,
                 silent, out, steps>>

-----------------------------------------------------------------------------
(* drainTurnEvents: dual-write the handed event, forward it, resume. *)
Handed(r) ==
  CASE pc[r] = "yieldCreated" -> Event("turn.created")
    [] pc[r] = "yieldEvent"   -> EventOf(pend[r])
    [] OTHER                  -> TurnDone(want[r].status)

Drain(r) ==
  /\ pc[r] \in Yields
  /\ drain[r] = "on"
  /\ out' = [out EXCEPT ![r] = Append(@, Handed(r))]
  /\ \/ /\ pc[r] \in {"yieldCreated", "yieldEvent"}
        /\ Goto(r, "running") /\ UNCHANGED <<tracked, drain>>
     \/ /\ pc[r] = "yieldFrozen"
        /\ Goto(r, "closing") /\ UNCHANGED <<tracked, drain>>
     \/ pc[r] = "yieldDone" /\ End(r)
  /\ UNCHANGED <<storeVars, mode, prevId, base, abort, outcome, pend, want,
                 silent, resources, steps>>

(* The dual write throws: the drain leaves its loop and closes the         *)
(* generator.  From the try block this runs the finally block; from the    *)
(* final yield it ends the generator.                                      *)
DrainFails(r) ==
  /\ pc[r] \in Yields
  /\ drain[r] = "on"
  /\ \/ /\ pc[r] \in {"yieldCreated", "yieldEvent"}
        /\ Goto(r, "finishing")
        /\ drain' = [drain EXCEPT ![r] = "off"] /\ UNCHANGED tracked
     \/ /\ pc[r] = "yieldFrozen"
        /\ Goto(r, "closing")
        /\ drain' = [drain EXCEPT ![r] = "off"] /\ UNCHANGED tracked
     \/ pc[r] = "yieldDone" /\ End(r)
  /\ UNCHANGED <<storeVars, mode, prevId, base, abort, outcome, pend, want,
                 silent, resources, out, steps>>

(* A store call that fails for a reason of its own (a lost connection).    *)
(* createTurn re-reads the session after its commit: when that read fails  *)
(* the request fails, and the turn is durable with nobody to run it.       *)
StoreFails(r) ==
  \/ pc[r] \in {"committing", "committed"} /\ CreateTurnFails(r)
  \/ pc[r] \in {"starting", "running", "persisting"} /\ Leave(r, "error")
  \/ /\ pc[r] = "writing"
     /\ silent' = [silent EXCEPT ![r] = TRUE]
     /\ Goto(r, "closing")
     /\ UNCHANGED <<storeVars, mode, prevId, base, abort, outcome, pend, want,
                    resources, drain, tracked, out, steps>>

-----------------------------------------------------------------------------
ExecInit ==
  /\ pc = [r \in Turns |-> "idle"]
  /\ mode = [r \in Turns |-> "stream"]
  /\ prevId = [r \in Turns |-> NoTurn]
  /\ base = [r \in Turns |-> {}]
  /\ abort = [r \in Turns |-> NoReason]
  /\ outcome = [r \in Turns |-> "abandoned"]
  /\ pend = [r \in Turns |-> "delta"]
  /\ want = [r \in Turns |-> NoState]
  /\ silent = [r \in Turns |-> FALSE]
  /\ resources = [r \in Turns |-> "none"]
  /\ drain = [r \in Turns |-> "none"]
  /\ tracked = {}
  /\ out = [r \in Turns |-> <<>>]
  /\ steps = [r \in Turns |-> 0]

(* The steps a request takes by itself once it has begun: every await of   *)
(* them completes.  What the orchestrator does is not among them.          *)
Progress(r) ==
  \/ FreezePrevious(r) \/ Prepare(r) \/ Commit(r) \/ CommitFails(r)
  \/ AppendTurnCreated(r) \/ AppendTurnCreatedFails(r)
  \/ PersistSecond(r)
  \/ pc[r] = "persisting" /\ (Frozen(r) \/ PersistFails(r))
  \/ ComputeTerminal(r) \/ WriteTerminal(r) \/ Close(r) \/ Drain(r)

(* Type of the request state; a part of TurnServer's type invariant. *)
ExecTypeOK ==
  /\ pc \in [Turns -> PCs]
  /\ mode \in [Turns -> {"stream", "json"}]
  /\ prevId \in [Turns -> Turns \cup {NoTurn}]
  /\ base \in [Turns -> SUBSET Threads]
  /\ abort \in [Turns -> Reasons \cup {NoReason}]
  /\ outcome \in [Turns -> Outcomes]
  /\ pend \in [Turns -> Kinds]
  /\ want \in [Turns -> [status : Status, reason : Reasons \cup {NoReason}]]
  /\ silent \in [Turns -> BOOLEAN]
  /\ resources \in [Turns -> {"none", "open", "closed"}]
  /\ drain \in [Turns -> {"none", "on", "off"}]
  /\ tracked \subseteq Turns
  /\ out \in [Turns -> Seq([type : EventTypes \cup {"delta"}, status : Status])]
  /\ steps \in [Turns -> Nat]

-----------------------------------------------------------------------------
(* The turn.done a client sees is the state the store holds, also when the *)
(* turn was frozen by another process while its own terminal write was     *)
(* under way (TurnHandle.stream adopts the store's state); and it is the   *)
(* last event of the stream.                                               *)
StreamTellsTheTruth ==
  \A r \in Turns : \A i \in 1..Len(out[r]) :
    out[r][i].type = "turn.done" =>
      i = Len(out[r]) /\ (alive => status[r] = out[r][i].status)

(* Persist before yield: what a client was sent, apart from deltas and the *)
(* closing turn.done, is in the event log, in the same order: the n-th     *)
(* such event of the stream is the n-th such row.                          *)
Shown(e) == e.type \notin {"delta", "turn.done", "output", "turn.update"}
ShownUpTo(s, n) == {i \in 1..n : Shown(s[i])}
PersistBeforeYield ==
  \A r \in Turns : alive =>
    \A i \in 1..Len(out[r]) : Shown(out[r][i]) =>
      \E j \in 1..Len(log[r]) :
        /\ log[r][j] = out[r][i]
        /\ Cardinality(ShownUpTo(log[r], j)) = Cardinality(ShownUpTo(out[r], i))

(* The state createTurn reads when it freezes the previous turn is still   *)
(* the stored one when it commits: after all the awaits in between the     *)
(* store rejects the commit only because the session is gone.              *)
CommitNeverRejected ==
  \A r \in Turns : pc[r] = "committing" /\ alive =>
    AgentThreads(r) # {} /\ \A th \in AgentThreads(r) : Accepted(r, th)

(* The resolver of a request is closed on every way out, and not before    *)
(* the turn's terminal state is durable (unless that write failed).        *)
ResourcesReleased ==
  \A r \in Turns :
    /\ pc[r] \in {"failed", "ended", "suspended", "yieldDone"} =>
         resources[r] # "open"
    /\ resources[r] = "closed" =>
         pc[r] \in {"failed", "ended", "suspended", "yieldDone"}

-----------------------------------------------------------------------------
(* Two statements of the code's comments that the model refutes; no run     *)
(* lists them, the README gives their counterexamples.                      *)

(* ISessionStore.appendToEvents: the log MUST include a turn.created at    *)
(* the start and a terminal turn.done at the end.                          *)
LifecycleRows ==
  \A r \in Turns : status[r] \in Terminal =>
    /\ log[r][1].type = "turn.created"
    /\ log[r][Len(log[r])].type = "turn.done"

(* ActiveTurnRegistry.track: the run is removed when the stream completes  *)
(* (or the consumer exits early).                                          *)
RunRemovedAfterDrain == \A r \in Turns : drain[r] = "off" => r \notin tracked
=============================================================================
