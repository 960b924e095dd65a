------------------------------ MODULE TurnServer ------------------------------
(***************************************************************************)
(* The turn side of the HTTP server: several replicas (executors) running  *)
(* turns of one session over a shared store, with the execution timer, the *)
(* cancel endpoint and its peer request over Redis, session deletion,      *)
(* graceful shutdown, and processes that die.                              *)
(***************************************************************************)
EXTENDS TurnExecution

CONSTANTS Executors,      \* server processes
          Cancels,        \* POST /sessions/{id}/cancel requests
          Modes,          \* subset of {"stream", "json"}
          Requested,      \* previous_turn_id of a request: "auto", "none", an id
          EventKinds,     \* the execution events that occur
          HasRedis,       \* a peer request channel is configured
          MayDelete,      \* clients delete the session
          MayDisconnect,  \* clients drop their connection
          MayShutDown,    \* replicas receive SIGTERM
          MayTimeOut,     \* runs may reach the execution timeout
          MaxFaults       \* bound on failed writes and killed processes

ASSUME ServerAssumption ==
  /\ Modes \subseteq {"stream", "json"}
  /\ Requested \subseteq {"auto", "none"} \cup Turns
  /\ EventKinds \subseteq Kinds
  /\ {HasRedis, MayDelete, MayDisconnect, MayShutDown,
      MayTimeOut} \subseteq BOOLEAN
  /\ MaxFaults \in Nat

VARIABLES home,     \* active_executor_id of the request's turn
          phase,    \* of each executor's shutdown
          gone,     \* the client of request r has disconnected
          cpc,      \* where cancel c is
          target,   \* the turn cancel c is about
          asker,    \* the executor serving cancel c
          peer,     \* the peer request of cancel c: "none", "sent", "200", "412"
          faults    \* faults injected so far

serverVars == <<home, phase, gone, cpc, target, asker, peer, faults>>
vars == <<storeVars, execVars, serverVars>>

(* "exited" is process.exit(0) at the end of a drain, "killed" is anything *)
(* else: the drain deadline, a crash.                                      *)
Phases == {"up", "draining", "closing", "exited", "killed"}
Live(e) == phase[e] \notin {"exited", "killed"}
Runs(e) == {r \in tracked : home[r] = e}

(* AbortController.abort: the first reason stays *)
AbortAll(rs, why) ==
  abort' = [r \in Turns |-> IF r \in rs /\ abort[r] = NoReason
                            THEN why ELSE abort[r]]

AbortOnly(rs, why) ==
  /\ AbortAll(rs, why)
  /\ UNCHANGED <<storeVars, pc, mode, prevId, base, outcome, pend, want,
                 silent, resources, drain, tracked, out, steps>>

-----------------------------------------------------------------------------
(* Requests *)
StartRequest(r, e) ==
  /\ phase[e] = "up"
  /\ \E m \in Modes, p \in Requested \ {r} : Begin(r, m, p)
  /\ home' = [home EXCEPT ![r] = e]
  /\ UNCHANGED <<phase, gone, cpc, target, asker, peer, faults>>

(* activeTurns.track with alreadyShutDownAbortReason *)
TrackRun(r) ==
  /\ Live(home[r])
  /\ Track(r, IF phase[home[r]] = "up" THEN NoReason ELSE "abandoned")
  /\ UNCHANGED serverVars

RequestStep(r) == Live(home[r]) /\ Progress(r) /\ UNCHANGED serverVars

RequestFails(r) ==
  Live(home[r]) /\ PrepareFails(r) /\ UNCHANGED serverVars

ProduceEvent(r) ==
  /\ Live(home[r])
  /\ (\E k \in EventKinds : PersistFirst(r, k)) \/ Interrupted(r)
  /\ UNCHANGED serverVars

FinishRun(r) == Live(home[r]) /\ Finish(r) /\ UNCHANGED serverVars

Timeout_ClearedEarly(r) ==
  /\ MayTimeOut
  /\ Live(home[r])
  /\ drain[r] = "on" /\ abort[r] = NoReason /\ out[r] = <<>>
  /\ AbortOnly({r}, "server-execution-timeout")
  /\ UNCHANGED serverVars

(* SERVER_EXECUTION_TIMEOUT_SECONDS; the drain's end clears the timer. *)
Timeout(r) ==
  /\ MayTimeOut
  /\ Live(home[r])
  /\ drain[r] = "on" /\ abort[r] = NoReason
  /\ AbortOnly({r}, "server-execution-timeout")
  /\ UNCHANGED serverVars

(* A client drops its connection: the drain goes on without it, so only    *)
(* the shutdown, which waits for open responses, can tell.                 *)
Disconnect(r) ==
  /\ MayDisconnect
  /\ pc[r] # "idle" /\ ~gone[r]
  /\ gone' = [gone EXCEPT ![r] = TRUE]
  /\ UNCHANGED <<storeVars, execVars, home, phase, cpc, target, asker, peer,
                 faults>>

(* deleteSessionHandler does not stop what is running *)
DeleteHandler == MayDelete /\ DeleteSession /\ UNCHANGED <<execVars, serverVars>>

-----------------------------------------------------------------------------
(* cancelSessionHandler loads the session record and takes its last turn. *)
CancelLoad(c, e) ==
  /\ cpc[c] = "idle"
  /\ phase[e] = "up"
  /\ alive /\ lastTurn.id # NoTurn
  /\ target' = [target EXCEPT ![c] = lastTurn.id]
  /\ asker' = [asker EXCEPT ![c] = e]
  /\ cpc' = [cpc EXCEPT ![c] = "loaded"]
  /\ UNCHANGED <<storeVars, execVars, home, phase, gone, peer, faults>>

(* cancelSessionTurn: getTurn, then abort the run where it is.  The local  *)
(* lookup follows the read without an await.                               *)
CancelCheck(c) ==
  LET t == target[c]
      remote == home[t] # asker[c] /\ HasRedis
  IN
  /\ cpc[c] = "loaded" /\ Live(asker[c])
  /\ \/ /\ status[t] # "running"
        /\ cpc' = [cpc EXCEPT ![c] = "done"]
        /\ UNCHANGED <<execVars, peer>>
     \/ /\ status[t] = "running" /\ remote
        /\ cpc' = [cpc EXCEPT ![c] = "asked"]
        /\ peer' = [peer EXCEPT ![c] = "sent"]
        /\ UNCHANGED execVars
     \/ /\ status[t] = "running" /\ ~remote
        /\ t \in Runs(asker[c])
        /\ AbortOnly({t}, "client-cancelled")
        /\ cpc' = [cpc EXCEPT ![c] = "done"]
        /\ UNCHANGED peer
     \/ /\ status[t] = "running" /\ ~remote
        /\ t \notin Runs(asker[c])
        /\ cpc' = [cpc EXCEPT ![c] = "freezing"]
        /\ UNCHANGED <<execVars, peer>>
  /\ UNCHANGED <<storeVars, home, phase, gone, target, asker, faults>>

(* cancelSessionTurnPeerHandler on the owner, possibly after the asker     *)
(* gave up: 200 when the run is registered here, 412 when it is not.       *)
PeerHandle(c) ==
  /\ peer[c] = "sent"
  /\ Live(home[target[c]])
  /\ \/ /\ target[c] \in tracked
        /\ AbortOnly({target[c]}, "client-cancelled")
        /\ peer' = [peer EXCEPT ![c] = "200"]
     \/ /\ target[c] \notin tracked
        /\ peer' = [peer EXCEPT ![c] = "412"]
        /\ UNCHANGED <<storeVars, execVars>>
  /\ UNCHANGED <<home, phase, gone, cpc, target, asker, faults>>

CancelReply_AnyReply(c) ==
  /\ cpc[c] = "asked" /\ Live(asker[c])
  /\ cpc' = [cpc EXCEPT ![c] = IF peer[c] = "sent" THEN "freezing" ELSE "done"]
  /\ UNCHANGED <<storeVars, execVars, home, phase, gone, target, asker, peer,
                 faults>>

(* The reply arrives; or there is no responder, or the request times out.  *)
CancelReply(c) ==
  /\ cpc[c] = "asked" /\ Live(asker[c])
  /\ cpc' = [cpc EXCEPT ![c] = IF peer[c] = "200" THEN "done" ELSE "freezing"]
  /\ UNCHANGED <<storeVars, execVars, home, phase, gone, target, asker, peer,
                 faults>>

(* freezeTurnIgnoringMissing *)
CancelFreeze(c) ==
  /\ cpc[c] = "freezing" /\ Live(asker[c])
  /\ IF Present(target[c])
     THEN FreezeAndGetTurn(target[c], "client-cancelled")
     ELSE UNCHANGED storeVars
  /\ cpc' = [cpc EXCEPT ![c] = "done"]
  /\ UNCHANGED <<execVars, home, phase, gone, target, asker, peer, faults>>

-----------------------------------------------------------------------------
(* Shutdown of executor e: stop accepting, abort every run, wait until the *)
(* registry is empty, wait until every response has ended, exit.           *)
SetPhase(e, p) ==
  /\ phase' = [phase EXCEPT ![e] = p]
  /\ UNCHANGED <<home, gone, cpc, target, asker, peer, faults>>

ShutdownStart(e) ==
  /\ MayShutDown
  /\ phase[e] = "up"
  /\ AbortOnly(Runs(e), "abandoned")
  /\ SetPhase(e, "draining")

ShutdownDrained(e) ==
  /\ phase[e] = "draining" /\ Runs(e) = {}
  /\ SetPhase(e, "closing")
  /\ UNCHANGED <<storeVars, execVars>>

(* A JSON response ends once the first event is dual-written, a stream     *)
(* when its drain ends; either ends when the client disconnects.           *)
ResponseOpen(r) ==
  /\ pc[r] \notin {"idle", "failed"}
  /\ drain[r] # "off"
  /\ ~gone[r]
  /\ mode[r] = "json" => out[r] = <<>>

ShutdownExit_NoWait(e) ==
  /\ phase[e] = "closing"
  /\ SetPhase(e, "exited")
  /\ UNCHANGED <<storeVars, execVars>>

ShutdownExit(e) ==
  /\ phase[e] = "closing"
  /\ \A r \in Turns : home[r] = e => ~ResponseOpen(r)
  /\ SetPhase(e, "exited")
  /\ UNCHANGED <<storeVars, execVars>>

(* Faults: a process dies, a store write or a dual write fails. *)
Fault == faults < MaxFaults /\ faults' = faults + 1

Kill(e) ==
  /\ Fault
  /\ Live(e)
  /\ phase' = [phase EXCEPT ![e] = "killed"]
  /\ UNCHANGED <<storeVars, execVars, home, gone, cpc, target, asker, peer>>

WriteFault(r) ==
  /\ Fault
  /\ Live(home[r])
  /\ StoreFails(r) \/ DrainFails(r)
  /\ UNCHANGED <<home, phase, gone, cpc, target, asker, peer>>

-----------------------------------------------------------------------------
Init ==
  /\ StoreInit
  /\ ExecInit
  /\ \E e \in Executors : home = [r \in Turns |-> e]
  /\ phase = [e \in Executors |-> "up"]
  /\ gone = [r \in Turns |-> FALSE]
  /\ cpc = [c \in Cancels |-> "idle"]
  /\ target = [c \in Cancels |-> NoTurn]
  /\ \E e \in Executors : asker = [c \in Cancels |-> e]
  /\ peer = [c \in Cancels |-> "none"]
  /\ faults = 0

Next ==
  \/ \E r \in Turns, e \in Executors : StartRequest(r, e)
  \/ \E r \in Turns :
       \/ TrackRun(r) \/ RequestStep(r) \/ RequestFails(r)
       \/ ProduceEvent(r) \/ FinishRun(r) \/ Timeout(r) \/ Disconnect(r)
       \/ WriteFault(r)
  \/ DeleteHandler
  \/ \E c \in Cancels : \/ \E e \in Executors : CancelLoad(c, e)
                        \/ CancelCheck(c) \/ PeerHandle(c)
                        \/ CancelReply(c) \/ CancelFreeze(c)
  \/ \E e \in Executors : \/ ShutdownStart(e) \/ ShutdownDrained(e)
                          \/ ShutdownExit(e) \/ Kill(e)

Spec == Init /\ [][Next]_vars

(* The event loop runs every ready continuation; timers fire; a request to *)
(* a live peer is answered or times out.  The orchestrator is only known   *)
(* to stop when its signal is aborted.                                     *)
Fairness ==
  /\ \A r \in Turns :
       /\ WF_vars(RequestStep(r)) /\ WF_vars(TrackRun(r))
       /\ WF_vars(Timeout(r))
       /\ WF_vars(abort[r] # NoReason /\ FinishRun(r))
  /\ \A c \in Cancels : WF_vars(CancelCheck(c)) /\ WF_vars(CancelReply(c))
                          /\ WF_vars(CancelFreeze(c))
  /\ \A e \in Executors : WF_vars(ShutdownDrained(e)) /\ WF_vars(ShutdownExit(e))

FairSpec == Spec /\ Fairness

-----------------------------------------------------------------------------
(* Type invariant: the store, the requests, the replicas and the cancels. *)
TypeOK ==
  /\ StoreTypeOK
  /\ ExecTypeOK
  /\ home \in [Turns -> Executors]
  /\ phase \in [Executors -> Phases]
  /\ gone \in [Turns -> BOOLEAN]
  /\ cpc \in [Cancels -> {"idle", "loaded", "asked", "freezing", "done"}]
  /\ target \in [Cancels -> Turns \cup {NoTurn}]
  /\ asker \in [Cancels -> Executors]
  /\ peer \in [Cancels -> {"none", "sent", "200", "412"}]
  /\ faults \in Nat

(* A cancel that has returned is not lost, whichever replica owned the     *)
(* turn and however the peer request went: the turn is no longer running,  *)
(* or the signal of its run is aborted.                                    *)
CancelHeld ==
  \A c \in Cancels : cpc[c] = "done" =>
    \/ status[target[c]] # "running"
    \/ abort[target[c]] # NoReason

(* shutdown() in main.ts: a process that drained and exited leaves none of *)
(* its turns running, also one that was created and registered while the   *)
(* drain went on, as long as its client was still reading the stream.      *)
GracefulExitSettles ==
  \A e \in Executors : phase[e] = "exited" =>
    \A r \in Turns : home[r] = e /\ mode[r] = "stream" /\ ~gone[r] =>
      status[r] # "running"

(* The server implements TurnLifecycle: a turn row is open while it is not *)
(* terminal, and the announced outcome is the turn.done of its stream.     *)
Announced(r) ==
  LET done == {i \in 1..Len(out[r]) : out[r][i].type = "turn.done"}
  IN  IF done = {} THEN "none"
      ELSE out[r][CHOOSE i \in done : \A j \in done : j <= i].status
Lifecycle ==
  INSTANCE TurnLifecycle WITH
    state     <- [r \in Turns |-> CASE ~alive         -> "deleted"
                                    [] NonTerminal(r) -> "open"
                                    [] OTHER          -> status[r]],
    announced <- [r \in Turns |-> Announced(r)]
ImplementsLifecycle == Lifecycle!Spec

(* Every turn ends: by itself, or because the execution timer aborts it;   *)
(* only a turn whose client left may be lost with a process that exits.    *)
TurnsEnd ==
  \A r \in Turns : status[r] = "running" ~>
    \/ status[r] # "running"
    \/ gone[r] /\ phase[home[r]] = "exited"

(* A drain ends without the deadline that kills the process. *)
ShutdownCompletes ==
  \A e \in Executors : phase[e] = "draining" ~> phase[e] = "exited"
=============================================================================
