---------------------------- MODULE PostgresStore ----------------------------
(***************************************************************************)
(* The Postgres session store, statement by statement.  Each operation of  *)
(* ISessionStore is a READ COMMITTED transaction of one pooled connection; *)
(* the variables of SessionStore are the committed rows of one session, tx *)
(* is what every connection has done since its BEGIN.  A write becomes     *)
(* visible at COMMIT; until then only its row locks are felt.              *)
(*                                                                         *)
(* A statement that waits for a row evaluates its predicate again on the   *)
(* row it is given, so an action reads committed rows at the moment its    *)
(* locks are free.  Every child table references session(session_id): an   *)
(* INSERT takes FOR KEY SHARE on the session row, a DELETE of the session  *)
(* cascades to the turn rows.  A non-key UPDATE takes FOR NO KEY UPDATE.   *)
(***************************************************************************)
EXTENDS SessionStore

CONSTANT Connections    \* connections of the pools of all replicas

Session == "session"    \* the session row, as a lock target

ASSUME RowsAssumption == Session \notin Turns

VARIABLE tx             \* tx[c]: the transaction of connection c

pgVars == <<storeVars, tx>>

Ops == {"none", "freeze", "terminal", "update"}

(* idle       no transaction                                               *)
(* locked     createTurn has the session row                               *)
(* read       createTurn has read its previous turn                        *)
(* fenced     a turn-scoped write has passed its running fence             *)
(* updated    a state write has updated the turn row                       *)
(* logged     ... has inserted its lifecycle event                         *)
(* applied    ... has updated the session row                              *)
(* assembled  ... a freeze, has read the record it will return             *)
(* unmatched  a freeze that found the turn terminal, about to read it      *)
(* got        a freeze has returned its record to the caller               *)
(* deleting   deleteSession has deleted the session row                    *)
TxPhases == {"idle", "locked", "read", "fenced", "updated", "logged",
           "applied", "assembled", "unmatched", "got", "deleting"}

Idle == [phase |-> "idle", op |-> "none", turn |-> NoTurn, prev |-> NoTurn,
         status |-> "absent", reason |-> NoReason, snap |-> EmptySnapshot]

-----------------------------------------------------------------------------
(* The row locks *)
Conflict_KeyShareFence(a, b) ==
  \/ "update" \in {a, b}
  \/ a = "no key update" /\ b = "no key update"

(* Postgres: which lock modes of one row exclude each other *)
Conflict(a, b) ==
  \/ "update" \in {a, b}
  \/ a = "no key update" /\ b \in {"no key update", "share"}
  \/ a = "share" /\ b = "no key update"

(* Locks are kept until the transaction ends. *)
Holds(c) ==
  LET p == tx[c].phase
      t == tx[c].turn IN
  CASE p \in {"locked", "read", "deleting"} -> {<<Session, "update">>}
    [] p = "fenced"  -> {<<t, "share">>}
    [] p = "updated" -> {<<t, "no key update">>}
    [] p = "logged"  -> {<<t, "no key update">>, <<Session, "key share">>}
    [] p \in {"applied", "assembled"} ->
         {<<t, "no key update">>, <<Session, "no key update">>}
    [] OTHER -> {}

Needs_LocksPrevious(c) ==
  LET p == tx[c].phase IN
  CASE p = "locked" -> {<<t, "share">> : t \in TurnRows}
    [] p = "fenced" \/ (p = "updated" /\ tx[c].op # "terminal") ->
         {<<Session, "key share">>}
    [] p = "logged" \/ (p = "updated" /\ tx[c].op = "terminal") ->
         {<<Session, "no key update">>}
    [] p = "deleting" -> {<<t, "update">> : t \in TurnRows}
    [] OTHER -> {}

(* The locks the next statement of an open transaction takes: the foreign  *)
(* key of an inserted row, the session row of applyTurnStateToSession, the *)
(* turn rows of a cascading delete.                                        *)
Needs(c) ==
  LET p == tx[c].phase IN
  CASE p = "fenced" \/ (p = "updated" /\ tx[c].op # "terminal") ->
         {<<Session, "key share">>}
    [] p = "logged" \/ (p = "updated" /\ tx[c].op = "terminal") ->
         {<<Session, "no key update">>}
    [] p = "deleting" -> {<<t, "update">> : t \in TurnRows}
    [] OTHER -> {}

Blocks(d, need) ==
  \E held \in Holds(d) : held[1] = need[1] /\ Conflict(held[2], need[2])

Free(c, need) == \A d \in Connections \ {c} : ~Blocks(d, need)

Waits(c, d) == c # d /\ \E need \in Needs(c) : Blocks(d, need)

-----------------------------------------------------------------------------
In(c, p) == tx[c].phase = p

(* The next statement of c may run. *)
Ready(c) == \A need \in Needs(c) : Free(c, need)

GotoPhase(c, p) == tx' = [tx EXCEPT ![c].phase = p]
CommitTx(c) == tx' = [tx EXCEPT ![c] = Idle]

(* createTurn, step 1: SELECT ... FOR UPDATE of the session row *)
LockSession(c) ==
  /\ In(c, "idle")
  /\ alive
  /\ Free(c, <<Session, "update">>)
  /\ GotoPhase(c, "locked")
  /\ UNCHANGED storeVars

(* createTurn, step 2: a plain read of the previous turn and its threads,  *)
(* and the checks on them.                                                 *)
ReadPrevious(c, t, prev, new, app, claimed) ==
  /\ In(c, "locked")
  /\ Ready(c)
  /\ CanCreateTurn(t, prev, new, app, Known(prev) \cup new)
  /\ tx' = [tx EXCEPT ![c].phase = "read", ![c].turn = t, ![c].prev = prev,
                      ![c].snap = SnapshotFromDelta(t, prev, new, app, claimed)]
  /\ UNCHANGED storeVars

(* createTurn, steps 3 to 5: INSERT the turn row and the thread rows, with *)
(* the tip and total_turns of step 1, and COMMIT.                          *)
InsertTurn(c) ==
  LET t == tx[c].turn IN
  /\ In(c, "read")
  /\ status' = [status EXCEPT ![t] = "running"]
  /\ reason' = [reason EXCEPT ![t] = NoReason]
  /\ previous' = [previous EXCEPT ![t] = tx[c].prev]
  /\ snapshot' = [snapshot EXCEPT ![t] = tx[c].snap]
  /\ log' = [log EXCEPT ![t] = <<>>]
  /\ lastTurn' = [id |-> t, status |-> "running"]
  /\ totalTurns' = totalTurns + 1
  /\ CommitTx(c)
  /\ UNCHANGED <<alive, folds>>

(* The statuses the WHERE clause of a state write accepts *)
Source(op, s) ==
  CASE op = "update" /\ s = "paused" -> {"running"}
    [] op = "update" /\ s = "running" -> {"paused"}
    [] OTHER -> NonTerminalStatus

(* freezeAndGetTurn, updateTurnTerminalState, updateTurnNonTerminalState:  *)
(* UPDATE turn ... WHERE status IN ... RETURNING                           *)
UpdateTurn(c, t, op, s, r) ==
  /\ In(c, "idle")
  /\ Free(c, <<t, "no key update">>)
  /\ status[t] \in Source(op, s)
  /\ tx' = [tx EXCEPT ![c] = [Idle EXCEPT !.phase = "updated", !.op = op,
                                !.turn = t, !.status = s, !.reason = r]]
  /\ UNCHANGED storeVars

(* freezeAndGetTurn whose UPDATE matches no row *)
UpdateMisses(c, t) ==
  /\ In(c, "idle")
  /\ status[t] \in Terminal
  /\ tx' = [tx EXCEPT ![c] = [Idle EXCEPT !.phase = "unmatched", !.op = "freeze",
                                !.turn = t]]
  /\ UNCHANGED storeVars

(* INSERT INTO session_event; the terminal write does it last. *)
InsertEvent(c) ==
  /\ In(c, "updated")
  /\ tx[c].op # "terminal"
  /\ Ready(c)
  /\ GotoPhase(c, "logged")
  /\ UNCHANGED storeVars

(* applyTurnStateToSession *)
UpdateSession(c) ==
  /\ In(c, "logged") \/ (In(c, "updated") /\ tx[c].op = "terminal")
  /\ Ready(c)
  /\ GotoPhase(c, "applied")
  /\ UNCHANGED storeVars

(* assembleTurnRecord: a freeze reads what it will return. *)
Assemble(c) ==
  /\ tx[c].op = "freeze"
  /\ In(c, "applied") \/ (In(c, "unmatched") /\ Present(tx[c].turn))
  /\ tx' = [tx EXCEPT ![c].phase = IF In(c, "applied") THEN "assembled" ELSE "got",
                      ![c].snap = snapshot[tx[c].turn]]
  /\ UNCHANGED storeVars

(* COMMIT of a state write *)
CommitState(c) ==
  LET x == tx[c] IN
  /\ In(c, "assembled") \/ (In(c, "applied") /\ x.op # "freeze")
  /\ WriteTurnState(x.turn, x.status, x.reason,
                    IF x.op = "update" THEN Event("turn.update")
                                       ELSE TurnDone(x.status))
  /\ IF x.op = "freeze" THEN GotoPhase(c, "got") ELSE CommitTx(c)

-----------------------------------------------------------------------------
(* turnRunningFence and assertTurnRunning: FOR SHARE of a running turn *)
Fence(c, t) ==
  /\ In(c, "idle")
  /\ Free(c, <<t, "share">>)
  /\ RequireRunning(t)
  /\ tx' = [tx EXCEPT ![c] = [Idle EXCEPT !.phase = "fenced", !.turn = t]]
  /\ UNCHANGED storeVars

(* The rows of a turn that count for the bound MaxLog *)
HasDone(t) == \E i \in 1..Len(log[t]) : log[t][i].type = "turn.done"
Written(t) == IF HasDone(t) THEN Len(log[t]) - 1 ELSE Len(log[t])

(* appendToEvents *)
InsertEvents(c, e) ==
  /\ In(c, "fenced")
  /\ Ready(c)
  /\ Written(tx[c].turn) < MaxLog
  /\ log' = [log EXCEPT ![tx[c].turn] = Append(@, Event(e))]
  /\ CommitTx(c)
  /\ UNCHANGED <<alive, status, reason, previous, snapshot,
                 lastTurn, totalTurns, folds>>

(* The rows of turn_thread and thread_capability_state behind the fence *)
WriteThreadRows(c, snap) ==
  /\ Ready(c)
  /\ snapshot' = [snapshot EXCEPT ![tx[c].turn] = snap]
  /\ CommitTx(c)
  /\ UNCHANGED <<alive, status, reason, previous, log,
                 lastTurn, totalTurns, folds>>

(* addThreads: a second row of the same thread violates the primary key.   *)
AddThreads(c, th) ==
  LET snap == snapshot[tx[c].turn] IN
  /\ In(c, "fenced")
  /\ th \notin snap.threads
  /\ WriteThreadRows(c, [snap EXCEPT !.threads = @ \cup {th},
                                     !.context[th] = <<>>,
                                     !.capability[th] = NoTurn])

(* appendToThreadContext: context_ids || the new ids, on the row's latest  *)
(* version.                                                                *)
AppendContext(c, th) ==
  LET snap == snapshot[tx[c].turn] IN
  /\ In(c, "fenced")
  /\ th \in snap.threads
  /\ Len(snap.context[th]) < MaxContext
  /\ WriteThreadRows(c, [snap EXCEPT !.context[th] = Append(@, tx[c].turn)])

(* overwriteThreadContext *)
OverwriteContext(c, th) ==
  LET snap == snapshot[tx[c].turn] IN
  /\ In(c, "fenced")
  /\ th \in snap.threads
  /\ \E ctx \in Compactions(tx[c].turn, th) :
       WriteThreadRows(c, [snap EXCEPT !.context[th] = ctx])

(* patchThreadCapabilityState: an upsert that does not ask for the thread. *)
UpsertCapability(c, th, clear) ==
  LET snap == snapshot[tx[c].turn] IN
  /\ In(c, "fenced")
  /\ WriteThreadRows(c, [snap EXCEPT !.capability[th] =
                           IF clear THEN NoTurn ELSE tx[c].turn])

(* removeThreads: one statement that only deletes *)
RemoveThreads(c, t, th) ==
  /\ In(c, "idle")
  /\ Free(c, <<t, "share">>)
  /\ RemoveThread(t, th)
  /\ UNCHANGED tx

(* patchMCPServers, patchSandboxInfo: one conditional UPDATE of the turn *)
PatchTurn(c, t) ==
  /\ In(c, "idle")
  /\ Free(c, <<t, "no key update">>)
  /\ PatchCheckpoint(t)
  /\ UNCHANGED tx

(* deleteSession: DELETE FROM session, *)
DeleteRow(c) ==
  /\ In(c, "idle")
  /\ alive
  /\ Free(c, <<Session, "update">>)
  /\ GotoPhase(c, "deleting")
  /\ UNCHANGED storeVars

(* and its cascade *)
DeleteCascade(c) ==
  /\ In(c, "deleting")
  /\ Ready(c)
  /\ DeleteSession
  /\ CommitTx(c)

(* A transaction that throws, is chosen as deadlock victim, exceeds        *)
(* statement_timeout or loses its connection leaves nothing behind.        *)
Rollback(c) ==
  /\ tx[c].phase \notin {"idle", "got"}
  /\ CommitTx(c)
  /\ UNCHANGED storeVars

(* The caller of a freeze has used the record. *)
Return(c) ==
  /\ In(c, "got")
  /\ CommitTx(c)
  /\ UNCHANGED storeVars

-----------------------------------------------------------------------------
PgInit == StoreInit /\ tx = [c \in Connections |-> Idle]

CreateStatement(c) ==
  \/ LockSession(c)
  \/ \E t \in Turns, prev \in Turns \cup {NoTurn} :
       /\ prev = NoTurn \/ Present(prev)
       /\ \E claimed \in SUBSET Known(prev), new \in SUBSET (Threads \ Known(prev)) :
          \E app \in SUBSET (Known(prev) \cup new) :
            ReadPrevious(c, t, prev, new, app, claimed)
  \/ InsertTurn(c)

StateStatement(c) ==
  \/ \E t \in Turns :
       \/ \E r \in ClientReasons :
            \/ UpdateTurn(c, t, "freeze", "cancelled", r)
            \/ UpdateTurn(c, t, "terminal", "cancelled", r)
       \/ \E s \in {"done", "error"} : UpdateTurn(c, t, "terminal", s, NoReason)
       \/ \E s \in NonTerminalStatus :
            Len(log[t]) < MaxLog /\ UpdateTurn(c, t, "update", s, NoReason)
       \/ UpdateMisses(c, t)
  \/ InsertEvent(c)
  \/ UpdateSession(c)
  \/ Assemble(c)
  \/ CommitState(c)
  \/ Return(c)

(* The executor sends the capability states of threads its turn has. *)
WriteStatement(c) ==
  \/ \E t \in Turns :
       \/ Fence(c, t)
       \/ PatchTurn(c, t)
       \/ \E th \in Threads : RemoveThreads(c, t, th)
  \/ \E e \in ClientEvents : InsertEvents(c, e)
  \/ \E th \in Threads :
       \/ AddThreads(c, th)
       \/ AppendContext(c, th)
       \/ OverwriteContext(c, th)
       \/ /\ \E clear \in BOOLEAN : UpsertCapability(c, th, clear)
          /\ th \in snapshot[tx[c].turn].threads

PgNext == \E c \in Connections :
  \/ CreateStatement(c) \/ StateStatement(c) \/ WriteStatement(c)
  \/ DeleteRow(c) \/ DeleteCascade(c) \/ Rollback(c)

PgSpec == PgInit /\ [][PgNext]_pgVars

-----------------------------------------------------------------------------
(* Type of the open transactions; StoreTypeOK is the type of the rows. *)
PgTypeOK ==
  tx \in [Connections -> [phase : TxPhases, op : Ops,
                          turn : Turns \cup {NoTurn}, prev : Turns \cup {NoTurn},
                          status : Status, reason : Reasons \cup {NoReason},
                          snap : Snapshots]]

(* A terminal read is a final read: the record freezeAndGetTurn returns,   *)
(* from which the caller builds the next turn, holds every write that was  *)
(* ever committed to the turn; no straggler lands after the read.          *)
FreezeReadsFinal ==
  \A c \in Connections : In(c, "got") /\ alive =>
    /\ status[tx[c].turn] \in Terminal
    /\ tx[c].snap = snapshot[tx[c].turn]

(* Turn-scoped writes lock the turn row before the session row, and        *)
(* createTurn locks no old turn row, so they never wait for each other in  *)
(* a circle.  Only deleteSession takes the rows in the other order; every  *)
(* deadlock Postgres has to break has a deleteSession in it.               *)
Deadlocked(S) == S # {} /\ \A c \in S : \E d \in S : Waits(c, d)
DeadlockNeedsDelete ==
  \A S \in SUBSET {c \in Connections : ~In(c, "deleting")} : ~Deadlocked(S)
=============================================================================
