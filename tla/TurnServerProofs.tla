-------------------------- MODULE TurnServerProofs --------------------------
(***************************************************************************)
(* Proofs about TurnServer, for every set of turns, threads, replicas and  *)
(* cancel requests, with every fault the model injects.                    *)
(*                                                                         *)
(* A step of the server moves one request, or none.  A request that does   *)
(* not move is a bystander: it only sees the store change, and of a store  *)
(* change it only sees that terminal turns stay as they are and that no    *)
(* turn but a newly committed one starts to run.  What a request relies on *)
(* is therefore stated per request (Request), shown to survive any such    *)
(* change once, and then followed through the steps of its own.            *)
(***************************************************************************)
EXTENDS TurnServer, SessionStoreProofs

(* Before store.createTurn has committed. *)
Early == {"idle", "begun", "resolving", "committing"}

(* Where a request is, what its resolver and its drain are doing, that its *)
(* turn has no row before it commits, and that a delta has no second write. *)
StageOK(u) ==
  /\ pc[u] \in Early => status[u] = "absent"
  /\ pc[u] = "persisting" => pend[u] # "delta"
  /\ pc[u] \in Early \cup {"failed", "committed"} <=> drain[u] = "none"
  /\ pc[u] \in {"idle", "begun", "resolving"} => resources[u] = "none"
  /\ pc[u] \in {"ended", "suspended", "yieldDone"} => resources[u] = "closed"
  /\ pc[u] = "failed" => resources[u] # "open"
  /\ pc[u] \notin {"idle", "begun", "resolving", "ended", "suspended",
                   "yieldDone", "failed"} => resources[u] = "open"

(* What createTurn read when it froze the previous turn still holds. *)
BaseOK(u) ==
  /\ pc[u] \in {"idle", "begun"} => base[u] = {}
  /\ pc[u] \in {"resolving", "committing"} =>
       /\ prevId[u] = NoTurn => base[u] = {}
       /\ prevId[u] # NoTurn /\ alive =>
            /\ status[prevId[u]] \in Terminal
            /\ base[u] = snapshot[prevId[u]].threads

(* The state stream() is about to announce is the stored one. *)
Announces(u) ==
  \/ pc[u] \in {"yieldFrozen", "yieldDone"}
  \/ pc[u] = "closing" /\ ~silent[u]
WantOK(u) ==
  /\ pc[u] = "writing" => want[u].status \in Terminal
  /\ pc[u] = "yieldFrozen" => silent[u]
  /\ Announces(u) => /\ want[u].status \in Terminal
                     /\ alive => status[u] = want[u].status

(* What it has announced is, too, and nothing follows it. *)
OutOK(u) ==
  \A i \in 1..Len(out[u]) : out[u][i].type = "turn.done" =>
    /\ i = Len(out[u])
    /\ out[u][i].status \in Terminal
    /\ alive => status[u] = out[u][i].status
    /\ pc[u] = "ended" \/ (pc[u] = "closing" /\ silent[u])

Request(u) == StageOK(u) /\ BaseOK(u) /\ WantOK(u) /\ OutOK(u)

(* Rows: a deleted session has none, its last turn exists, and every turn  *)
(* has the main thread.                                                    *)
RowsOK ==
  /\ ~alive => \A t \in Turns : status[t] = "absent"
  /\ lastTurn.id # NoTurn => status[lastTurn.id] # "absent"
  /\ \A t \in Turns : status[t] # "absent" => MainThread \in snapshot[t].threads

(* The inductive invariant of the requests. *)
ServerInv ==
  /\ TypeOK
  /\ RowsOK
  /\ \A u \in Turns : Request(u)

(* A turn that can no longer end as if nobody had cancelled it. *)
Held(t) == status[t] # "running" \/ abort[t] # NoReason

(* The inductive invariant of the cancel requests. *)
CancelOK(c) ==
  /\ cpc[c] = "idle" => peer[c] = "none"
  /\ cpc[c] # "idle" => /\ target[c] \in Turns
                        /\ alive => status[target[c]] # "absent"
  /\ cpc[c] = "done" \/ peer[c] = "200" => Held(target[c])
CancelInv == \A c \in Cancels : CancelOK(c)

(* The inductive invariant of a shutdown, as long as nothing has failed.   *)
(* A failed dual write ends the response before the turn is settled, and a *)
(* failed read after the commit leaves a turn nobody runs.                 *)
Settled(u) ==
  /\ pc[u] = "failed" => status[u] = "absent"
  /\ pc[u] \in {"yieldFrozen", "closing", "yieldDone", "suspended", "ended"} =>
       status[u] # "running"
  /\ drain[u] = "off" => pc[u] = "ended"
  /\ phase[home[u]] = "exited" /\ mode[u] = "stream" /\ ~gone[u] =>
       pc[u] \in {"idle", "failed", "ended"}
ExitInv == faults = 0 => \A u \in Turns : Settled(u)
-----------------------------------------------------------------------------
(* What a bystander sees of a store step that creates no turn, and of one  *)
(* that creates turn r.                                                    *)
Plain ==
  /\ alive' => alive
  /\ \A u \in Turns :
       /\ status[u] = "absent" => status'[u] = "absent"
       /\ status'[u] = "running" => status[u] = "running"
       /\ alive' /\ status[u] # "absent" => status'[u] # "absent"
       /\ alive' /\ status[u] \in Terminal =>
            status'[u] = status[u] /\ snapshot'[u] = snapshot[u]
Created(r) ==
  /\ alive /\ alive'
  /\ status[r] = "absent"
  /\ status' = [status EXCEPT ![r] = "running"]
  /\ \A u \in Turns \ {r} : snapshot'[u] = snapshot[u]

PlainStore == Plain /\ RowsOK' /\ Shapes

(* A step that leaves the store alone. *)
LEMMA QuietStore ==
  ASSUME RowsOK, UNCHANGED storeVars
  PROVE  PlainStore
<1>1. Shapes
  BY DEF Shapes
<1>2. /\ alive' = alive /\ status' = status /\ snapshot' = snapshot
      /\ lastTurn' = lastTurn
  BY DEF storeVars
<1> QED BY <1>1, <1>2 DEF PlainStore, Plain, RowsOK

(* A terminal state written to a live turn. *)
LEMMA TerminalWrite ==
  ASSUME StoreTypeOK, RowsOK, NEW t \in Turns, NEW s \in Terminal,
         NEW why \in Reasons \cup {NoReason},
         NonTerminal(t), WriteTurnState(t, s, why, TurnDone(s))
  PROVE  PlainStore /\ status' = [status EXCEPT ![t] = s]
<1>1. /\ alive' = alive /\ snapshot' = snapshot
      /\ status' = [status EXCEPT ![t] = s]
      /\ lastTurn'.id = lastTurn.id
  BY DEF WriteTurnState, ApplyTurnStateToSession
<1>2. /\ status \in [Turns -> Status]
      /\ status[t] \notin Terminal /\ status[t] # "absent"
      /\ lastTurn.id \in Turns \cup {NoTurn}
      /\ s # "absent" /\ s # "running"
  BY StatusFacts
     DEF StoreTypeOK, NonTerminal, NonTerminalStatus, Terminal
<1>3. Plain /\ RowsOK'
  BY <1>1, <1>2 DEF Plain, RowsOK
<1>4. Shapes
  <2>1. /\ s \in Status
        /\ TurnDone(s) \in Events
    BY DEF Status, TurnDone, EventTypes, Events
  <2> QED BY <2>1 DEF Shapes, StateStep
<1> QED BY <1>1, <1>3, <1>4 DEF PlainStore

(* freezeAndGetTurn *)
LEMMA FreezeWrite ==
  ASSUME StoreTypeOK, RowsOK, NEW t \in Turns, NEW why \in Reasons,
         FreezeAndGetTurn(t, why)
  PROVE  /\ PlainStore
         /\ status'[t] \in Terminal
         /\ alive' = alive /\ snapshot' = snapshot
         /\ \/ /\ status[t] \in NonTerminalStatus
               /\ status' = [status EXCEPT ![t] = "cancelled"]
            \/ status' = status
<1>0. status \in [Turns -> Status] /\ t # NoTurn
  BY StoreAssumption DEF StoreTypeOK
<1>1. CASE NonTerminal(t)
  <2>1. WriteTurnState(t, "cancelled", why, TurnDone("cancelled"))
    BY <1>1 DEF FreezeAndGetTurn
  <2>2. PlainStore /\ status' = [status EXCEPT ![t] = "cancelled"]
    BY <1>1, <2>1, TerminalWrite DEF Terminal
  <2> QED BY <1>0, <1>1, <2>1, <2>2
          DEF Terminal, WriteTurnState, NonTerminal
<1>2. CASE ~NonTerminal(t)
  <2>1. UNCHANGED storeVars
    BY <1>2 DEF FreezeAndGetTurn
  <2>2. PlainStore
    BY <2>1, QuietStore
  <2>3. status[t] \in Terminal
    BY <1>0, <1>2, StatusFacts DEF FreezeAndGetTurn, Present, NonTerminal
  <2> QED BY <2>1, <2>2, <2>3 DEF storeVars
<1> QED BY <1>1, <1>2

(* appendToEvents of anything but turn.done *)
LEMMA EventWrite ==
  ASSUME StoreTypeOK, RowsOK, NEW t \in Turns,
         NEW type \in EventTypes \ {"turn.done"},
         AppendToEvents(t, Event(type))
  PROVE  PlainStore /\ status' = status /\ alive' = alive
<1>1. /\ alive' = alive /\ status' = status /\ snapshot' = snapshot
      /\ lastTurn' = lastTurn
  BY DEF AppendToEvents
<1>2. Shapes
  BY DEF Shapes, EventStep
<1> QED BY <1>1, <1>2 DEF PlainStore, Plain, RowsOK

(* deleteSession *)
LEMMA DeleteWrite ==
  ASSUME StoreTypeOK, DeleteSession
  PROVE  PlainStore
<1>1. Shapes
  BY DEF Shapes
<1>2. /\ alive' = FALSE /\ lastTurn'.id = NoTurn
      /\ \A u \in Turns : status'[u] = "absent"
  BY DEF DeleteSession
<1>3. alive
  BY DEF DeleteSession
<1> QED BY <1>1, <1>2, <1>3 DEF PlainStore, Plain, RowsOK

(* A snapshot write to a running turn that keeps the main thread *)
LEMMA KeepsMain ==
  ASSUME StoreTypeOK, RowsOK, NEW t \in Turns, NEW snap \in Snapshots,
         SnapshotStep(t, snap), MainThread \in snap.threads
  PROVE  PlainStore /\ status' = status /\ alive' = alive
<1>1. /\ alive' = alive /\ status' = status /\ lastTurn' = lastTurn
      /\ snapshot' = [snapshot EXCEPT ![t] = snap]
      /\ status[t] = "running"
  BY DEF SnapshotStep, WriteSnapshot, RequireRunning
<1>2. Shapes
  BY DEF Shapes
<1>3. snapshot \in [Turns -> Snapshots]
  BY DEF StoreTypeOK
<1>4. "running" \notin Terminal
  BY StatusFacts
<1> QED BY <1>1, <1>2, <1>3, <1>4 DEF PlainStore, Plain, RowsOK

(* The first write of persistExecutionEvent: whatever the event, the turn  *)
(* is running and keeps its main thread.                                   *)
LEMMA FirstWrite ==
  ASSUME StoreTypeOK, RowsOK, NEW r \in Turns, NEW k \in Kinds,
         SnapshotWrite(r, k)
  PROVE  PlainStore /\ status' = status /\ alive' = alive
<1>1. \E th \in Threads :
        \/ AddThread(r, th) \/ RemoveThread(r, th)
        \/ AppendToThreadContext(r, th)
        \/ \E ctx \in Compactions(r, th) : OverwriteThreadContext(r, th, ctx)
        \/ PatchCheckpoint(r)
        \/ \E clear \in BOOLEAN : PatchThreadCapabilityState(r, th, clear)
  <2>1. snapshot[r].threads \subseteq Threads /\ MainThread \in Threads
    BY SnapshotParts, StoreAssumption
  <2> QED BY <2>1 DEF SnapshotWrite
<1>2. PICK snap \in Snapshots : SnapshotStep(r, snap)
  BY <1>1, ThreadRows, OtherSnapshotWrites
<1>3. /\ snapshot' = [snapshot EXCEPT ![r] = snap]
      /\ status[r] = "running"
  BY <1>2 DEF SnapshotStep, WriteSnapshot, RequireRunning
<1>4. MainThread \in snapshot[r].threads
  BY <1>3 DEF RowsOK
<1>5. MainThread \in snapshot'[r].threads
  <2>0. /\ snapshot \in [Turns -> Snapshots]
        /\ snapshot[r] \in Snapshots
    BY DEF StoreTypeOK
  <2>1. CASE k = "threadCreated" /\ \E th \in Threads \ snapshot[r].threads :
                                      AddThread(r, th)
    BY <2>0, <2>1, <1>4 DEF AddThread, WriteSnapshot, Snapshots
  <2>2. CASE \E th \in snapshot[r].threads \ {MainThread} : RemoveThread(r, th)
    BY <2>0, <2>2, <1>4 DEF RemoveThread, WriteSnapshot, Snapshots
  <2>3. CASE \E th \in snapshot[r].threads :
               \/ \E c \in BOOLEAN : PatchThreadCapabilityState(r, th, c)
               \/ \E ctx \in Compactions(r, th) : OverwriteThreadContext(r, th, ctx)
               \/ AppendToThreadContext(r, th)
    <3>1. PICK th \in snapshot[r].threads :
               \/ \E c \in BOOLEAN : PatchThreadCapabilityState(r, th, c)
               \/ \E ctx \in Compactions(r, th) : OverwriteThreadContext(r, th, ctx)
               \/ AppendToThreadContext(r, th)
      BY <2>3
    <3>2. \/ \E x : snapshot' = [snapshot EXCEPT ![r] =
                                [snapshot[r] EXCEPT !.capability[th] = x]]
          \/ \E x : snapshot' = [snapshot EXCEPT ![r] =
                                [snapshot[r] EXCEPT !.context[th] = x]]
      BY <3>1 DEF PatchThreadCapabilityState, OverwriteThreadContext,
                  AppendToThreadContext, WriteSnapshot
    <3> QED BY <2>0, <3>2, <1>4 DEF Snapshots
  <2>4. CASE PatchCheckpoint(r)
    BY <2>0, <2>4, <1>4 DEF PatchCheckpoint, WriteSnapshot, Snapshots
  <2> QED BY <2>1, <2>2, <2>3, <2>4 DEF SnapshotWrite
<1>6. snapshot'[r] = snap
  BY <1>3 DEF StoreTypeOK
<1> QED BY <1>2, <1>5, <1>6, KeepsMain

(* createTurn, as SessionHandle calls it: what it read when it froze the   *)
(* previous turn makes the commit one of the store's shapes.               *)
LEMMA CommitWrite ==
  ASSUME ServerInv, NEW r \in Turns, Commit(r)
  PROVE  Created(r) /\ RowsOK' /\ Shapes
<1>0. /\ StoreTypeOK /\ ExecTypeOK /\ RowsOK
      /\ NoTurn \notin Turns /\ MainThread \in Threads
      /\ prevId[r] \in Turns \cup {NoTurn}
      /\ base[r] \in SUBSET Threads
      /\ status \in [Turns -> Status] /\ snapshot \in [Turns -> Snapshots]
  BY StoreAssumption DEF ServerInv, TypeOK, StoreTypeOK, ExecTypeOK
<1>1. /\ pc[r] = "committing"
      /\ status[r] = "absent"
      /\ prevId[r] # NoTurn /\ alive => status[prevId[r]] \in Terminal
  BY DEF Commit, ServerInv, Request, StageOK, BaseOK, Early
<1> DEFINE prev == prevId[r]
           new == NewThreads(r)
<1>2. PICK th \in AgentThreads(r), cl \in SUBSET base[r] :
        CreateTurn(r, prev, new, {th}, AgentThreads(r), cl)
  BY DEF Commit
<1>3. /\ new \in SUBSET Threads /\ {th} \in SUBSET Threads
      /\ cl \in SUBSET Threads
  BY <1>0 DEF NewThreads, AgentThreads
<1>4. /\ alive /\ alive' = alive
      /\ AgentThreads(r) = Known(prev) \cup new
      /\ status' = [status EXCEPT ![r] = "running"]
      /\ snapshot' = [snapshot EXCEPT ![r] =
                        SnapshotFromDelta(r, prev, new, {th}, cl)]
      /\ lastTurn'.id = r
  BY <1>2 DEF CreateTurn, CanCreateTurn
<1>5. prev = NoTurn \/ Present(prev)
  BY <1>1, <1>4, StatusFacts DEF Present
<1>6. Shapes
  <2>1. CreateStep(r, prev, new, {th}, cl)
    BY <1>2, <1>4, <1>5 DEF CreateStep
  <2> HIDE DEF prev, new
  <2>2. prev \in Turns \cup {NoTurn}
    BY <1>0 DEF prev
  <2> QED BY <1>3, <2>1, <2>2 DEF Shapes
<1>7. MainThread \in SnapshotFromDelta(r, prev, new, {th}, cl).threads
  <2> DEFINE old == IF Present(prev) THEN snapshot[prev] ELSE EmptySnapshot
  <2>1. old \in Snapshots
    BY <1>0 DEF EmptySnapshot, Snapshots, Present
  <2>2. SnapshotFromDelta(r, prev, new, {th}, cl).threads = old.threads \cup new
    <3> HIDE DEF old
    <3>1. \A f, g : [old EXCEPT !.threads = @ \cup new, !.context = f,
                                !.capability = g].threads = old.threads \cup new
      BY <2>1 DEF Snapshots
    <3> QED BY <3>1 DEF SnapshotFromDelta, old
  <2>3. prev = NoTurn => MainThread \in new
    BY DEF NewThreads
  <2>4. prev # NoTurn => MainThread \in old.threads
    BY <1>0, <1>5 DEF Present, RowsOK
  <2> QED BY <2>2, <2>3, <2>4
<1>8. RowsOK'
  <2> HIDE DEF prev, new
  <2>1. "running" # "absent"
    OBVIOUS
  <2> QED BY <1>0, <1>4, <1>7, <2>1 DEF RowsOK
<1>9. Created(r)
  BY <1>0, <1>1, <1>4 DEF Created
<1> QED BY <1>6, <1>8, <1>9

-----------------------------------------------------------------------------
(* Request u does not move. *)
Same(u) ==
  /\ pc'[u] = pc[u] /\ base'[u] = base[u] /\ prevId'[u] = prevId[u]
  /\ want'[u] = want[u] /\ silent'[u] = silent[u] /\ pend'[u] = pend[u]
  /\ resources'[u] = resources[u] /\ drain'[u] = drain[u] /\ out'[u] = out[u]

(* A bystander keeps what it relies on. *)
LEMMA Bystander ==
  ASSUME TypeOK, NEW u \in Turns, Request(u), Same(u),
         Plain \/ \E r \in Turns \ {u} : Created(r)
  PROVE  Request(u)'
<1>0. /\ status \in [Turns -> Status] /\ prevId[u] \in Turns \cup {NoTurn}
      /\ "running" \notin Terminal /\ "absent" \notin Terminal
  BY StatusFacts DEF TypeOK, StoreTypeOK, ExecTypeOK
<1>1. alive' => alive
  BY DEF Plain, Created
<1>2. ASSUME NEW v \in Turns, alive', status[v] \in Terminal
      PROVE  status'[v] = status[v] /\ snapshot'[v] = snapshot[v]
  BY <1>0, <1>2 DEF Plain, Created
<1>3. status[u] = "absent" => status'[u] = "absent"
  BY <1>0 DEF Plain, Created
<1>4. StageOK(u)'
  BY <1>3 DEF Request, StageOK, Same
<1>5. BaseOK(u)'
  BY <1>0, <1>1, <1>2 DEF Request, BaseOK, Same
<1>6. WantOK(u)'
  BY <1>1, <1>2 DEF Request, WantOK, Announces, Same
<1>7. OutOK(u)'
  BY <1>1, <1>2 DEF Request, OutOK, Same
<1> QED BY <1>4, <1>5, <1>6, <1>7 DEF Request
-----------------------------------------------------------------------------
(* What a step of request r establishes. *)
Moves(r) ==
  /\ Plain \/ (Commit(r) /\ Created(r))
  /\ RowsOK' /\ Shapes /\ ExecTypeOK'
  /\ \A u \in Turns \ {r} : Same(u)
  /\ Request(r)'

(* What the steps start from. *)
LEMMA InvParts ==
  ASSUME ServerInv, NEW r \in Turns
  PROVE  /\ StoreTypeOK /\ ExecTypeOK /\ RowsOK
         /\ Request(r) /\ StageOK(r) /\ BaseOK(r) /\ WantOK(r) /\ OutOK(r)
  BY DEF ServerInv, TypeOK, Request

NoDone(r) == \A i \in 1..Len(out[r]) : out[r][i].type # "turn.done"

(* Before the terminal state is settled no turn.done was handed over. *)
LEMMA NotAnnounced ==
  ASSUME ServerInv, NEW r \in Turns,
         pc[r] # "ended", pc[r] = "closing" => ~silent[r]
  PROVE  NoDone(r)
  BY InvParts DEF OutOK, NoDone

(* A step that hands nothing over *)
LEMMA SilentMove ==
  ASSUME NEW r \in Turns, PlainStore, ExecTypeOK', NoDone(r),
         out' = out, \A u \in Turns \ {r} : Same(u),
         StageOK(r)', BaseOK(r)', WantOK(r)'
  PROVE  Moves(r)
<1>1. OutOK(r)'
  BY DEF NoDone, OutOK
<1> QED BY <1>1 DEF Moves, PlainStore, Request

LEMMA MoveBegin ==
  ASSUME ServerInv, NEW r \in Turns, NEW m \in Modes, NEW p \in Requested,
         Begin(r, m, p)
  PROVE  Moves(r)
<1>1. PlainStore
  BY QuietStore, InvParts DEF Begin, storeVars
<1>2. ExecTypeOK'
  <2>1. ResolvePreviousTurnId(p) \in Turns \cup {NoTurn}
    BY InvParts, ServerAssumption DEF ResolvePreviousTurnId, StoreTypeOK
  <2>2. m \in {"stream", "json"}
    BY ServerAssumption
  <2> QED BY <2>1, <2>2, InvParts DEF Begin, Goto, ExecTypeOK, PCs
<1>3. /\ pc[r] = "idle" /\ pc' = [pc EXCEPT ![r] = "begun"]
      /\ status' = status /\ pc \in [Turns -> PCs]
      /\ prevId \in [Turns -> Turns \cup {NoTurn}]
  BY InvParts DEF Begin, Goto, ExecTypeOK, storeVars
<1>4. \A u \in Turns \ {r} : Same(u)
  BY <1>3 DEF Begin, Same
<1>5. StageOK(r)' /\ BaseOK(r)' /\ WantOK(r)'
  BY <1>3, InvParts DEF Begin, StageOK, Early, BaseOK, WantOK, Announces
<1>6. NoDone(r)
  BY <1>3, NotAnnounced
<1> QED BY <1>1, <1>2, <1>4, <1>5, <1>6, SilentMove DEF Begin

LEMMA MoveFreezePrevious ==
  ASSUME ServerInv, NEW r \in Turns, FreezePrevious(r)
  PROVE  Moves(r)
<1>0. /\ pc[r] = "begun" /\ pc \in [Turns -> PCs]
      /\ base \in [Turns -> SUBSET Threads]
      /\ prevId[r] \in Turns \cup {NoTurn}
      /\ status[r] = "absent"
  BY InvParts DEF FreezePrevious, ExecTypeOK, StageOK, Early
<1>1. CASE /\ prevId[r] = NoTurn \/ ~Present(prevId[r])
           /\ UNCHANGED <<storeVars, base>>
           /\ \/ Goto(r, "resolving") /\ prevId[r] = NoTurn
              \/ Goto(r, "failed")
  <2>1. PlainStore
    BY <1>1, QuietStore, InvParts DEF storeVars
  <2>2. ExecTypeOK'
    <3>1. pc' \in [Turns -> PCs]
      BY <1>0, <1>1 DEF Goto, PCs
    <3> QED BY <1>1, <3>1, InvParts DEF FreezePrevious, ExecTypeOK
  <2>3. \A u \in Turns \ {r} : Same(u)
    BY <1>0, <1>1 DEF FreezePrevious, Goto, Same
  <2>4. StageOK(r)' /\ BaseOK(r)' /\ WantOK(r)'
    BY <1>0, <1>1, InvParts
       DEF FreezePrevious, Goto, storeVars, StageOK, Early, BaseOK, WantOK,
           Announces
  <2>5. NoDone(r)
    BY <1>0, NotAnnounced
  <2> QED BY <2>1, <2>2, <2>3, <2>4, <2>5, SilentMove DEF FreezePrevious
<1>2. CASE /\ Present(prevId[r])
           /\ FreezeAndGetTurn(prevId[r], "cancelled-for-next-turn")
           /\ base' = [base EXCEPT ![r] = snapshot'[prevId[r]].threads]
           /\ Goto(r, "resolving")
  <2>0. prevId[r] \in Turns /\ prevId[r] # r
    BY <1>0, <1>2 DEF Present
  <2>1. /\ PlainStore /\ status'[prevId[r]] \in Terminal
        /\ snapshot' = snapshot
        /\ status'[r] = "absent"
    <3>1. "cancelled-for-next-turn" \in Reasons
      BY DEF Reasons
    <3>2. /\ PlainStore /\ status'[prevId[r]] \in Terminal
          /\ snapshot' = snapshot
      BY <1>2, <2>0, <3>1, FreezeWrite, InvParts
    <3> QED BY <1>0, <3>2 DEF PlainStore, Plain
  <2>2. ExecTypeOK'
    <3>1. snapshot[prevId[r]].threads \in SUBSET Threads
      BY <2>0, SnapshotParts, InvParts
    <3> QED BY <1>2, <2>1, <3>1, InvParts
            DEF FreezePrevious, Goto, ExecTypeOK, PCs
  <2>3. \A u \in Turns \ {r} : Same(u)
    BY <1>0, <1>2 DEF FreezePrevious, Goto, Same
  <2>4. StageOK(r)'
    BY <1>0, <1>2, <2>1, InvParts DEF FreezePrevious, Goto, StageOK, Early
  <2>5. BaseOK(r)' /\ WantOK(r)'
    BY <1>0, <1>2, <2>0, <2>1, StoreAssumption
       DEF FreezePrevious, Goto, BaseOK, WantOK, Announces
  <2>6. NoDone(r)
    BY <1>0, NotAnnounced
  <2> QED BY <2>1, <2>2, <2>3, <2>4, <2>5, <2>6, SilentMove DEF FreezePrevious
<1> QED BY <1>1, <1>2 DEF FreezePrevious

LEMMA MovePrepare ==
  ASSUME ServerInv, NEW r \in Turns, Prepare(r)
  PROVE  Moves(r)
<1>0. /\ pc[r] = "resolving" /\ pc \in [Turns -> PCs]
      /\ resources \in [Turns -> {"none", "open", "closed"}]
      /\ UNCHANGED storeVars
  BY InvParts DEF Prepare, ExecTypeOK, storeVars
<1>1. PlainStore
  BY <1>0, QuietStore, InvParts
<1>2. ExecTypeOK'
  BY InvParts DEF Prepare, Goto, ExecTypeOK, PCs
<1>3. \A u \in Turns \ {r} : Same(u)
  BY <1>0 DEF Prepare, Goto, Same
<1>4. StageOK(r)' /\ BaseOK(r)' /\ WantOK(r)'
  BY <1>0, InvParts DEF Prepare, Goto, storeVars, StageOK, Early, BaseOK,
                        WantOK, Announces
<1>5. NoDone(r)
  BY <1>0, NotAnnounced
<1> QED BY <1>1, <1>2, <1>3, <1>4, <1>5, SilentMove DEF Prepare

LEMMA MoveCreateTurnFails ==
  ASSUME ServerInv, NEW r \in Turns, CreateTurnFails(r),
         pc[r] \in {"resolving", "committing", "committed"}
  PROVE  Moves(r)
<1>0. /\ pc \in [Turns -> PCs]
      /\ resources \in [Turns -> {"none", "open", "closed"}]
      /\ UNCHANGED storeVars
  BY InvParts DEF CreateTurnFails, ExecTypeOK, storeVars
<1>1. PlainStore
  BY <1>0, QuietStore, InvParts
<1>2. ExecTypeOK'
  BY InvParts DEF CreateTurnFails, Goto, ExecTypeOK, PCs
<1>3. \A u \in Turns \ {r} : Same(u)
  BY <1>0 DEF CreateTurnFails, Goto, Same
<1>4. StageOK(r)' /\ BaseOK(r)' /\ WantOK(r)'
  BY <1>0, InvParts DEF CreateTurnFails, Goto, storeVars, StageOK, Early,
                        BaseOK, WantOK, Announces
<1>5. NoDone(r)
  BY NotAnnounced
<1> QED BY <1>1, <1>2, <1>3, <1>4, <1>5, SilentMove DEF CreateTurnFails

LEMMA MoveCommit ==
  ASSUME ServerInv, NEW r \in Turns, Commit(r)
  PROVE  Moves(r)
<1>0. /\ pc[r] = "committing" /\ pc \in [Turns -> PCs]
      /\ pc' = [pc EXCEPT ![r] = "committed"]
  BY InvParts DEF Commit, Goto, ExecTypeOK
<1>1. Created(r) /\ RowsOK' /\ Shapes
  BY CommitWrite
<1>2. ExecTypeOK'
  BY InvParts DEF Commit, Goto, ExecTypeOK, PCs
<1>3. \A u \in Turns \ {r} : Same(u)
  BY <1>0 DEF Commit, Same
<1>4. StageOK(r)' /\ BaseOK(r)' /\ WantOK(r)'
  BY <1>0, InvParts DEF Commit, StageOK, Early, BaseOK, WantOK, Announces
<1>5. OutOK(r)'
  <2>1. NoDone(r)
    BY <1>0, NotAnnounced
  <2> QED BY <2>1 DEF Commit, NoDone, OutOK
<1> QED BY <1>1, <1>2, <1>3, <1>4, <1>5 DEF Moves, Request

LEMMA MoveTrack ==
  ASSUME ServerInv, NEW r \in Turns, NEW why \in Reasons \cup {NoReason},
         Track(r, why)
  PROVE  Moves(r)
<1>0. /\ pc[r] = "committed" /\ pc \in [Turns -> PCs]
      /\ drain \in [Turns -> {"none", "on", "off"}]
      /\ UNCHANGED storeVars
  BY InvParts DEF Track, ExecTypeOK, storeVars
<1>1. PlainStore
  BY <1>0, QuietStore, InvParts
<1>2. ExecTypeOK'
  BY InvParts DEF Track, Goto, ExecTypeOK, PCs
<1>3. \A u \in Turns \ {r} : Same(u)
  BY <1>0 DEF Track, Goto, Same
<1>4. StageOK(r)' /\ BaseOK(r)' /\ WantOK(r)'
  BY <1>0, InvParts DEF Track, Goto, storeVars, StageOK, Early, BaseOK,
                        WantOK, Announces
<1>5. NoDone(r)
  BY <1>0, NotAnnounced
<1> QED BY <1>1, <1>2, <1>3, <1>4, <1>5, SilentMove DEF Track

LEMMA MoveLeave ==
  ASSUME ServerInv, NEW r \in Turns, NEW how \in Outcomes, Leave(r, how),
         pc[r] \in {"starting", "running", "persisting"}
  PROVE  Moves(r)
<1>0. /\ pc \in [Turns -> PCs]
      /\ UNCHANGED storeVars
  BY InvParts DEF Leave, ExecTypeOK, storeVars
<1>1. PlainStore
  BY <1>0, QuietStore, InvParts
<1>2. ExecTypeOK'
  BY InvParts DEF Leave, Goto, ExecTypeOK, PCs
<1>3. \A u \in Turns \ {r} : Same(u)
  BY <1>0 DEF Leave, Goto, Same
<1>4. StageOK(r)' /\ BaseOK(r)' /\ WantOK(r)'
  BY <1>0, InvParts DEF Leave, Goto, storeVars, StageOK, Early, BaseOK,
                        WantOK, Announces
<1>5. NoDone(r)
  BY NotAnnounced
<1> QED BY <1>1, <1>2, <1>3, <1>4, <1>5, SilentMove DEF Leave

LEMMA MoveAppendTurnCreated ==
  ASSUME ServerInv, NEW r \in Turns, AppendTurnCreated(r)
  PROVE  Moves(r)
<1>0. pc[r] = "starting" /\ pc \in [Turns -> PCs]
  BY InvParts DEF AppendTurnCreated, ExecTypeOK
<1>1. PlainStore
  <2>1. "turn.created" \in EventTypes \ {"turn.done"}
    BY DEF EventTypes
  <2> QED BY <2>1, EventWrite, InvParts DEF AppendTurnCreated
<1>2. ExecTypeOK'
  BY InvParts DEF AppendTurnCreated, Goto, ExecTypeOK, PCs, Yields
<1>3. \A u \in Turns \ {r} : Same(u)
  BY <1>0 DEF AppendTurnCreated, Goto, Same
<1>4. StageOK(r)' /\ BaseOK(r)' /\ WantOK(r)'
  BY <1>0, InvParts DEF AppendTurnCreated, Goto, StageOK, Early, BaseOK,
                        WantOK, Announces
<1>5. NoDone(r)
  BY <1>0, NotAnnounced
<1> QED BY <1>1, <1>2, <1>3, <1>4, <1>5, SilentMove DEF AppendTurnCreated

(* Rows written for execution events are no lifecycle rows. *)
LEMMA EventOfKind ==
  ASSUME NEW k \in Kinds
  PROVE  /\ EventOf(k) \in [type : EventTypes \cup {"delta"}, status : Status]
         /\ EventOf(k).type # "turn.done"
         /\ k # "delta" => \E type \in EventTypes \ {"turn.done"} :
                             EventOf(k) = Event(type)
  BY DEF Kinds, EventOf, Event, EventTypes, Status

LEMMA MovePersistFirst ==
  ASSUME ServerInv, NEW r \in Turns, NEW k \in Kinds, PersistFirst(r, k)
  PROVE  Moves(r)
<1>0. /\ pc[r] = "running" /\ pc \in [Turns -> PCs]
      /\ \E l \in {"yieldEvent", "running", "persisting"} :
           pc' = [pc EXCEPT ![r] = l]
  BY InvParts DEF PersistFirst, Goto, ExecTypeOK
<1>1. PlainStore
  <2>1. CASE UNCHANGED storeVars
    BY <2>1, QuietStore, InvParts
  <2>2. CASE k = "event" /\ AppendToEvents(r, EventOf(k))
    <3>1. PICK type \in EventTypes \ {"turn.done"} : EventOf(k) = Event(type)
      BY <2>2, EventOfKind
    <3> QED BY <2>2, <3>1, EventWrite, InvParts
  <2>3. CASE SnapshotWrite(r, k)
    BY <2>3, FirstWrite, InvParts
  <2> QED BY <2>1, <2>2, <2>3 DEF PersistFirst
<1>2. ExecTypeOK'
  <2>1. pc' \in [Turns -> PCs]
    BY <1>0 DEF PCs, Yields
  <2>2. steps' \in [Turns -> Nat] /\ pend' \in [Turns -> Kinds]
    BY InvParts DEF PersistFirst, ExecTypeOK
  <2> QED BY <2>1, <2>2, InvParts DEF PersistFirst, ExecTypeOK
<1>3. \A u \in Turns \ {r} : Same(u)
  BY <1>0, InvParts DEF PersistFirst, Same, ExecTypeOK
<1>4. pc'[r] = "persisting" => pend'[r] # "delta"
  BY InvParts DEF PersistFirst, Goto, SnapshotWrite, ExecTypeOK
<1>5. StageOK(r)' /\ BaseOK(r)' /\ WantOK(r)'
  BY <1>0, <1>4, InvParts DEF PersistFirst, StageOK, Early, BaseOK, WantOK, Announces
<1>6. NoDone(r)
  BY <1>0, NotAnnounced
<1> QED BY <1>1, <1>2, <1>3, <1>5, <1>6, SilentMove DEF PersistFirst

LEMMA MovePersistSecond ==
  ASSUME ServerInv, NEW r \in Turns, PersistSecond(r)
  PROVE  Moves(r)
<1>0. /\ pc[r] = "persisting" /\ pc \in [Turns -> PCs]
      /\ \E l \in {"yieldEvent", "running"} : pc' = [pc EXCEPT ![r] = l]
      /\ pend[r] \in Kinds /\ pend[r] # "delta"
  BY InvParts DEF PersistSecond, Goto, ExecTypeOK, StageOK
<1>1. PlainStore
  <2>1. PICK type \in EventTypes \ {"turn.done"} : EventOf(pend[r]) = Event(type)
    BY <1>0, EventOfKind
  <2> QED BY <2>1, EventWrite, InvParts DEF PersistSecond
<1>2. ExecTypeOK'
  <2>1. pc' \in [Turns -> PCs]
    BY <1>0 DEF PCs, Yields
  <2> QED BY <2>1, InvParts DEF PersistSecond, ExecTypeOK
<1>3. \A u \in Turns \ {r} : Same(u)
  BY <1>0 DEF PersistSecond, Same
<1>4. StageOK(r)' /\ BaseOK(r)' /\ WantOK(r)'
  BY <1>0, InvParts DEF PersistSecond, StageOK, Early, BaseOK, WantOK, Announces
<1>5. NoDone(r)
  BY <1>0, NotAnnounced
<1> QED BY <1>1, <1>2, <1>3, <1>4, <1>5, SilentMove DEF PersistSecond

(* The store's state of a turn is a state stream() can hold. *)
LEMMA HeldState ==
  ASSUME ServerInv, NEW r \in Turns
  PROVE  /\ StoreState(r) \in [status : Status, reason : Reasons \cup {NoReason}]
         /\ StoreState(r).status = status[r]
  BY InvParts DEF StoreState, StoreTypeOK

LEMMA MoveFrozen ==
  ASSUME ServerInv, NEW r \in Turns, Frozen(r)
  PROVE  Moves(r)
<1>0. /\ pc[r] \in {"running", "persisting"} /\ pc \in [Turns -> PCs]
      /\ want \in [Turns -> [status : Status, reason : Reasons \cup {NoReason}]]
      /\ silent \in [Turns -> BOOLEAN]
      /\ UNCHANGED storeVars
  BY InvParts DEF Frozen, ExecTypeOK, storeVars
<1>1. PlainStore
  BY <1>0, QuietStore, InvParts
<1>2. ExecTypeOK'
  BY InvParts, HeldState DEF Frozen, Goto, ExecTypeOK, PCs, Yields
<1>3. \A u \in Turns \ {r} : Same(u)
  BY <1>0 DEF Frozen, Goto, Same
<1>4. StageOK(r)' /\ BaseOK(r)'
  BY <1>0, InvParts DEF Frozen, Goto, storeVars, StageOK, Early, BaseOK
<1>5. WantOK(r)'
  BY <1>0, HeldState DEF Frozen, Goto, storeVars, WantOK, Announces
<1>6. NoDone(r)
  BY <1>0, NotAnnounced
<1> QED BY <1>1, <1>2, <1>3, <1>4, <1>5, <1>6, SilentMove DEF Frozen

(* The state the finally block computes is a terminal one. *)
LEMMA TerminalStateTyped ==
  ASSUME ServerInv, NEW r \in Turns
  PROVE  /\ TerminalState(r) \in [status : Status, reason : Reasons \cup {NoReason}]
         /\ TerminalState(r).status \in Terminal
<1>1. abort[r] \in Reasons \cup {NoReason} /\ "client-cancelled" \in Reasons
  BY InvParts DEF ExecTypeOK, Reasons
<1> QED BY <1>1 DEF TerminalState, Status, Terminal

LEMMA MoveComputeTerminal ==
  ASSUME ServerInv, NEW r \in Turns, ComputeTerminal(r)
  PROVE  Moves(r)
<1>0. /\ pc[r] = "finishing" /\ pc \in [Turns -> PCs]
      /\ want \in [Turns -> [status : Status, reason : Reasons \cup {NoReason}]]
      /\ UNCHANGED storeVars
  BY InvParts DEF ComputeTerminal, ExecTypeOK, storeVars
<1>1. PlainStore
  BY <1>0, QuietStore, InvParts
<1>2. ExecTypeOK'
  BY InvParts, TerminalStateTyped DEF ComputeTerminal, Goto, ExecTypeOK, PCs
<1>3. \A u \in Turns \ {r} : Same(u)
  BY <1>0 DEF ComputeTerminal, Goto, Same
<1>4. StageOK(r)' /\ BaseOK(r)'
  BY <1>0, InvParts DEF ComputeTerminal, Goto, storeVars, StageOK, Early, BaseOK
<1>5. WantOK(r)'
  BY <1>0, TerminalStateTyped DEF ComputeTerminal, Goto, WantOK, Announces
<1>6. NoDone(r)
  BY <1>0, NotAnnounced
<1> QED BY <1>1, <1>2, <1>3, <1>4, <1>5, <1>6, SilentMove DEF ComputeTerminal

LEMMA MoveWriteTerminal ==
  ASSUME ServerInv, NEW r \in Turns, WriteTerminal(r)
  PROVE  Moves(r)
<1>0. /\ pc[r] = "writing" /\ pc \in [Turns -> PCs]
      /\ pc' = [pc EXCEPT ![r] = "closing"]
      /\ want \in [Turns -> [status : Status, reason : Reasons \cup {NoReason}]]
      /\ silent \in [Turns -> BOOLEAN]
      /\ status \in [Turns -> Status]
      /\ want[r].status \in Terminal
  BY InvParts DEF WriteTerminal, Goto, ExecTypeOK, StoreTypeOK, WantOK
<1>1. NoDone(r)
  BY <1>0, NotAnnounced
<1>2. CASE /\ UpdateTurnTerminalState(r, want[r].status, want[r].reason)
           /\ UNCHANGED <<want, silent>>
  <2>1. PlainStore /\ status' = [status EXCEPT ![r] = want[r].status]
    BY <1>0, <1>2, TerminalWrite, InvParts DEF UpdateTurnTerminalState
  <2>2. ExecTypeOK'
    BY <1>2, InvParts DEF WriteTerminal, Goto, ExecTypeOK, PCs
  <2>3. \A u \in Turns \ {r} : Same(u)
    BY <1>0, <1>2 DEF WriteTerminal, Same
  <2>4. StageOK(r)' /\ BaseOK(r)'
    BY <1>0, InvParts DEF WriteTerminal, StageOK, Early, BaseOK
  <2>5. WantOK(r)'
    BY <1>0, <1>2, <2>1 DEF WantOK, Announces
  <2> QED BY <1>1, <2>1, <2>2, <2>3, <2>4, <2>5, SilentMove DEF WriteTerminal
<1>3. CASE /\ status[r] \in Terminal
           /\ want' = [want EXCEPT ![r] = StoreState(r)]
           /\ UNCHANGED <<storeVars, silent>>
  <2>1. PlainStore
    BY <1>3, QuietStore, InvParts DEF storeVars
  <2>2. ExecTypeOK'
    BY <1>3, InvParts, HeldState DEF WriteTerminal, Goto, ExecTypeOK, PCs
  <2>3. \A u \in Turns \ {r} : Same(u)
    BY <1>0, <1>3 DEF WriteTerminal, Same
  <2>4. StageOK(r)' /\ BaseOK(r)'
    BY <1>0, InvParts DEF WriteTerminal, StageOK, Early, BaseOK
  <2>5. WantOK(r)'
    BY <1>0, <1>3, HeldState DEF storeVars, WantOK, Announces
  <2> QED BY <1>1, <2>1, <2>2, <2>3, <2>4, <2>5, SilentMove DEF WriteTerminal
<1>4. CASE /\ silent' = [silent EXCEPT ![r] = TRUE]
           /\ UNCHANGED <<storeVars, want>>
  <2>1. PlainStore
    BY <1>4, QuietStore, InvParts DEF storeVars
  <2>2. ExecTypeOK'
    BY <1>4, InvParts DEF WriteTerminal, Goto, ExecTypeOK, PCs
  <2>3. \A u \in Turns \ {r} : Same(u)
    BY <1>0, <1>4 DEF WriteTerminal, Same
  <2>4. StageOK(r)' /\ BaseOK(r)'
    BY <1>0, InvParts DEF WriteTerminal, StageOK, Early, BaseOK
  <2>5. WantOK(r)'
    BY <1>0, <1>4 DEF WantOK, Announces
  <2> QED BY <1>1, <2>1, <2>2, <2>3, <2>4, <2>5, SilentMove DEF WriteTerminal
<1> QED BY <1>2, <1>3, <1>4 DEF WriteTerminal

(* A terminal write that fails: nothing is announced. *)
LEMMA MoveTerminalFails ==
  ASSUME ServerInv, NEW r \in Turns, StoreFails(r), pc[r] = "writing"
  PROVE  Moves(r)
<1>0. /\ pc \in [Turns -> PCs]
      /\ pc' = [pc EXCEPT ![r] = "closing"]
      /\ silent \in [Turns -> BOOLEAN]
      /\ silent' = [silent EXCEPT ![r] = TRUE]
      /\ UNCHANGED <<storeVars, mode, prevId, base, abort, outcome, pend, want,
                     resources, drain, tracked, out, steps>>
  BY InvParts DEF StoreFails, Goto, ExecTypeOK
<1>1. PlainStore
  BY <1>0, QuietStore, InvParts DEF storeVars
<1>2. ExecTypeOK'
  BY <1>0, InvParts DEF ExecTypeOK, PCs
<1>3. \A u \in Turns \ {r} : Same(u)
  BY <1>0 DEF Same
<1>4. StageOK(r)' /\ BaseOK(r)' /\ WantOK(r)'
  BY <1>0, InvParts DEF StageOK, Early, BaseOK, WantOK, Announces
<1>5. NoDone(r)
  BY NotAnnounced
<1> QED BY <1>0, <1>1, <1>2, <1>3, <1>4, <1>5, SilentMove

LEMMA MoveClose ==
  ASSUME ServerInv, NEW r \in Turns, Close(r)
  PROVE  Moves(r)
<1>0. /\ pc[r] = "closing" /\ pc \in [Turns -> PCs]
      /\ resources \in [Turns -> {"none", "open", "closed"}]
      /\ resources' = [resources EXCEPT ![r] = "closed"]
      /\ drain \in [Turns -> {"none", "on", "off"}]
      /\ silent \in [Turns -> BOOLEAN]
      /\ UNCHANGED storeVars
      /\ UNCHANGED <<base, prevId, want, silent, pend, out>>
  BY InvParts DEF Close, ExecTypeOK, storeVars
<1>1. PlainStore
  BY <1>0, QuietStore, InvParts
<1>2. CASE silent[r] /\ End(r)
  <2>1. /\ pc' = [pc EXCEPT ![r] = "ended"]
        /\ drain' = [drain EXCEPT ![r] = "off"]
        /\ tracked' = tracked \ {r}
    BY <1>2 DEF End, Goto
  <2>2. ExecTypeOK'
    BY <2>1, InvParts DEF Close, ExecTypeOK, PCs
  <2>3. \A u \in Turns \ {r} : Same(u)
    BY <1>0, <2>1 DEF Same
  <2>4. StageOK(r)' /\ BaseOK(r)' /\ WantOK(r)'
    BY <1>0, <2>1, InvParts
       DEF storeVars, StageOK, Early, BaseOK, WantOK, Announces
  <2>5. OutOK(r)'
    BY <1>0, <2>1, InvParts DEF storeVars, OutOK
  <2> QED BY <1>1, <2>2, <2>3, <2>4, <2>5 DEF Moves, PlainStore, Request
<1>3. CASE /\ ~silent[r]
           /\ Goto(r, IF drain[r] = "on" THEN "yieldDone" ELSE "suspended")
           /\ UNCHANGED <<tracked, drain>>
  <2>1. \E l \in {"yieldDone", "suspended"} : pc' = [pc EXCEPT ![r] = l]
    BY <1>3 DEF Goto
  <2>2. ExecTypeOK'
    <3>1. pc' \in [Turns -> PCs]
      BY <1>0, <2>1 DEF PCs, Yields
    <3> QED BY <1>3, <3>1, InvParts DEF Close, ExecTypeOK
  <2>3. \A u \in Turns \ {r} : Same(u)
    BY <1>0, <1>3, <2>1 DEF Same
  <2>4. StageOK(r)' /\ BaseOK(r)'
    BY <1>0, <1>3, <2>1, InvParts DEF storeVars, StageOK, Early, BaseOK
  <2>5. WantOK(r)'
    BY <1>0, <1>3, <2>1, InvParts DEF storeVars, WantOK, Announces
  <2>6. NoDone(r)
    BY <1>0, <1>3, NotAnnounced
  <2> QED BY <1>0, <1>1, <2>2, <2>3, <2>4, <2>5, <2>6, SilentMove
<1> QED BY <1>2, <1>3 DEF Close

(* A turn.done appended to a stream that had none is its only one. *)
LEMMA AppendDone ==
  ASSUME NEW S, NEW q \in Seq(S), NEW e,
         \A i \in 1..Len(q) : q[i].type # "turn.done"
  PROVE  \A i \in 1..Len(Append(q, e)) :
           Append(q, e)[i].type = "turn.done" =>
             i = Len(Append(q, e)) /\ Append(q, e)[i] = e
<1>1. /\ Len(q) \in Nat
      /\ Len(Append(q, e)) = Len(q) + 1
      /\ Append(q, e)[Len(q) + 1] = e
      /\ \A i \in 1..Len(q) : Append(q, e)[i] = q[i]
  BY AppendFacts
<1> QED BY <1>1

LEMMA MoveDrain ==
  ASSUME ServerInv, NEW r \in Turns, Drain(r)
  PROVE  Moves(r)
<1> DEFINE Out == [type : EventTypes \cup {"delta"}, status : Status]
<1>0. /\ pc[r] \in Yields /\ pc \in [Turns -> PCs]
      /\ drain \in [Turns -> {"none", "on", "off"}] /\ drain[r] = "on"
      /\ out \in [Turns -> Seq(Out)] /\ out[r] \in Seq(Out)
      /\ out' = [out EXCEPT ![r] = Append(out[r], Handed(r))]
      /\ UNCHANGED storeVars
      /\ UNCHANGED <<base, prevId, want, silent, pend, resources>>
      /\ want[r].status \in Status
  BY InvParts DEF Drain, ExecTypeOK, storeVars
<1>1. PlainStore
  BY <1>0, QuietStore, InvParts
<1>2. NoDone(r)
  BY <1>0, NotAnnounced DEF Yields
<1>3. /\ Handed(r) \in Out
      /\ pc[r] \in {"yieldCreated", "yieldEvent"} => Handed(r).type # "turn.done"
      /\ pc[r] \in {"yieldFrozen", "yieldDone"} =>
           Handed(r).status = want[r].status
  <2>1. pend[r] \in Kinds
    BY InvParts DEF ExecTypeOK
  <2>2. /\ EventOf(pend[r]) \in Out /\ EventOf(pend[r]).type # "turn.done"
    BY <2>1, EventOfKind
  <2>3. /\ Event("turn.created") \in Out
        /\ Event("turn.created").type # "turn.done"
        /\ TurnDone(want[r].status) \in Out
        /\ TurnDone(want[r].status).status = want[r].status
    BY <1>0 DEF Event, TurnDone, EventTypes, Status
  <2> HIDE DEF Out
  <2> QED BY <2>2, <2>3 DEF Handed
<1>4. \A i \in 1..Len(out'[r]) : out'[r][i].type = "turn.done" =>
        i = Len(out'[r]) /\ out'[r][i] = Handed(r)
  BY <1>0, <1>2, AppendDone DEF NoDone
<1>5. out' \in [Turns -> Seq(Out)]
  BY <1>0, <1>3, AppendType
<1>6. CASE /\ pc[r] \in {"yieldCreated", "yieldEvent"}
           /\ Goto(r, "running") /\ UNCHANGED <<tracked, drain>>
  <2>1. ExecTypeOK'
    BY <1>5, <1>6, InvParts DEF Drain, Goto, ExecTypeOK, PCs
  <2>2. \A u \in Turns \ {r} : Same(u)
    BY <1>0, <1>6 DEF Goto, Same
  <2>3. StageOK(r)' /\ BaseOK(r)' /\ WantOK(r)'
    BY <1>0, <1>6, InvParts
       DEF Goto, storeVars, StageOK, Early, BaseOK, WantOK, Announces
  <2>4. OutOK(r)'
    <3>1. NoDone(r)'
      BY <1>3, <1>4, <1>6 DEF NoDone
    <3> QED BY <3>1 DEF NoDone, OutOK
  <2> QED BY <1>1, <2>1, <2>2, <2>3, <2>4 DEF Moves, PlainStore, Request
<1>7. CASE /\ pc[r] = "yieldFrozen"
           /\ Goto(r, "closing") /\ UNCHANGED <<tracked, drain>>
  <2>1. ExecTypeOK'
    BY <1>5, <1>7, InvParts DEF Drain, Goto, ExecTypeOK, PCs
  <2>2. \A u \in Turns \ {r} : Same(u)
    BY <1>0, <1>7 DEF Goto, Same
  <2>3. StageOK(r)' /\ BaseOK(r)' /\ WantOK(r)'
    BY <1>0, <1>7, InvParts
       DEF Goto, storeVars, StageOK, Early, BaseOK, WantOK, Announces
  <2>4. /\ silent'[r] /\ pc'[r] = "closing"
        /\ Handed(r).status \in Terminal
        /\ alive' => status'[r] = Handed(r).status
    BY <1>0, <1>3, <1>7, InvParts DEF Goto, storeVars, WantOK, Announces
  <2>5. OutOK(r)'
    BY <1>4, <2>4 DEF OutOK
  <2> QED BY <1>1, <2>1, <2>2, <2>3, <2>5 DEF Moves, PlainStore, Request
<1>8. CASE pc[r] = "yieldDone" /\ End(r)
  <2>0. /\ pc' = [pc EXCEPT ![r] = "ended"]
        /\ drain' = [drain EXCEPT ![r] = "off"]
        /\ tracked' = tracked \ {r}
    BY <1>8 DEF End, Goto
  <2>1. ExecTypeOK'
    BY <1>5, <2>0, InvParts DEF Drain, ExecTypeOK, PCs
  <2>2. \A u \in Turns \ {r} : Same(u)
    BY <1>0, <2>0 DEF Same
  <2>3. StageOK(r)' /\ BaseOK(r)' /\ WantOK(r)'
    BY <1>0, <1>8, <2>0, InvParts
       DEF storeVars, StageOK, Early, BaseOK, WantOK, Announces
  <2>4. /\ pc'[r] = "ended"
        /\ Handed(r).status \in Terminal
        /\ alive' => status'[r] = Handed(r).status
    BY <1>0, <1>3, <1>8, <2>0, InvParts DEF storeVars, WantOK, Announces
  <2>5. OutOK(r)'
    BY <1>4, <2>4 DEF OutOK
  <2> QED BY <1>1, <2>1, <2>2, <2>3, <2>5 DEF Moves, PlainStore, Request
<1> QED BY <1>6, <1>7, <1>8 DEF Drain

(* A dual write that fails hands nothing over. *)
LEMMA MoveDrainFails ==
  ASSUME ServerInv, NEW r \in Turns, DrainFails(r)
  PROVE  Moves(r)
<1>0. /\ pc[r] \in Yields /\ pc \in [Turns -> PCs]
      /\ drain \in [Turns -> {"none", "on", "off"}] /\ drain[r] = "on"
      /\ drain' = [drain EXCEPT ![r] = "off"]
      /\ UNCHANGED storeVars
      /\ UNCHANGED <<base, prevId, want, silent, pend, resources, out>>
      /\ \/ pc[r] \in {"yieldCreated", "yieldEvent"}
              /\ pc' = [pc EXCEPT ![r] = "finishing"]
         \/ pc[r] = "yieldFrozen" /\ pc' = [pc EXCEPT ![r] = "closing"]
         \/ pc[r] = "yieldDone" /\ pc' = [pc EXCEPT ![r] = "ended"]
  BY InvParts DEF DrainFails, ExecTypeOK, storeVars, End, Goto
<1>1. PlainStore
  BY <1>0, QuietStore, InvParts
<1>2. NoDone(r)
  BY <1>0, NotAnnounced DEF Yields
<1>3. ExecTypeOK'
  <2>1. pc' \in [Turns -> PCs] /\ drain' \in [Turns -> {"none", "on", "off"}]
    BY <1>0 DEF PCs
  <2>2. tracked' \subseteq Turns
    BY InvParts DEF DrainFails, End, ExecTypeOK
  <2> QED BY <2>1, <2>2, InvParts DEF DrainFails, ExecTypeOK
<1>4. \A u \in Turns \ {r} : Same(u)
  BY <1>0 DEF Same
<1>5. StageOK(r)' /\ BaseOK(r)' /\ WantOK(r)'
  BY <1>0, InvParts DEF storeVars, StageOK, Early, BaseOK, WantOK, Announces
<1> QED BY <1>0, <1>1, <1>2, <1>3, <1>4, <1>5, SilentMove
-----------------------------------------------------------------------------
(* The steps that move request r. *)
RequestActs(r) ==
  \/ TrackRun(r) \/ RequestStep(r) \/ RequestFails(r)
  \/ ProduceEvent(r) \/ FinishRun(r) \/ WriteFault(r)
  \/ \E e \in Executors : StartRequest(r, e)

LEMMA RequestMoves ==
  ASSUME ServerInv, NEW r \in Turns, RequestActs(r)
  PROVE  Moves(r)
<1>1. CASE TrackRun(r)
  <2>1. /\ "abandoned" \in Reasons
        /\ Track(r, IF phase[home[r]] = "up" THEN NoReason ELSE "abandoned")
    BY <1>1 DEF TrackRun, Reasons
  <2> QED BY <2>1, MoveTrack
<1>2. ASSUME NEW how \in Outcomes, Leave(r, how),
             pc[r] \in {"starting", "running", "persisting"}
      PROVE  Moves(r)
  BY <1>2, MoveLeave
<1>3. "error" \in Outcomes /\ "result" \in Outcomes
  BY DEF Outcomes
<1>4. CASE RequestStep(r)
  <2>1. CASE CommitFails(r)
    BY <2>1, MoveCreateTurnFails DEF CommitFails
  <2>2. CASE AppendTurnCreatedFails(r)
    BY <2>2, <1>2, <1>3 DEF AppendTurnCreatedFails
  <2>3. CASE pc[r] = "persisting" /\ (Frozen(r) \/ PersistFails(r))
    BY <2>3, <1>2, <1>3, MoveFrozen DEF PersistFails
  <2> QED BY <1>4, <2>1, <2>2, <2>3, MoveFreezePrevious, MovePrepare, MoveCommit,
             MoveAppendTurnCreated, MovePersistSecond, MoveComputeTerminal,
             MoveWriteTerminal, MoveClose, MoveDrain DEF RequestStep, Progress
<1>5. CASE RequestFails(r)
  BY <1>5, MoveCreateTurnFails DEF RequestFails, PrepareFails
<1>6. CASE ProduceEvent(r)
  <2>1. CASE \E k \in EventKinds : PersistFirst(r, k)
    BY <2>1, MovePersistFirst, ServerAssumption
  <2>2. CASE Interrupted(r)
    BY <2>2, <1>2, <1>3, MoveFrozen DEF Interrupted, PersistFails
  <2> QED BY <1>6, <2>1, <2>2 DEF ProduceEvent
<1>7. CASE FinishRun(r)
  BY <1>7, <1>2, <1>3 DEF FinishRun, Finish
<1>8. CASE WriteFault(r)
  <2>1. CASE DrainFails(r)
    BY <2>1, MoveDrainFails
  <2>2. CASE pc[r] \in {"committing", "committed"} /\ CreateTurnFails(r)
    BY <2>2, MoveCreateTurnFails
  <2>3. CASE pc[r] \in {"starting", "running", "persisting"} /\ Leave(r, "error")
    BY <2>3, <1>2, <1>3
  <2>4. CASE StoreFails(r) /\ pc[r] = "writing"
    BY <2>4, MoveTerminalFails
  <2> QED BY <1>8, <2>1, <2>2, <2>3, <2>4 DEF WriteFault, StoreFails
<1>9. CASE \E e \in Executors : StartRequest(r, e)
  BY <1>9, MoveBegin DEF StartRequest
<1> QED BY <1>1, <1>4, <1>5, <1>6, <1>7, <1>8, <1>9 DEF RequestActs

(* The steps that move no request. *)
OtherActs ==
  \/ \E r \in Turns : Timeout(r) \/ Disconnect(r)
  \/ DeleteHandler
  \/ \E c \in Cancels : \/ \E e \in Executors : CancelLoad(c, e)
                        \/ CancelCheck(c) \/ PeerHandle(c)
                        \/ CancelReply(c) \/ CancelFreeze(c)
  \/ \E e \in Executors : \/ ShutdownStart(e) \/ ShutdownDrained(e)
                          \/ ShutdownExit(e) \/ Kill(e)
  \/ UNCHANGED vars

LEMMA NextCases ==
  ASSUME [Next]_vars
  PROVE  (\E r \in Turns : RequestActs(r)) \/ OtherActs
  BY DEF Next, RequestActs, OtherActs

Rests == PlainStore /\ ExecTypeOK' /\ \A u \in Turns : Same(u)

LEMMA QuietRests ==
  ASSUME ServerInv, PlainStore, UNCHANGED execVars
  PROVE  Rests
<1>1. ExecTypeOK
  BY DEF ServerInv, TypeOK
<1>2. ExecTypeOK'
  BY <1>1 DEF ExecTypeOK, execVars
<1> QED BY <1>2 DEF Rests, Same, execVars

(* An abort changes signals only, and clears none. *)
LEMMA AbortRests ==
  ASSUME ServerInv, NEW rs, NEW why \in Reasons, AbortOnly(rs, why)
  PROVE  /\ Rests /\ UNCHANGED storeVars
         /\ \A u \in Turns : abort[u] # NoReason \/ u \in rs => abort'[u] # NoReason
<1>0. ExecTypeOK /\ RowsOK
  BY DEF ServerInv, TypeOK
<1>1. /\ UNCHANGED storeVars
      /\ UNCHANGED <<pc, mode, prevId, base, outcome, pend, want,
                     silent, resources, drain, tracked, out, steps>>
      /\ abort' = [r \in Turns |-> IF r \in rs /\ abort[r] = NoReason
                                   THEN why ELSE abort[r]]
  BY DEF AbortOnly, AbortAll, storeVars
<1>2. PlainStore
  BY <1>0, <1>1, QuietStore
<1>3. why # NoReason
  BY DEF Reasons, NoReason
<1>4. abort' \in [Turns -> Reasons \cup {NoReason}]
  BY <1>0, <1>1 DEF ExecTypeOK
<1>5. ExecTypeOK'
  BY <1>0, <1>1, <1>4 DEF ExecTypeOK
<1>6. \A u \in Turns : Same(u)
  BY <1>1 DEF Same
<1> QED BY <1>1, <1>2, <1>3, <1>5, <1>6 DEF Rests

LEMMA OtherRests ==
  ASSUME ServerInv, OtherActs
  PROVE  Rests
<1>0. /\ {"server-execution-timeout", "client-cancelled", "abandoned"}
            \subseteq Reasons
      /\ StoreTypeOK /\ RowsOK
  BY DEF Reasons, ServerInv, TypeOK
<1>1. ASSUME UNCHANGED <<storeVars, execVars>> PROVE Rests
  <2>1. PlainStore
    BY <1>0, <1>1, QuietStore
  <2> QED BY <1>1, <2>1, QuietRests
<1>2. ASSUME NEW r \in Turns, Timeout(r) \/ Disconnect(r) PROVE Rests
  BY <1>0, <1>1, <1>2, AbortRests DEF Timeout, Disconnect
<1>3. ASSUME DeleteHandler PROVE Rests
  BY <1>0, <1>3, DeleteWrite, QuietRests DEF DeleteHandler
<1>4. ASSUME NEW c \in Cancels,
             \/ \E e \in Executors : CancelLoad(c, e)
             \/ CancelCheck(c) \/ PeerHandle(c) \/ CancelReply(c)
      PROVE Rests
  BY <1>0, <1>1, <1>4, AbortRests
     DEF CancelLoad, CancelCheck, PeerHandle, CancelReply
<1>5. ASSUME NEW c \in Cancels, CancelFreeze(c) PROVE Rests
  <2>1. CASE ~Present(target[c])
    BY <1>1, <1>5, <2>1 DEF CancelFreeze
  <2>2. CASE Present(target[c])
    <3>1. target[c] \in Turns
      BY <2>2 DEF Present, ServerInv, TypeOK
    <3>2. PlainStore
      BY <1>0, <1>5, <2>2, <3>1, FreezeWrite DEF CancelFreeze
    <3> QED BY <1>5, <3>2, QuietRests DEF CancelFreeze
  <2> QED BY <2>1, <2>2
<1>6. ASSUME NEW e \in Executors,
             \/ ShutdownStart(e) \/ ShutdownDrained(e)
             \/ ShutdownExit(e) \/ Kill(e)
      PROVE Rests
  BY <1>0, <1>1, <1>6, AbortRests
     DEF ShutdownStart, ShutdownDrained, ShutdownExit, Kill
<1>7. ASSUME UNCHANGED vars PROVE Rests
  BY <1>1, <1>7 DEF vars
<1> QED BY <1>2, <1>3, <1>4, <1>5, <1>6, <1>7 DEF OtherActs

(* The server's own state stays typed. *)
ServerTypes ==
  /\ home \in [Turns -> Executors]
  /\ phase \in [Executors -> Phases]
  /\ gone \in [Turns -> BOOLEAN]
  /\ cpc \in [Cancels -> {"idle", "loaded", "asked", "freezing", "done"}]
  /\ target \in [Cancels -> Turns \cup {NoTurn}]
  /\ asker \in [Cancels -> Executors]
  /\ peer \in [Cancels -> {"none", "sent", "200", "412"}]
  /\ faults \in Nat

LEMMA ServerTypesStep ==
  ASSUME TypeOK, [Next]_vars
  PROVE  ServerTypes'
<1>0. ServerTypes
  BY DEF TypeOK, ServerTypes
<1>1. ASSUME NEW r \in Turns, RequestActs(r) PROVE ServerTypes'
  <2>1. CASE \E e \in Executors : StartRequest(r, e)
    BY <1>0, <2>1 DEF StartRequest, ServerTypes
  <2>2. CASE WriteFault(r)
    BY <1>0, <2>2 DEF WriteFault, Fault, ServerTypes
  <2>3. CASE UNCHANGED serverVars
    BY <1>0, <2>3 DEF serverVars, ServerTypes
  <2> QED BY <1>1, <2>1, <2>2, <2>3
          DEF RequestActs, TrackRun, RequestStep, RequestFails, ProduceEvent,
              FinishRun
<1>2. ASSUME NEW r \in Turns, Timeout(r) \/ Disconnect(r) PROVE ServerTypes'
  BY <1>0, <1>2 DEF Timeout, Disconnect, serverVars, ServerTypes
<1>3. ASSUME DeleteHandler \/ UNCHANGED vars PROVE ServerTypes'
  BY <1>0, <1>3 DEF DeleteHandler, vars, serverVars, ServerTypes
<1>4. ASSUME NEW c \in Cancels, NEW e \in Executors, CancelLoad(c, e)
      PROVE  ServerTypes'
  <2>1. lastTurn.id \in Turns \cup {NoTurn}
    BY DEF TypeOK, StoreTypeOK
  <2> QED BY <1>0, <1>4, <2>1 DEF CancelLoad, ServerTypes
<1>5. ASSUME NEW c \in Cancels, CancelCheck(c) PROVE ServerTypes'
  <2>1. /\ cpc' \in [Cancels -> {"idle", "loaded", "asked", "freezing", "done"}]
        /\ peer' \in [Cancels -> {"none", "sent", "200", "412"}]
    BY <1>0, <1>5 DEF CancelCheck, ServerTypes
  <2> QED BY <1>0, <1>5, <2>1 DEF CancelCheck, ServerTypes
<1>6. ASSUME NEW c \in Cancels, PeerHandle(c) \/ CancelReply(c) \/ CancelFreeze(c)
      PROVE  ServerTypes'
  BY <1>0, <1>6 DEF PeerHandle, CancelReply, CancelFreeze, ServerTypes
<1>7. ASSUME NEW e \in Executors,
             \/ ShutdownStart(e) \/ ShutdownDrained(e) \/ ShutdownExit(e)
      PROVE  ServerTypes'
  BY <1>0, <1>7 DEF ShutdownStart, ShutdownDrained, ShutdownExit, SetPhase,
                    ServerTypes, Phases
<1>8. ASSUME NEW e \in Executors, Kill(e) PROVE ServerTypes'
  BY <1>0, <1>8 DEF Kill, Fault, ServerTypes, Phases
<1> QED BY <1>1, <1>2, <1>3, <1>4, <1>5, <1>6, <1>7, <1>8, NextCases DEF OtherActs
-----------------------------------------------------------------------------
(* A server that has just started satisfies the invariant. *)
LEMMA ServerInvInit == Init => ServerInv
<1> SUFFICES ASSUME Init PROVE ServerInv
  OBVIOUS
<1>1. StoreTypeOK
  BY TypeInit DEF Init
<1>2. ExecTypeOK
  BY DEF Init, ExecInit, ExecTypeOK, PCs, Outcomes, Kinds, NoState, Status
<1>3. TypeOK
  BY <1>1, <1>2 DEF Init, TypeOK, Phases
<1>4. RowsOK
  BY DEF Init, StoreInit, RowsOK
<1>5. \A u \in Turns : Request(u)
  BY DEF Init, StoreInit, ExecInit, Request, StageOK, Early, BaseOK, WantOK,
         Announces, OutOK
<1> QED BY <1>3, <1>4, <1>5 DEF ServerInv

(* Every step preserves it: one request moves, the others stand by. *)
LEMMA ServerInvStep == ServerInv /\ [Next]_vars => ServerInv'
<1> SUFFICES ASSUME ServerInv, [Next]_vars PROVE ServerInv'
  OBVIOUS
<1>0. TypeOK /\ StoreTypeOK
  BY DEF ServerInv, TypeOK
<1>1. ServerTypes'
  BY <1>0, ServerTypesStep
<1>2. ASSUME Shapes, ExecTypeOK' PROVE TypeOK'
  BY <1>0, <1>1, <1>2, ShapesTyped DEF TypeOK, ServerTypes
<1>3. ASSUME NEW r \in Turns, RequestActs(r) PROVE ServerInv'
  <2>1. Moves(r)
    BY <1>3, RequestMoves
  <2>2. ASSUME NEW u \in Turns \ {r} PROVE Request(u)'
    <3>1. Request(u) /\ Same(u) /\ (Plain \/ \E v \in Turns \ {u} : Created(v))
      BY <2>1 DEF Moves, ServerInv
    <3> QED BY <1>0, <3>1, Bystander
  <2> QED BY <1>2, <2>1, <2>2 DEF Moves, ServerInv
<1>4. ASSUME OtherActs PROVE ServerInv'
  <2>1. Rests
    BY <1>4, OtherRests
  <2>2. ASSUME NEW u \in Turns PROVE Request(u)'
    <3>1. Request(u) /\ Same(u) /\ Plain
      BY <2>1 DEF Rests, PlainStore, ServerInv
    <3> QED BY <1>0, <3>1, Bystander
  <2> QED BY <1>2, <2>1, <2>2 DEF Rests, PlainStore, ServerInv
<1> QED BY <1>3, <1>4, NextCases

(* The state of the store, of every request, replica and cancel stays well *)
(* formed, and every request relies only on what holds: the inductive      *)
(* invariant of the server.                                                *)
THEOREM ServerInvariant == Spec => []ServerInv
  BY ServerInvInit, ServerInvStep, PTL DEF Spec

(* The type invariant, with every interleaving and fault of the model. *)
THEOREM ServerTypeCorrect == Spec => []TypeOK
  BY ServerInvariant, PTL DEF ServerInv

(* Whatever interrupts a request (a failed createTurn, a lost race with a  *)
(* freeze, a failed write), the resolver it opened is closed when the      *)
(* request is over, and never while the turn can still write.              *)
THEOREM ResolverClosed == Spec => []ResourcesReleased
<1>1. ServerInv => ResourcesReleased
  <2> SUFFICES ASSUME ServerInv, NEW r \in Turns
               PROVE  /\ pc[r] \in {"failed", "ended", "suspended", "yieldDone"} =>
                           resources[r] # "open"
                      /\ resources[r] = "closed" =>
                           pc[r] \in {"failed", "ended", "suspended", "yieldDone"}
    BY DEF ResourcesReleased
  <2> QED BY InvParts DEF StageOK
<1> QED BY <1>1, ServerInvariant, PTL

(* TurnHandle.stream announces the state the store holds, as the last      *)
(* event, also when another process froze the turn between any two of its  *)
(* writes.                                                                 *)
THEOREM StreamTruthful == Spec => []StreamTellsTheTruth
<1>1. ServerInv => StreamTellsTheTruth
  BY InvParts DEF StreamTellsTheTruth, OutOK
<1> QED BY <1>1, ServerInvariant, PTL

(* createTurn's commit is rejected only because the session was deleted:   *)
(* the previous turn it froze is still terminal and its threads have not   *)
(* moved, however long the preparation in between took.                    *)
THEOREM CommitAccepted == Spec => []CommitNeverRejected
<1>1. ServerInv => CommitNeverRejected
  <2> SUFFICES ASSUME ServerInv, NEW r \in Turns, pc[r] = "committing", alive
               PROVE  /\ AgentThreads(r) # {}
                      /\ \A th \in AgentThreads(r) : Accepted(r, th)
    BY DEF CommitNeverRejected
  <2>0. /\ status[r] = "absent" /\ prevId[r] \in Turns \cup {NoTurn}
        /\ prevId[r] = NoTurn => base[r] = {}
        /\ prevId[r] # NoTurn => /\ status[prevId[r]] \in Terminal
                                 /\ base[r] = snapshot[prevId[r]].threads
    BY InvParts DEF StageOK, Early, BaseOK, ExecTypeOK
  <2>1. CASE prevId[r] = NoTurn
    <3>1. Known(prevId[r]) = {} /\ NewThreads(r) = {MainThread}
      BY <2>1 DEF Known, Present, NewThreads
    <3>2. AgentThreads(r) = {MainThread}
      BY <2>0, <2>1, <3>1 DEF AgentThreads
    <3> QED BY <2>0, <2>1, <3>1, <3>2
            DEF Accepted, CanCreateTurn, Present, NonTerminal
  <2>2. CASE prevId[r] # NoTurn
    <3>1. Present(prevId[r]) /\ ~NonTerminal(prevId[r])
      BY <2>0, <2>2, StatusFacts DEF Present, NonTerminal
    <3>2. Known(prevId[r]) = base[r] /\ NewThreads(r) = {}
      BY <2>0, <2>2, <3>1 DEF Known, NewThreads
    <3>3. AgentThreads(r) = base[r]
      BY <3>2 DEF AgentThreads
    <3>4. MainThread \in base[r]
      BY <2>0, <2>2, <3>1, InvParts DEF RowsOK, Present
    <3> QED BY <2>0, <3>1, <3>2, <3>3, <3>4
            DEF Accepted, CanCreateTurn, Present
  <2> QED BY <2>1, <2>2
<1> QED BY <1>1, ServerInvariant, PTL

-----------------------------------------------------------------------------
(* The server is one of the clients the store was proved for: each of its  *)
(* steps has one of the shapes.                                            *)
LEMMA StepsAreStoreSteps ==
  ASSUME ServerInv, [Next]_vars
  PROVE  Shapes
<1>1. ASSUME NEW r \in Turns, RequestActs(r) PROVE Shapes
  BY <1>1, RequestMoves DEF Moves
<1>2. ASSUME OtherActs PROVE Shapes
  BY <1>2, OtherRests DEF Rests, PlainStore
<1> QED BY <1>1, <1>2, NextCases

(* Composition: whatever replicas, cancels, shutdowns and faults do, the   *)
(* store keeps its own invariant (sealed logs, metrics folded once, a tip  *)
(* that agrees, sealed parents, isolated branches) and counts its turns.   *)
THEOREM StoreKept == Spec => [](StoreInv /\ TurnsCounted)
<1>1. Init => StoreInv /\ CountInv
  BY StoreInvInit, CountInit DEF Init
<1>2. ServerInv /\ StoreInv /\ CountInv /\ [Next]_vars => StoreInv' /\ CountInv'
  BY StepsAreStoreSteps, ShapesKeepStoreInv, ShapesKeepCount DEF StoreInv
<1>3. CountInv => TurnsCounted
  BY DEF CountInv
<1> QED BY <1>1, <1>2, <1>3, ServerInvariant, PTL DEF Spec

(* First terminal write wins, in the composed system: no executor, cancel  *)
(* or freeze changes anything of a turn that has ended.                    *)
THEOREM ServerTerminalIsFinal == Spec => TerminalIsFinal
<1>1. ServerInv /\ [Next]_vars =>
        [\A t \in Turns : status[t] \in Terminal /\ alive' =>
           UNCHANGED <<status[t], reason[t], previous[t], snapshot[t],
                       log[t], folds[t]>>]_storeVars
  BY StepsAreStoreSteps, TerminalStep DEF ServerInv, TypeOK
<1> QED BY <1>1, ServerInvariant, PTL DEF Spec, TerminalIsFinal
-----------------------------------------------------------------------------
(* Cancels.  A signal is never cleared, and a turn that does not run (or   *)
(* is aborted) does not start to run unaborted: only a commit starts a     *)
(* turn, and a cancel never names a turn that has no row yet.              *)
SignalsStay == \A u \in Turns : abort[u] # NoReason => abort'[u] # NoReason

LEMMA RequestsLeaveCancels ==
  ASSUME ServerInv, NEW r \in Turns, RequestActs(r)
  PROVE  UNCHANGED <<cpc, target, peer>> /\ SignalsStay
<1>0. abort \in [Turns -> Reasons \cup {NoReason}]
  BY DEF ServerInv, TypeOK, ExecTypeOK
<1>1. UNCHANGED <<cpc, target, peer>>
  BY DEF RequestActs, TrackRun, RequestStep, RequestFails, ProduceEvent,
         FinishRun, WriteFault, StartRequest, serverVars
<1>2. CASE TrackRun(r)
  <2>1. \E why : abort' = [abort EXCEPT ![r] =
                             IF abort[r] = NoReason THEN why ELSE abort[r]]
    BY <1>2 DEF TrackRun, Track
  <2> QED BY <1>0, <1>1, <2>1 DEF SignalsStay
<1>3. CASE RequestStep(r) \/ RequestFails(r)
  <2>1. abort' = abort
    BY <1>3 DEF RequestStep, RequestFails, Progress, FreezePrevious, Prepare,
       Commit, CommitFails, AppendTurnCreated, AppendTurnCreatedFails, Leave,
       PersistSecond, Frozen, PersistFails, ComputeTerminal, WriteTerminal,
       Close, Drain, PrepareFails, CreateTurnFails
  <2> QED BY <1>1, <2>1 DEF SignalsStay
<1>4. CASE \/ ProduceEvent(r) \/ FinishRun(r) \/ WriteFault(r)
           \/ \E e \in Executors : StartRequest(r, e)
  <2>1. abort' = abort
    BY <1>4 DEF ProduceEvent, FinishRun, WriteFault, StartRequest, Begin,
       PersistFirst, Interrupted, Frozen, PersistFails, Leave, Finish,
       StoreFails, DrainFails, CreateTurnFails
  <2> QED BY <1>1, <2>1 DEF SignalsStay
<1> QED BY <1>2, <1>3, <1>4 DEF RequestActs

(* What a cancel relies on about its turn survives every step. *)
LEMMA HeldStays ==
  ASSUME ServerInv, NEW t \in Turns, SignalsStay,
         Plain \/ \E r \in Turns : Created(r),
         alive => status[t] # "absent"
  PROVE  /\ alive' => status'[t] # "absent"
         /\ Held(t) => Held(t)'
<1>0. status \in [Turns -> Status]
  BY DEF ServerInv, TypeOK, StoreTypeOK
<1>1. CASE Plain
  BY <1>1 DEF Plain, Held, SignalsStay
<1>2. CASE \E r \in Turns : Created(r)
  BY <1>0, <1>2 DEF Created, Held, SignalsStay
<1> QED BY <1>1, <1>2

LEMMA CancelBystander ==
  ASSUME ServerInv, NEW c \in Cancels, CancelOK(c), SignalsStay,
         Plain \/ \E r \in Turns : Created(r),
         cpc'[c] = cpc[c], target'[c] = target[c], peer'[c] = peer[c]
  PROVE  CancelOK(c)'
<1>1. CASE cpc[c] # "idle"
  <2> DEFINE t == target[c]
  <2>0. target'[c] = t
    OBVIOUS
  <2>1. t \in Turns /\ (alive => status[t] # "absent")
    BY <1>1 DEF CancelOK
  <2>2. /\ alive' => status'[t] # "absent"
        /\ Held(t) => status'[t] # "running" \/ abort'[t] # NoReason
    <3> HIDE DEF t
    <3> QED BY <2>1, HeldStays DEF Held
  <2>3. cpc[c] = "done" \/ peer[c] = "200" => Held(t)
    BY DEF CancelOK
  <2> HIDE DEF t
  <2> QED BY <2>0, <2>1, <2>2, <2>3 DEF CancelOK, Held
<1>2. CASE cpc[c] = "idle"
  BY <1>2 DEF CancelOK
<1> QED BY <1>1, <1>2

LEMMA CancelStep == ServerInv /\ CancelInv /\ [Next]_vars => CancelInv'
<1> SUFFICES ASSUME ServerInv, CancelInv, [Next]_vars, NEW d \in Cancels
             PROVE  CancelOK(d)'
  BY DEF CancelInv
<1>0. /\ CancelOK(d)
      /\ cpc \in [Cancels -> {"idle", "loaded", "asked", "freezing", "done"}]
      /\ target \in [Cancels -> Turns \cup {NoTurn}]
      /\ peer \in [Cancels -> {"none", "sent", "200", "412"}]
      /\ lastTurn.id \in Turns \cup {NoTurn}
      /\ "client-cancelled" \in Reasons
  BY DEF CancelInv, ServerInv, TypeOK, StoreTypeOK, Reasons
<1>1. ASSUME NEW r \in Turns, RequestActs(r) PROVE CancelOK(d)'
  <2>1. Moves(r)
    BY <1>1, RequestMoves
  <2>2. UNCHANGED <<cpc, target, peer>> /\ SignalsStay
    BY <1>1, RequestsLeaveCancels
  <2> QED BY <1>0, <2>1, <2>2, CancelBystander DEF Moves
<1>2. ASSUME OtherActs PROVE Plain
  BY <1>2, OtherRests DEF Rests, PlainStore
<1>3. ASSUME Plain, UNCHANGED <<cpc, target, peer>>, SignalsStay
      PROVE  CancelOK(d)'
  BY <1>0, <1>3, CancelBystander
<1>4. ASSUME UNCHANGED execVars PROVE SignalsStay
  BY <1>4 DEF execVars, SignalsStay
<1>5. ASSUME NEW rs, NEW why \in Reasons, AbortOnly(rs, why) PROVE SignalsStay
  BY <1>5, AbortRests DEF SignalsStay
<1>6. ASSUME NEW r \in Turns, Timeout(r) \/ Disconnect(r) PROVE CancelOK(d)'
  <2>1. UNCHANGED <<cpc, target, peer>>
    BY <1>6 DEF Timeout, Disconnect, serverVars
  <2>2. SignalsStay
    <3>1. "server-execution-timeout" \in Reasons
      BY DEF Reasons
    <3> QED BY <1>4, <1>5, <1>6, <3>1 DEF Timeout, Disconnect
  <2>3. Plain
    BY <1>2, <1>6 DEF OtherActs
  <2> QED BY <1>3, <2>1, <2>2, <2>3
<1>7. ASSUME DeleteHandler \/ UNCHANGED vars PROVE CancelOK(d)'
  <2>1. UNCHANGED <<cpc, target, peer>> /\ UNCHANGED execVars
    BY <1>7 DEF DeleteHandler, serverVars, vars
  <2>2. Plain
    BY <1>2, <1>7 DEF OtherActs
  <2> QED BY <1>3, <1>4, <2>1, <2>2
<1>8. ASSUME NEW e \in Executors, \/ ShutdownStart(e) \/ ShutdownDrained(e)
                                  \/ ShutdownExit(e) \/ Kill(e)
      PROVE  CancelOK(d)'
  <2>1. UNCHANGED <<cpc, target, peer>>
    BY <1>8 DEF ShutdownStart, ShutdownDrained, ShutdownExit, Kill, SetPhase
  <2>2. SignalsStay
    <3>1. "abandoned" \in Reasons
      BY DEF Reasons
    <3> QED BY <1>4, <1>5, <1>8, <3>1
            DEF ShutdownStart, ShutdownDrained, ShutdownExit, Kill
  <2>3. Plain
    BY <1>2, <1>8 DEF OtherActs
  <2> QED BY <1>3, <2>1, <2>2, <2>3
<1>9. ASSUME NEW c \in Cancels,
             \/ \E e \in Executors : CancelLoad(c, e)
             \/ CancelCheck(c) \/ PeerHandle(c) \/ CancelReply(c)
             \/ CancelFreeze(c)
      PROVE  CancelOK(d)'
  <2>1. Plain
    BY <1>2, <1>9 DEF OtherActs
  <2>2. SignalsStay
    BY <1>0, <1>4, <1>5, <1>9
       DEF CancelLoad, CancelCheck, PeerHandle, CancelReply, CancelFreeze
  <2>3. CASE d # c
    <3>1. cpc'[d] = cpc[d] /\ target'[d] = target[d] /\ peer'[d] = peer[d]
      BY <1>0, <1>9, <2>3
         DEF CancelLoad, CancelCheck, PeerHandle, CancelReply, CancelFreeze
    <3> QED BY <1>0, <2>1, <2>2, <3>1, CancelBystander
  <2>4. CASE d = c
    <3>1. CASE \E e \in Executors : CancelLoad(c, e)
      <4>1. /\ target'[d] = lastTurn.id /\ lastTurn.id \in Turns
            /\ cpc[d] = "idle" /\ cpc'[d] = "loaded" /\ peer'[d] = peer[d]
            /\ status'[lastTurn.id] # "absent"
        BY <1>0, <2>4, <3>1 DEF CancelLoad, ServerInv, RowsOK, storeVars
      <4>2. peer[d] = "none"
        BY <1>0, <4>1 DEF CancelOK
      <4> QED BY <4>1, <4>2 DEF CancelOK
    <3>2. CASE \/ CancelCheck(c) \/ PeerHandle(c) \/ CancelReply(c)
               \/ CancelFreeze(c)
      <4> DEFINE t == target[c]
      <4>1. t \in Turns /\ (alive => status[t] # "absent")
        BY <1>0, <2>4, <3>2
           DEF CancelCheck, PeerHandle, CancelReply, CancelFreeze, CancelOK
      <4>2. /\ target'[c] = t
            /\ cpc[c] # "idle" /\ cpc'[c] # "idle"
        BY <1>0, <2>4, <3>2
           DEF CancelCheck, PeerHandle, CancelReply, CancelFreeze, CancelOK
      <4>3. /\ alive' => status'[t] # "absent"
            /\ Held(t) => status'[t] # "running" \/ abort'[t] # NoReason
        <5> HIDE DEF t
        <5> QED BY <2>1, <2>2, <4>1, HeldStays DEF Held
      <4>4. cpc'[c] = "done" \/ peer'[c] = "200" =>
              status'[t] # "running" \/ abort'[t] # NoReason
        <5>0. cpc[c] = "done" \/ peer[c] = "200" => Held(t)
          BY <1>0, <2>4 DEF CancelOK
        <5>1. CASE CancelCheck(c)
          <6>1. CASE status[t] # "running"
            BY <4>3, <6>1 DEF Held
          <6>2. CASE status[t] = "running" /\ t \in Runs(asker[c])
                      /\ AbortOnly({t}, "client-cancelled")
            BY <1>0, <4>1, <6>2, AbortRests
          <6>3. CASE cpc'[c] \in {"asked", "freezing"} /\ peer'[c] \in {"sent", peer[c]}
            BY <4>3, <5>0, <6>3
          <6> QED BY <1>0, <5>1, <6>1, <6>2, <6>3 DEF CancelCheck
        <5>2. CASE PeerHandle(c)
          <6>1. CASE AbortOnly({t}, "client-cancelled")
            BY <1>0, <4>1, <6>1, AbortRests
          <6>2. CASE peer'[c] = "412"
            BY <1>0, <4>3, <5>0, <5>2, <6>2 DEF PeerHandle
          <6> QED BY <1>0, <5>2, <6>1, <6>2 DEF PeerHandle
        <5>3. CASE CancelReply(c)
          BY <1>0, <4>3, <5>0, <5>3 DEF CancelReply
        <5>4. CASE CancelFreeze(c)
          <6>1. CASE Present(t)
            <7>1. status'[t] \in Terminal
              BY <1>0, <4>1, <5>4, <6>1, FreezeWrite
                 DEF CancelFreeze, ServerInv, TypeOK
            <7> QED BY <7>1, StatusFacts
          <6>2. CASE ~Present(t)
            BY <4>1, <4>3, <6>2, StoreAssumption DEF Present, Held
          <6> QED BY <6>1, <6>2
        <5> QED BY <3>2, <5>1, <5>2, <5>3, <5>4
      <4> HIDE DEF t
      <4> QED BY <2>4, <4>1, <4>2, <4>3, <4>4 DEF CancelOK, Held
    <3> QED BY <1>9, <3>1, <3>2
  <2> QED BY <2>3, <2>4
<1> QED BY <1>1, <1>6, <1>7, <1>8, <1>9, NextCases DEF OtherActs

(* No cancel has been served yet. *)
LEMMA CancelInit == Init => CancelInv
  BY DEF Init, CancelInv, CancelOK

(* A cancel that has returned is not lost: the turn it named has ended, or *)
(* its run holds an aborted signal.  The read of the turn, the registry    *)
(* lookup, the peer request and its reply, and the freeze may each be      *)
(* overtaken by anything else.                                             *)
THEOREM CancelNeverLost == Spec => []CancelHeld
<1>1. CancelInv => CancelHeld
  BY DEF CancelInv, CancelOK, CancelHeld, Held
<1> QED BY <1>1, CancelInit, CancelStep, ServerInvariant, PTL DEF Spec
-----------------------------------------------------------------------------
(* Shutdown.  As long as no write has failed and no process was killed, a  *)
(* request whose client listens keeps its executor alive until the turn is *)
(* settled.                                                                *)
LEMMA SettledBystander ==
  ASSUME ServerInv, NEW u \in Turns, Settled(u), Same(u),
         Plain \/ \E r \in Turns \ {u} : Created(r),
         mode'[u] = mode[u], gone'[u] = gone[u] \/ gone'[u], home'[u] = home[u],
         phase'[home[u]] = "exited" => phase[home[u]] = "exited"
  PROVE  Settled(u)'
<1>0. status \in [Turns -> Status]
  BY DEF ServerInv, TypeOK, StoreTypeOK
<1>1. /\ status[u] = "absent" => status'[u] = "absent"
      /\ status'[u] = "running" => status[u] = "running"
  BY <1>0 DEF Plain, Created
<1> QED BY <1>1 DEF Settled, Same

(* The first three parts of Settled; the fourth only matters to requests   *)
(* whose executor has exited, and those do not move.                       *)
Parked(u) ==
  /\ pc[u] = "failed" => status[u] = "absent"
  /\ pc[u] \in {"yieldFrozen", "closing", "yieldDone", "suspended", "ended"} =>
       status[u] # "running"
  /\ drain[u] = "off" => pc[u] = "ended"

LEMMA ParkedMove ==
  ASSUME ServerInv, NEW r \in Turns, Settled(r), Moves(r),
         Progress(r) \/ PrepareFails(r)
  PROVE  Parked(r)'
<1>0. /\ pc \in [Turns -> PCs] /\ status \in [Turns -> Status]
      /\ drain \in [Turns -> {"none", "on", "off"}]
      /\ "running" \notin Terminal
  BY StatusFacts DEF ServerInv, TypeOK, StoreTypeOK, ExecTypeOK
<1>1. CASE FreezePrevious(r)
  <2>1. /\ pc[r] = "begun" /\ drain' = drain
        /\ status[r] = "absent"
        /\ \E l \in {"resolving", "failed"} : pc' = [pc EXCEPT ![r] = l]
    BY <1>1, InvParts DEF FreezePrevious, Goto, StageOK, Early
  <2>2. status'[r] = "absent"
    BY <2>1 DEF Moves, Plain, Commit
  <2> QED BY <1>0, <2>1, <2>2 DEF Parked, Settled
<1>2. CASE CommitFails(r) \/ PrepareFails(r)
  <2>1. /\ pc[r] \in {"resolving", "committing"} /\ drain' = drain
        /\ status[r] = "absent" /\ status' = status
        /\ pc' = [pc EXCEPT ![r] = "failed"]
    BY <1>2, InvParts DEF CommitFails, PrepareFails, CreateTurnFails, Goto,
                          StageOK, Early, storeVars
  <2> QED BY <1>0, <2>1 DEF Parked, Settled
<1>3. ASSUME drain' = drain, pc[r] # "ended", NEW l,
             pc' = [pc EXCEPT ![r] = l],
             l \notin {"failed", "yieldFrozen", "closing", "yieldDone",
                       "suspended", "ended"}
      PROVE  Parked(r)'
  BY <1>0, <1>3 DEF Parked, Settled
<1>4. CASE Prepare(r) \/ Commit(r) \/ AppendTurnCreated(r)
           \/ ComputeTerminal(r)
  BY <1>3, <1>4 DEF Prepare, Commit, AppendTurnCreated, ComputeTerminal, Goto
<1>5. CASE AppendTurnCreatedFails(r) \/ PersistFails(r)
  BY <1>3, <1>5 DEF AppendTurnCreatedFails, PersistFails, Leave, Goto
<1>6. CASE PersistSecond(r)
  BY <1>3, <1>6 DEF PersistSecond, Goto
<1>7. CASE Frozen(r)
  BY <1>0, <1>7 DEF Frozen, Goto, storeVars, Parked, Settled
<1>8. CASE WriteTerminal(r)
  <2>1. /\ pc[r] = "writing" /\ drain' = drain
        /\ pc' = [pc EXCEPT ![r] = "closing"]
    BY <1>8 DEF WriteTerminal, Goto
  <2>2. status'[r] # "running"
    <3>1. CASE UpdateTurnTerminalState(r, want[r].status, want[r].reason)
      <4>1. want[r].status \in Terminal
        BY <2>1, InvParts DEF WantOK
      <4> QED BY <1>0, <3>1, <4>1 DEF UpdateTurnTerminalState, WriteTurnState
    <3>2. CASE UNCHANGED storeVars /\ (status[r] \in Terminal \/ ~Present(r))
      BY <1>0, <3>2, StoreAssumption DEF Present, storeVars
    <3> QED BY <1>8, <3>1, <3>2 DEF WriteTerminal, storeVars
  <2> QED BY <1>0, <2>1, <2>2 DEF Parked, Settled
<1>9. CASE Close(r)
  <2>1. /\ pc[r] = "closing" /\ status' = status
        /\ \/ pc' = [pc EXCEPT ![r] = "ended"]
           \/ drain' = drain /\ \E l \in {"yieldDone", "suspended"} :
                                  pc' = [pc EXCEPT ![r] = l]
    BY <1>9 DEF Close, End, Goto, storeVars
  <2> QED BY <1>0, <2>1 DEF Parked, Settled
<1>10. CASE Drain(r)
  <2>1. /\ pc[r] \in Yields /\ status' = status
        /\ \/ pc[r] = "yieldDone" /\ pc' = [pc EXCEPT ![r] = "ended"]
           \/ drain' = drain /\ pc' = [pc EXCEPT ![r] = "running"]
           \/ /\ pc[r] = "yieldFrozen"
              /\ drain' = drain /\ pc' = [pc EXCEPT ![r] = "closing"]
    BY <1>10 DEF Drain, End, Goto, storeVars
  <2> QED BY <1>0, <2>1 DEF Parked, Settled, Yields
<1> QED BY <1>1, <1>2, <1>4, <1>5, <1>6, <1>7, <1>8, <1>9, <1>10 DEF Progress

LEMMA ExitStep == ServerInv /\ ExitInv /\ [Next]_vars => ExitInv'
<1> SUFFICES ASSUME ServerInv, ExitInv, [Next]_vars, faults' = 0,
                    NEW u \in Turns
             PROVE  Settled(u)'
  BY DEF ExitInv
<1>0. /\ faults \in Nat
      /\ home \in [Turns -> Executors] /\ phase \in [Executors -> Phases]
      /\ gone \in [Turns -> BOOLEAN]
      /\ mode \in [Turns -> {"stream", "json"}]
      /\ pc \in [Turns -> PCs]
      /\ drain \in [Turns -> {"none", "on", "off"}]
  BY DEF ServerInv, TypeOK, ExecTypeOK
<1>1. faults = 0 /\ ~Fault
  <2>1. \/ faults' = faults \/ Fault
    BY NextCases DEF RequestActs, OtherActs, TrackRun, RequestStep,
       RequestFails, ProduceEvent, FinishRun, WriteFault, StartRequest,
       Timeout, Disconnect, DeleteHandler, CancelLoad, CancelCheck, PeerHandle,
       CancelReply, CancelFreeze, ShutdownStart, ShutdownDrained, ShutdownExit,
       SetPhase, Kill, vars, serverVars
  <2> QED BY <1>0, <2>1 DEF Fault
<1>2. Settled(u)
  BY <1>1 DEF ExitInv
<1>3. ASSUME NEW r \in Turns, RequestActs(r) PROVE Settled(u)'
  <2>0. Moves(r) /\ ~WriteFault(r)
    BY <1>1, <1>3, RequestMoves DEF WriteFault
  <2>1. phase' = phase /\ gone' = gone
    BY <1>3, <2>0 DEF RequestActs, TrackRun, RequestStep, RequestFails,
       ProduceEvent, FinishRun, StartRequest, serverVars
  <2>2. \/ mode'[u] = mode[u] /\ home'[u] = home[u]
        \/ u = r
    <3>1. CASE \E e \in Executors : StartRequest(r, e)
      BY <1>0, <3>1 DEF StartRequest, Begin
    <3>2. CASE TrackRun(r) \/ RequestStep(r) \/ RequestFails(r)
      BY <3>2 DEF TrackRun, Track, RequestStep, RequestFails, Progress,
         FreezePrevious, Prepare, Commit, CommitFails, AppendTurnCreated,
         AppendTurnCreatedFails, Leave, PersistSecond, Frozen, PersistFails,
         ComputeTerminal, WriteTerminal, Close, Drain, PrepareFails,
         CreateTurnFails, serverVars
    <3>3. CASE ProduceEvent(r) \/ FinishRun(r)
      BY <3>3 DEF ProduceEvent, FinishRun, PersistFirst, Interrupted, Frozen,
         PersistFails, Leave, Finish, serverVars
    <3> QED BY <1>3, <2>0, <3>1, <3>2, <3>3 DEF RequestActs
  <2>3. CASE u # r
    <3>1. Same(u) /\ (Plain \/ \E v \in Turns \ {u} : Created(v))
      BY <2>0, <2>3 DEF Moves
    <3> QED BY <1>2, <2>1, <2>2, <2>3, <3>1, SettledBystander
  <2>4. CASE u = r
    <3>1. CASE \E e \in Executors : StartRequest(r, e)
      <4>1. /\ pc[r] = "idle" /\ pc' = [pc EXCEPT ![r] = "begun"]
            /\ drain' = drain
            /\ phase'[home'[r]] = "up"
        BY <1>0, <2>1, <3>1 DEF StartRequest, Begin, Goto
      <4> QED BY <1>0, <1>2, <2>4, <4>1 DEF Settled
    <3>2. CASE ~\E e \in Executors : StartRequest(r, e)
      <4>1. home' = home /\ phase'[home'[r]] # "exited"
        BY <1>3, <2>0, <2>1, <3>2 DEF RequestActs, TrackRun, RequestStep,
           RequestFails, ProduceEvent, FinishRun, serverVars, Live
      <4>2. Parked(r)'
        <5>1. CASE RequestStep(r) \/ RequestFails(r)
          BY <1>2, <2>0, <2>4, <5>1, ParkedMove DEF RequestStep, RequestFails
        <5>2. CASE TrackRun(r)
          BY <1>0, <1>2, <2>4, <5>2 DEF TrackRun, Track, Goto, Parked, Settled
        <5>3. CASE FinishRun(r) \/ (ProduceEvent(r) /\ PersistFails(r))
          BY <1>0, <1>2, <2>4, <5>3
             DEF FinishRun, Finish, PersistFails, Leave, Goto, Parked, Settled
        <5>4. CASE \E k \in EventKinds : PersistFirst(r, k)
          <6>1. /\ pc[r] = "running" /\ drain' = drain
                /\ \E l \in {"yieldEvent", "running", "persisting"} :
                     pc' = [pc EXCEPT ![r] = l]
            BY <5>4 DEF PersistFirst, Goto
          <6> QED BY <1>0, <1>2, <2>4, <6>1 DEF Parked, Settled
        <5>5. CASE Frozen(r)
          BY <1>0, <1>2, <2>4, <5>5, StatusFacts
             DEF Frozen, Goto, storeVars, Parked, Settled
        <5> QED BY <1>3, <2>0, <3>2, <5>1, <5>2, <5>3, <5>4, <5>5
                DEF RequestActs, ProduceEvent, Interrupted
      <4> QED BY <2>4, <4>1, <4>2 DEF Settled, Parked
    <3> QED BY <3>1, <3>2
  <2> QED BY <2>3, <2>4
<1>4. ASSUME OtherActs PROVE Settled(u)'
  <2>1. Same(u) /\ Plain
    BY <1>4, OtherRests DEF Rests, PlainStore
  <2>2. /\ mode' = mode /\ home' = home
        /\ gone'[u] = gone[u] \/ gone'[u]
    BY <1>0, <1>4 DEF OtherActs, Timeout, Disconnect, DeleteHandler, CancelLoad,
       CancelCheck, PeerHandle, CancelReply, CancelFreeze, ShutdownStart,
       ShutdownDrained, ShutdownExit, SetPhase, Kill, vars, serverVars,
       execVars, AbortOnly
  <2>3. CASE phase'[home[u]] = "exited" => phase[home[u]] = "exited"
    BY <1>2, <2>1, <2>2, <2>3, SettledBystander
  <2>4. CASE phase'[home[u]] = "exited" /\ phase[home[u]] # "exited"
    <3>1. ShutdownExit(home[u])
      <4>1. PICK e \in Executors : ShutdownExit(e)
        BY <1>0, <1>1, <1>4, <2>4 DEF OtherActs, Timeout, Disconnect,
           DeleteHandler, CancelLoad, CancelCheck, PeerHandle, CancelReply,
           CancelFreeze, ShutdownStart, ShutdownDrained, SetPhase, Kill, vars,
           serverVars
      <4>2. e = home[u]
        BY <1>0, <2>4, <4>1 DEF ShutdownExit, SetPhase
      <4> QED BY <4>1, <4>2
    <3>2. ~ResponseOpen(u) /\ gone' = gone
      BY <3>1 DEF ShutdownExit, SetPhase
    <3>3. mode[u] = "stream" /\ ~gone[u] => pc[u] \in {"idle", "failed", "ended"}
      BY <1>2, <3>2 DEF ResponseOpen, Settled
    <3>4. status' = status
      BY <3>1 DEF ShutdownExit, storeVars
    <3> QED BY <1>2, <2>1, <2>2, <3>2, <3>3, <3>4 DEF Settled, Same
  <2> QED BY <2>3, <2>4
<1> QED BY <1>3, <1>4, NextCases

LEMMA ExitInit == Init => ExitInv
  BY DEF Init, StoreInit, ExecInit, ExitInv, Settled

(* shutdown() in main.ts: as long as no write failed and no process was    *)
(* killed, a replica that drained and exited leaves none of its turns      *)
(* running whose client was still reading the stream; a turn created and   *)
(* registered while the drain went on is settled, too.                     *)
THEOREM ExitSettles == Spec => [](faults = 0 => GracefulExitSettles)
<1>1. ServerInv /\ ExitInv => (faults = 0 => GracefulExitSettles)
  <2> SUFFICES ASSUME ServerInv, ExitInv, faults = 0, NEW e \in Executors,
                      phase[e] = "exited", NEW r \in Turns, home[r] = e,
                      mode[r] = "stream", ~gone[r]
               PROVE  status[r] # "running"
    BY DEF GracefulExitSettles
  <2>1. Settled(r)
    BY DEF ExitInv
  <2> QED BY <2>1, InvParts DEF Settled, StageOK, Early
<1> QED BY <1>1, ExitInit, ExitStep, ServerInvariant, PTL DEF Spec
-----------------------------------------------------------------------------
(* The server implements TurnLifecycle.  The state of the abstract turns   *)
(* follows from the shapes of the store's steps; the announcements from    *)
(* what drainTurnEvents hands over.                                        *)
StateOf(u) == CASE ~alive         -> "deleted"
                [] NonTerminal(u) -> "open"
                [] OTHER          -> status[u]
TurnStates == [u \in Turns |-> StateOf(u)]
Announcements == [u \in Turns |-> Announced(u)]

StatesMove ==
  \/ TurnStates' = TurnStates
  \/ \E t \in Turns : /\ TurnStates[t] = "absent"
                      /\ TurnStates' = [TurnStates EXCEPT ![t] = "open"]
  \/ \E t \in Turns, o \in Terminal :
       /\ TurnStates[t] = "open"
       /\ TurnStates' = [TurnStates EXCEPT ![t] = o]
  \/ TurnStates' = [t \in Turns |-> "deleted"]

LEMMA ShapesMoveStates ==
  ASSUME StoreTypeOK, RowsOK, Shapes
  PROVE  StatesMove
<1>0. /\ status \in [Turns -> Status] /\ NoTurn \notin Turns
      /\ \A s \in Terminal : s \notin NonTerminalStatus
      /\ "running" \in NonTerminalStatus /\ "absent" \notin NonTerminalStatus
  BY StoreAssumption, StatusFacts DEF StoreTypeOK, NonTerminalStatus
<1>1. ASSUME alive' = alive, status' = status PROVE StatesMove
  BY <1>1 DEF StatesMove, TurnStates, StateOf, NonTerminal
<1>2. ASSUME NEW t \in Turns, NEW prev, NEW new, NEW app, NEW cl,
             CreateStep(t, prev, new, app, cl)
      PROVE  StatesMove
  <2>1. /\ alive /\ alive' = alive
        /\ status' = [status EXCEPT ![t] = "running"]
        /\ status[t] = "absent"
    BY <1>0, <1>2 DEF CreateStep, CreateTurn, CanCreateTurn, Present
  <2>2. TurnStates[t] = "absent"
    BY <1>0, <2>1 DEF TurnStates, StateOf, NonTerminal
  <2>3. TurnStates' = [TurnStates EXCEPT ![t] = "open"]
    BY <1>0, <2>1 DEF TurnStates, StateOf, NonTerminal
  <2> QED BY <2>2, <2>3 DEF StatesMove
<1>3. ASSUME NEW t \in Turns, NEW s, NEW r, NEW e, StateStep(t, s, r, e)
      PROVE  StatesMove
  <2>1. /\ alive' = alive
        /\ status' = [status EXCEPT ![t] = s]
        /\ status[t] \in NonTerminalStatus
        /\ s \in Terminal \/ s \in NonTerminalStatus
    BY <1>3 DEF StateStep, WriteTurnState, NonTerminal
  <2>2. alive
    BY <1>0, <2>1 DEF RowsOK
  <2>3. TurnStates[t] = "open"
    BY <1>0, <2>1, <2>2 DEF TurnStates, StateOf, NonTerminal
  <2>4. CASE s \in Terminal
    <3>1. TurnStates' = [TurnStates EXCEPT ![t] = s]
      BY <1>0, <2>1, <2>2, <2>4 DEF TurnStates, StateOf, NonTerminal
    <3> QED BY <2>3, <2>4, <3>1 DEF StatesMove
  <2>5. CASE s \in NonTerminalStatus
    <3>1. TurnStates' = TurnStates
      BY <1>0, <2>1, <2>2, <2>5 DEF TurnStates, StateOf, NonTerminal
    <3> QED BY <3>1 DEF StatesMove
  <2> QED BY <2>1, <2>4, <2>5
<1>4. ASSUME DeleteSession PROVE StatesMove
  <2>1. ~alive' /\ \A u \in Turns : status'[u] = "absent"
    BY <1>4 DEF DeleteSession
  <2>2. \A u \in Turns : StateOf(u)' = "deleted"
    BY <1>0, <2>1 DEF StateOf, NonTerminal
  <2>3. TurnStates' = [t \in Turns |-> "deleted"]
    BY <2>2 DEF TurnStates
  <2> QED BY <2>3 DEF StatesMove
<1>5. ASSUME NEW t \in Turns, NEW x, EventStep(t, x) \/ SnapshotStep(t, x)
      PROVE  StatesMove
  BY <1>1, <1>5 DEF EventStep, AppendToEvents, SnapshotStep, WriteSnapshot
<1> QED BY <1>1, <1>2, <1>3, <1>4, <1>5 DEF Shapes, storeVars

(* Only the drain hands events over. *)
LEMMA OnlyDrainHands ==
  ASSUME NEW r \in Turns, RequestActs(r)
  PROVE  out' = out \/ Drain(r)
<1>1. CASE TrackRun(r) \/ RequestStep(r) \/ RequestFails(r)
  BY <1>1 DEF TrackRun, Track, RequestStep, RequestFails, Progress,
     FreezePrevious, Prepare, Commit, CommitFails, AppendTurnCreated,
     AppendTurnCreatedFails, Leave, PersistSecond, Frozen, PersistFails,
     ComputeTerminal, WriteTerminal, Close, PrepareFails, CreateTurnFails
<1>2. CASE \/ ProduceEvent(r) \/ FinishRun(r) \/ WriteFault(r)
           \/ \E e \in Executors : StartRequest(r, e)
  BY <1>2 DEF ProduceEvent, FinishRun, WriteFault, StartRequest, Begin,
     PersistFirst, Interrupted, Frozen, PersistFails, Leave, Finish,
     StoreFails, DrainFails, CreateTurnFails
<1> QED BY <1>1, <1>2 DEF RequestActs

(* The announcement is a function of the events handed over. *)
AnnouncedIn(q) ==
  LET done == {i \in 1..Len(q) : q[i].type = "turn.done"}
  IN  IF done = {} THEN "none"
      ELSE q[CHOOSE i \in done : \A j \in done : j <= i].status

LEMMA AnnouncementStays ==
  ASSUME NEW u \in Turns, out'[u] = out[u]
  PROVE  Announced(u)' = Announced(u)
<1>1. Announced(u) = AnnouncedIn(out[u])
  BY DEF Announced, AnnouncedIn
<1>2. Announced(u)' = AnnouncedIn(out'[u])
  BY DEF Announced, AnnouncedIn
<1> QED BY <1>1, <1>2

LEMMA NothingAnnounced ==
  ASSUME NEW r \in Turns, NoDone(r)
  PROVE  Announced(r) = "none"
  BY DEF NoDone, Announced

(* A handed-over turn.done is announced with the state of the row. *)
LEMMA DrainAnnounces ==
  ASSUME ServerInv, NEW r \in Turns, Drain(r)
  PROVE  /\ UNCHANGED TurnStates
         /\ \/ UNCHANGED Announcements
            \/ \E o \in Terminal :
                 /\ Announcements[r] = "none"
                 /\ TurnStates[r] \in {o, "deleted"}
                 /\ Announcements' = [Announcements EXCEPT ![r] = o]
<1> DEFINE Out == [type : EventTypes \cup {"delta"}, status : Status]
<1>0. /\ pc[r] \in Yields
      /\ out \in [Turns -> Seq(Out)] /\ out[r] \in Seq(Out)
      /\ out' = [out EXCEPT ![r] = Append(out[r], Handed(r))]
      /\ UNCHANGED storeVars
  BY InvParts DEF Drain, ExecTypeOK, storeVars
<1> HIDE DEF Out
<1>1. UNCHANGED TurnStates
  BY <1>0 DEF storeVars, TurnStates, StateOf, NonTerminal
<1>2. NoDone(r) /\ Announced(r) = "none"
  BY <1>0, NotAnnounced, NothingAnnounced DEF Yields
<1>3. \A u \in Turns \ {r} : Announced(u)' = Announced(u)
  <2>1. \A u \in Turns \ {r} : out'[u] = out[u]
    BY <1>0
  <2> QED BY <2>1, AnnouncementStays
<1>4. /\ Len(out[r]) \in Nat
      /\ Len(out'[r]) = Len(out[r]) + 1
      /\ out'[r][Len(out[r]) + 1] = Handed(r)
      /\ \A i \in 1..Len(out[r]) : out'[r][i] = out[r][i]
  BY <1>0, AppendFacts
<1>5. CASE pc[r] \in {"yieldCreated", "yieldEvent"}
  <2>1. Handed(r).type # "turn.done"
    <3>1. pend[r] \in Kinds
      BY InvParts DEF ExecTypeOK
    <3>2. EventOf(pend[r]).type # "turn.done"
      BY <3>1, EventOfKind
    <3> QED BY <1>5, <3>2 DEF Handed, Event
  <2>2. NoDone(r)'
    BY <1>2, <1>4, <2>1 DEF NoDone
  <2>3. Announced(r)' = "none"
    BY <2>2 DEF NoDone, Announced
  <2>4. UNCHANGED Announcements
    BY <1>2, <1>3, <2>3 DEF Announcements
  <2> QED BY <1>1, <2>4
<1>6. CASE pc[r] \in {"yieldFrozen", "yieldDone"}
  <2> DEFINE o == want[r].status
             n == Len(out[r]) + 1
  <2>1. /\ o \in Terminal
        /\ alive => status[r] = o
        /\ Handed(r).type = "turn.done" /\ Handed(r).status = o
    BY <1>6, InvParts DEF WantOK, Announces, Handed, TurnDone
  <2>2. TurnStates[r] \in {o, "deleted"}
    <3>0. o \notin NonTerminalStatus
      BY <2>1, StatusFacts
    <3> HIDE DEF o
    <3>1. CASE alive
      BY <2>1, <3>0, <3>1 DEF TurnStates, StateOf, NonTerminal
    <3>2. CASE ~alive
      <4>1. ~NonTerminal(r)
        BY <3>2, InvParts, StatusFacts DEF RowsOK, NonTerminal, NonTerminalStatus
      <4> QED BY <3>2, <4>1 DEF TurnStates, StateOf
    <3> QED BY <3>1, <3>2
  <2>3. Announced(r)' = o
    <3>1. {i \in 1..Len(out'[r]) : out'[r][i].type = "turn.done"} = {n}
      BY <1>2, <1>4, <2>1 DEF NoDone
    <3>2. (CHOOSE i \in {n} : \A j \in {n} : j <= i) = n
      BY <1>4
    <3> HIDE DEF n, o
    <3>3. {n} # {}
      OBVIOUS
    <3>4. out'[r][n].status = o
      BY <1>4, <2>1 DEF n
    <3> QED BY <3>1, <3>2, <3>3, <3>4 DEF Announced
  <2>4. Announcements' = [Announcements EXCEPT ![r] = o]
    <3> HIDE DEF o
    <3> QED BY <1>3, <2>3 DEF Announcements
  <2>5. Announcements[r] = "none"
    BY <1>2 DEF Announcements
  <2> QED BY <1>1, <2>1, <2>2, <2>4, <2>5
<1> QED BY <1>0, <1>5, <1>6 DEF Yields

LEMMA LifecycleStep ==
  ServerInv /\ [Next]_vars => [Lifecycle!Next]_(Lifecycle!vars)
<1> SUFFICES ASSUME ServerInv, [Next]_vars
             PROVE  [Lifecycle!Next]_(Lifecycle!vars)
  OBVIOUS
<1> USE DEF Lifecycle!vars, Lifecycle!Next, Lifecycle!Outcome
<1>0. /\ TurnStates = [r \in Turns |-> CASE ~alive         -> "deleted"
                                         [] NonTerminal(r) -> "open"
                                         [] OTHER          -> status[r]]
      /\ Announcements = [r \in Turns |-> Announced(r)]
      /\ Terminal = {"done", "cancelled", "error"}
  BY DEF TurnStates, StateOf, Announcements, Terminal
<1>1. ASSUME UNCHANGED Announcements PROVE [Lifecycle!Next]_(Lifecycle!vars)
  <2>1. StatesMove
    BY StepsAreStoreSteps, ShapesMoveStates DEF ServerInv, TypeOK
  <2>2. CASE UNCHANGED TurnStates
    BY <1>1, <2>2 DEF TurnStates, StateOf, Announcements
  <2>3. ASSUME NEW t \in Turns, TurnStates[t] = "absent",
               TurnStates' = [TurnStates EXCEPT ![t] = "open"]
        PROVE  Lifecycle!Open(t)
    BY <1>1, <2>3 DEF Lifecycle!Open, TurnStates, StateOf, Announcements
  <2>4. ASSUME NEW t \in Turns, NEW o \in Terminal, TurnStates[t] = "open",
               TurnStates' = [TurnStates EXCEPT ![t] = o]
        PROVE  Lifecycle!Close(t, o)
    BY <1>1, <2>4 DEF Lifecycle!Close, TurnStates, StateOf, Announcements
  <2>5. ASSUME TurnStates' = [t \in Turns |-> "deleted"]
        PROVE  Lifecycle!Delete
    BY <1>1, <2>5 DEF Lifecycle!Delete, TurnStates, StateOf, Announcements
  <2> QED BY <1>0, <2>1, <2>2, <2>3, <2>4, <2>5 DEF StatesMove
<1>2. ASSUME NEW r \in Turns, Drain(r), ~UNCHANGED Announcements
      PROVE  Lifecycle!Next
  <2>1. PICK o \in Terminal :
                 /\ Announcements[r] = "none"
                 /\ TurnStates[r] \in {o, "deleted"}
                 /\ Announcements' = [Announcements EXCEPT ![r] = o]
    BY <1>2, DrainAnnounces
  <2>2. UNCHANGED TurnStates
    BY <1>2, DrainAnnounces
  <2>3. Lifecycle!Announce(r, o)
    BY <2>1, <2>2 DEF Lifecycle!Announce, TurnStates, StateOf, Announcements
  <2> QED BY <1>0, <2>3
<1>3. ASSUME NEW r \in Turns, RequestActs(r), out' = out
      PROVE  UNCHANGED Announcements
  BY <1>3 DEF Announcements, Announced
<1>4. ASSUME OtherActs PROVE UNCHANGED Announcements
  <2>1. \A u \in Turns : out'[u] = out[u]
    BY <1>4, OtherRests DEF Rests, Same
  <2> QED BY <2>1, AnnouncementStays DEF Announcements
<1> QED BY <1>1, <1>2, <1>3, <1>4, OnlyDrainHands, NextCases

LEMMA LifecycleInit == Init => Lifecycle!Init
<1> SUFFICES ASSUME Init PROVE Lifecycle!Init
  OBVIOUS
<1>1. \A r \in Turns : out[r] = <<>> /\ Len(out[r]) = 0
  BY DEF Init, ExecInit
<1>2. \A r \in Turns : NoDone(r)
  BY <1>1 DEF NoDone
<1>3. \A r \in Turns : Announced(r) = "none"
  BY <1>2, NothingAnnounced
<1>4. alive /\ \A r \in Turns : status[r] = "absent"
  BY DEF Init, StoreInit
<1> QED BY <1>3, <1>4 DEF Lifecycle!Init, NonTerminal, NonTerminalStatus

(* The server keeps what the turn API promises: a turn is opened once,     *)
(* closed once, and its stream announces the outcome it was closed with,   *)
(* whatever replicas, cancels, deletions, shutdowns and faults interleave. *)
THEOREM LifecycleImplemented == Spec => ImplementsLifecycle
  BY LifecycleInit, LifecycleStep, ServerInvariant, PTL
     DEF Spec, ImplementsLifecycle, Lifecycle!Spec
-----------------------------------------------------------------------------
(* Persist before yield.  Every event a client is shown was written first; *)
(* an event that was handed over and not yet forwarded is the one row the  *)
(* log is ahead of the stream.                                             *)
Shows(s) == Cardinality(ShownUpTo(s, Len(s)))

(* The stream q follows the log l. *)
Follows(q, l) ==
  \A i \in 1..Len(q) : Shown(q[i]) =>
    \E j \in 1..Len(l) :
      /\ l[j] = q[i]
      /\ Cardinality(ShownUpTo(l, j)) = Cardinality(ShownUpTo(q, i))

(* Event h is to be forwarded next. *)
Owed(h, q, l) ==
  IF Shown(h)
  THEN /\ Shows(l) = Shows(q) + 1
       /\ \E j \in 1..Len(l) : l[j] = h /\ Cardinality(ShownUpTo(l, j)) = Shows(q) + 1
  ELSE Shows(l) = Shows(q)

(* What holds of a request at p that hands over h. *)
Paced(p, h, q, l) ==
  /\ Follows(q, l)
  /\ p \in Early \cup {"committed"} => q = <<>>
  /\ p \in {"committed", "starting", "running", "persisting"} => Shows(q) = Shows(l)
  /\ p \in {"yieldCreated", "yieldEvent"} => Owed(h, q, l)

(* The inductive invariant of the forwarded events. *)
PaceOK(u) == alive => Paced(pc[u], Handed(u), out[u], log[u])
PaceInv == \A u \in Turns : PaceOK(u)

(* Counting the shown events of a sequence that grows at its end *)
LEMMA ShownAppend ==
  ASSUME NEW S, NEW q \in Seq(S), NEW e \in S
  PROVE  /\ Append(q, e) \in Seq(S) /\ Len(Append(q, e)) = Len(q) + 1
         /\ Append(q, e)[Len(q) + 1] = e
         /\ \A i \in 1..Len(q) : Append(q, e)[i] = q[i]
         /\ Shows(q) \in Nat
         /\ \A n \in 0..Len(q) : Cardinality(ShownUpTo(q, n)) \in Nat
         /\ \A n \in 0..Len(q) : ShownUpTo(Append(q, e), n) = ShownUpTo(q, n)
         /\ Shows(Append(q, e)) = IF Shown(e) THEN Shows(q) + 1 ELSE Shows(q)
<1> DEFINE a == Append(q, e)
           n == Len(q)
<1>1. /\ n \in Nat /\ Len(a) = n + 1 /\ a[n + 1] = e
      /\ \A i \in 1..n : a[i] = q[i]
      /\ a \in Seq(S)
  BY AppendFacts
<1> HIDE DEF a, n
<1>2. ASSUME NEW m \in 0..n
      PROVE  ShownUpTo(a, m) = ShownUpTo(q, m)
  BY <1>1 DEF ShownUpTo
<1>3. ASSUME NEW m \in 0..n
      PROVE  IsFiniteSet(ShownUpTo(q, m)) /\ Cardinality(ShownUpTo(q, m)) \in Nat
  <2>0. 1 \in Int /\ m \in Int
    BY <1>1
  <2>1. IsFiniteSet(1..m)
    BY <2>0, FS_Interval
  <2>2. ShownUpTo(q, m) \in SUBSET (1..m)
    BY DEF ShownUpTo
  <2> QED BY <2>1, <2>2, FS_Subset, FS_CardinalityType
<1>4. n \in 0..n
  BY <1>1
<1>5. ShownUpTo(a, n + 1) = IF Shown(e) THEN ShownUpTo(q, n) \cup {n + 1}
                            ELSE ShownUpTo(q, n)
  BY <1>1 DEF ShownUpTo
<1>6. n + 1 \notin ShownUpTo(q, n)
  BY <1>1 DEF ShownUpTo
<1>7. Cardinality(ShownUpTo(a, n + 1)) =
        IF Shown(e) THEN Cardinality(ShownUpTo(q, n)) + 1
        ELSE Cardinality(ShownUpTo(q, n))
  BY <1>3, <1>4, <1>5, <1>6, FS_AddElement
<1>8. Shows(q) = Cardinality(ShownUpTo(q, n)) /\ Shows(a) = Cardinality(ShownUpTo(a, n + 1))
  BY <1>1 DEF Shows, n
<1>9. Shows(q) \in Nat
  BY <1>3, <1>4, <1>8
<1> QED BY <1>1, <1>2, <1>3, <1>7, <1>8, <1>9 DEF a, n

(* A row that is not shown, a terminal state's turn.done, changes nothing. *)
LEMMA HiddenRow ==
  ASSUME NEW p, NEW h, NEW S, NEW l \in Seq(S), NEW e \in S, NEW q,
         ~Shown(e), Paced(p, h, q, l)
  PROVE  Paced(p, h, q, Append(l, e))
<1> DEFINE m == Append(l, e)
<1>1. /\ Len(l) \in Nat /\ Len(m) = Len(l) + 1 /\ Shows(m) = Shows(l)
      /\ \A j \in 1..Len(l) : /\ j \in 1..Len(m) /\ m[j] = l[j]
                              /\ ShownUpTo(m, j) = ShownUpTo(l, j)
  BY ShownAppend
<1> HIDE DEF m
<1>2. Follows(q, m)
  BY <1>1 DEF Paced, Follows
<1>3. Owed(h, q, l) => Owed(h, q, m)
  BY <1>1 DEF Owed
<1> QED BY <1>1, <1>2, <1>3 DEF Paced, m

(* The row of an event, then the event handed over *)
LEMMA RowThenYield ==
  ASSUME NEW p, NEW g, NEW h, NEW r, NEW S, NEW l \in Seq(S), NEW e \in S, NEW q,
         Paced(p, g, q, l), p \in {"starting", "running", "persisting"},
         \/ r \in {"yieldCreated", "yieldEvent"} /\ h = e
         \/ r \in {"running", "persisting"} /\ ~Shown(e)
  PROVE  Paced(r, h, q, Append(l, e))
<1> DEFINE m == Append(l, e)
<1>1. /\ Len(l) \in Nat /\ Len(m) = Len(l) + 1 /\ Shows(l) \in Nat
      /\ Shows(m) = IF Shown(e) THEN Shows(l) + 1 ELSE Shows(l)
      /\ m[Len(m)] = e
      /\ \A j \in 1..Len(l) : /\ j \in 1..Len(m) /\ m[j] = l[j]
                              /\ ShownUpTo(m, j) = ShownUpTo(l, j)
  BY ShownAppend
<1>2. Len(m) \in 1..Len(m)
  BY <1>1
<1> HIDE DEF m
<1>3. Follows(q, m)
  BY <1>1 DEF Paced, Follows
<1>4. Shows(q) = Shows(l)
  BY DEF Paced
<1>5. h = e => Owed(h, q, m)
  BY <1>1, <1>2, <1>4 DEF Owed, Shows
<1>6. r \notin Early \cup {"committed"}
  BY DEF Early
<1> QED BY <1>1, <1>3, <1>4, <1>5, <1>6 DEF Paced, m

(* Forwarding the event that is owed *)
LEMMA ForwardOwed ==
  ASSUME NEW p, NEW h, NEW g, NEW S, NEW q \in Seq(S), NEW l, h \in S,
         Paced(p, h, q, l), p \in {"yieldCreated", "yieldEvent"}
  PROVE  Paced("running", g, Append(q, h), l)
<1> DEFINE a == Append(q, h)
<1>1. /\ Len(q) \in Nat /\ Len(a) = Len(q) + 1 /\ a[Len(a)] = h
      /\ Shows(q) \in Nat
      /\ Shows(a) = IF Shown(h) THEN Shows(q) + 1 ELSE Shows(q)
      /\ \A i \in 1..Len(q) : a[i] = q[i] /\ ShownUpTo(a, i) = ShownUpTo(q, i)
  BY ShownAppend
<1> HIDE DEF a
<1>2. Owed(h, q, l) /\ Follows(q, l)
  BY DEF Paced
<1>3. Follows(a, l)
  <2> SUFFICES ASSUME NEW i \in 1..Len(a), Shown(a[i])
               PROVE  \E j \in 1..Len(l) :
                        /\ l[j] = a[i]
                        /\ Cardinality(ShownUpTo(l, j)) = Cardinality(ShownUpTo(a, i))
    BY DEF Follows
  <2>1. CASE i = Len(a)
    BY <1>1, <1>2, <2>1 DEF Owed, Shows
  <2>2. CASE i # Len(a)
    <3>1. i \in 1..Len(q)
      BY <1>1, <2>2
    <3> QED BY <1>1, <1>2, <3>1 DEF Follows
  <2> QED BY <2>1, <2>2
<1>4. Shows(a) = Shows(l)
  BY <1>1, <1>2 DEF Owed
<1> QED BY <1>3, <1>4 DEF Paced, Early, a

(* Forwarding turn.done *)
LEMMA ForwardDone ==
  ASSUME NEW p, NEW h, NEW g, NEW k, NEW S, NEW q \in Seq(S), NEW l, h \in S,
         Paced(p, h, q, l), ~Shown(h), k \in {"closing", "ended"}
  PROVE  Paced(k, g, Append(q, h), l)
<1> DEFINE a == Append(q, h)
<1>1. /\ Len(q) \in Nat /\ Len(a) = Len(q) + 1 /\ a[Len(a)] = h
      /\ \A i \in 1..Len(q) : a[i] = q[i] /\ ShownUpTo(a, i) = ShownUpTo(q, i)
  BY ShownAppend
<1> HIDE DEF a
<1>2. \A i \in 1..Len(a) : Shown(a[i]) => i \in 1..Len(q)
  BY <1>1
<1>3. Follows(a, l)
  BY <1>1, <1>2 DEF Paced, Follows
<1> QED BY <1>3 DEF Paced, Early, a

(* A request that goes on without a write or a hand-over *)
LEMMA PaceGoes ==
  ASSUME NEW p, NEW r, NEW g, NEW h, NEW q, NEW l, Paced(p, g, q, l),
         \/ r \notin Early \cup {"committed", "starting", "running", "persisting",
                                 "yieldCreated", "yieldEvent"}
         \/ r \in Early /\ p \in Early
         \/ r = "starting" /\ p = "committed"
         \/ r \in {"running", "persisting"} /\ p \in {"running", "persisting"}
         \/ r = "yieldEvent" /\ p = "running" /\ ~Shown(h)
  PROVE  Paced(r, h, q, l)
  BY DEF Paced, Early, Owed

(* A log that at most ends with a turn.done it did not have. *)
LogQuiet(u) ==
  \/ log'[u] = log[u]
  \/ \E e \in Events : ~Shown(e) /\ log'[u] = Append(log[u], e)

(* A terminal state adds its turn.done to one log. *)
LEMMA StateQuiet ==
  ASSUME StoreTypeOK, NEW t \in Turns, NEW s \in Status, NEW why,
         WriteTurnState(t, s, why, TurnDone(s))
  PROVE  \A u \in Turns : LogQuiet(u)
<1>1. TurnDone(s) \in Events /\ ~Shown(TurnDone(s))
  BY DEF TurnDone, Events, EventTypes, Shown
<1>2. log \in [Turns -> Seq(Events)]
  BY DEF StoreTypeOK
<1>3. log' = [log EXCEPT ![t] = Append(log[t], TurnDone(s))]
  BY DEF WriteTurnState
<1> HIDE DEF TurnDone
<1> QED BY <1>1, <1>2, <1>3 DEF LogQuiet

LEMMA FreezeQuiet ==
  ASSUME StoreTypeOK, NEW t \in Turns, NEW why, FreezeAndGetTurn(t, why)
  PROVE  \A u \in Turns : LogQuiet(u)
<1>1. CASE NonTerminal(t)
  <2>1. WriteTurnState(t, "cancelled", why, TurnDone("cancelled"))
    BY <1>1 DEF FreezeAndGetTurn
  <2>2. "cancelled" \in Status
    BY DEF Status, Terminal
  <2> QED BY <2>1, <2>2, StateQuiet
<1>2. CASE ~NonTerminal(t)
  BY <1>2 DEF FreezeAndGetTurn, LogQuiet, storeVars
<1> QED BY <1>1, <1>2

(* Whatever the log gains in this way, the pace is kept. *)
LEMMA QuietPace ==
  ASSUME ServerInv, NEW u \in Turns, PaceOK(u), LogQuiet(u), alive
  PROVE  Paced(pc[u], Handed(u), out[u], log'[u])
<1>1. log[u] \in Seq(Events)
  BY DEF ServerInv, TypeOK, StoreTypeOK
<1>2. Paced(pc[u], Handed(u), out[u], log[u])
  BY DEF PaceOK
<1>3. CASE log'[u] = log[u]
  BY <1>2, <1>3
<1>4. ASSUME NEW e \in Events, ~Shown(e), log'[u] = Append(log[u], e)
      PROVE  Paced(pc[u], Handed(u), out[u], log'[u])
  BY <1>1, <1>2, <1>4, HiddenRow
<1> QED BY <1>3, <1>4 DEF LogQuiet

(* A request that does not move *)
LEMMA PaceStands ==
  ASSUME ServerInv, NEW u \in Turns, PaceOK(u), Same(u),
         alive' => alive /\ LogQuiet(u)
  PROVE  PaceOK(u)'
<1>1. Handed(u)' = Handed(u) /\ pc'[u] = pc[u] /\ out'[u] = out[u]
  BY DEF Same, Handed
<1>2. alive' => Paced(pc[u], Handed(u), out[u], log'[u])
  BY QuietPace
<1> QED BY <1>1, <1>2 DEF PaceOK

(* A request that moves and hands nothing over *)
Onward(p, r, h) ==
  \/ r \notin Early \cup {"committed", "starting", "running", "persisting",
                          "yieldCreated", "yieldEvent"}
  \/ r \in Early /\ p \in Early
  \/ r = "starting" /\ p = "committed"
  \/ r \in {"running", "persisting"} /\ p \in {"running", "persisting"}
  \/ r = "yieldEvent" /\ p = "running" /\ ~Shown(h)

LEMMA PaceOnward ==
  ASSUME ServerInv, NEW u \in Turns, PaceOK(u), out'[u] = out[u],
         alive' => alive /\ LogQuiet(u), Onward(pc[u], pc'[u], Handed(u)')
  PROVE  PaceOK(u)'
<1>1. alive' => Paced(pc[u], Handed(u), out[u], log'[u])
  BY QuietPace
<1>2. alive' => Paced(pc'[u], Handed(u)', out[u], log'[u])
  BY <1>1, PaceGoes DEF Onward
<1> QED BY <1>2 DEF PaceOK

(* A request that appends a row to its log *)
LEMMA PaceRow ==
  ASSUME ServerInv, NEW u \in Turns, PaceOK(u), NEW e \in Events,
         out'[u] = out[u], AppendToEvents(u, e),
         pc[u] \in {"starting", "running", "persisting"},
         \/ pc'[u] \in {"yieldCreated", "yieldEvent"} /\ Handed(u)' = e
         \/ pc'[u] \in {"running", "persisting"} /\ ~Shown(e)
  PROVE  PaceOK(u)' /\ \A v \in Turns \ {u} : LogQuiet(v)
<1>1. /\ log \in [Turns -> Seq(Events)] /\ log[u] \in Seq(Events)
      /\ alive' = alive
      /\ log' = [log EXCEPT ![u] = Append(log[u], e)]
  BY DEF ServerInv, TypeOK, StoreTypeOK, AppendToEvents
<1>2. /\ log'[u] = Append(log[u], e)
      /\ \A v \in Turns \ {u} : log'[v] = log[v]
  BY <1>1
<1>3. alive => Paced(pc'[u], Handed(u)', out[u], Append(log[u], e))
  <2>1. SUFFICES ASSUME alive PROVE Paced(pc'[u], Handed(u)', out[u], Append(log[u], e))
    OBVIOUS
  <2>2. Paced(pc[u], Handed(u), out[u], log[u])
    BY <2>1 DEF PaceOK
  <2> QED BY <1>1, <2>2, RowThenYield
<1> QED BY <1>1, <1>2, <1>3 DEF PaceOK, LogQuiet

(* The rows of a turn move as createTurn, the events and the terminal      *)
(* write say; nothing else touches a log.                                  *)
LEMMA PaceQuietMoves ==
  ASSUME ServerInv, NEW r \in Turns, PaceOK(r), out' = out, alive' => alive,
         \A u \in Turns : LogQuiet(u), Onward(pc[r], pc'[r], Handed(r)')
  PROVE  PaceOK(r)' /\ \A u \in Turns \ {r} : LogQuiet(u)
  BY PaceOnward

(* Steps before the turn runs *)
LEMMA PaceStarts ==
  ASSUME ServerInv, NEW r \in Turns, PaceOK(r),
         \/ FreezePrevious(r) \/ Prepare(r) \/ CreateTurnFails(r)
         \/ \E m \in Modes, p \in Requested : Begin(r, m, p)
         \/ \E why : Track(r, why)
  PROVE  PaceOK(r)' /\ \A u \in Turns \ {r} : LogQuiet(u)
<1>0. /\ pc \in [Turns -> PCs] /\ StoreTypeOK
      /\ prevId[r] \in Turns \cup {NoTurn}
  BY DEF ServerInv, TypeOK, ExecTypeOK
<1>1. CASE \/ Prepare(r) \/ CreateTurnFails(r)
           \/ \E m \in Modes, p \in Requested : Begin(r, m, p)
           \/ \E why : Track(r, why)
  <2>1. out' = out /\ alive' = alive /\ log' = log
    BY <1>1 DEF Prepare, CreateTurnFails, Begin, Track, storeVars
  <2>2. Onward(pc[r], pc'[r], Handed(r)')
    BY <1>0, <1>1
       DEF Prepare, CreateTurnFails, Begin, Track, Goto, Onward, Early
  <2> QED BY <2>1, <2>2, PaceQuietMoves DEF LogQuiet
<1>2. CASE FreezePrevious(r)
  <2>1. out' = out
    BY <1>2 DEF FreezePrevious
  <2>2. alive' = alive
    BY <1>2 DEF FreezePrevious, FreezeAndGetTurn, WriteTurnState, storeVars
  <2>3. \A u \in Turns : LogQuiet(u)
    <3>1. CASE UNCHANGED storeVars
      BY <3>1 DEF storeVars, LogQuiet
    <3>2. CASE Present(prevId[r]) /\ FreezeAndGetTurn(prevId[r], "cancelled-for-next-turn")
      <4>1. prevId[r] \in Turns
        BY <1>0, <3>2 DEF Present
      <4> QED BY <1>0, <3>2, <4>1, FreezeQuiet
    <3> QED BY <1>2, <3>1, <3>2 DEF FreezePrevious
  <2>4. Onward(pc[r], pc'[r], Handed(r)')
    BY <1>0, <1>2 DEF FreezePrevious, Goto, Onward, Early
  <2> QED BY <2>1, <2>2, <2>3, <2>4, PaceQuietMoves
<1> QED BY <1>1, <1>2

LEMMA PaceCommits ==
  ASSUME ServerInv, NEW r \in Turns, PaceOK(r), Commit(r)
  PROVE  PaceOK(r)' /\ \A u \in Turns \ {r} : LogQuiet(u)
<1>1. /\ pc[r] = "committing" /\ pc'[r] = "committed" /\ out' = out
      /\ alive /\ log' = [log EXCEPT ![r] = <<>>]
      /\ log \in [Turns -> Seq(Events)]
  BY DEF Commit, CreateTurn, CanCreateTurn, Goto, ServerInv, TypeOK, ExecTypeOK,
         StoreTypeOK
<1>2. out[r] = <<>>
  BY <1>1 DEF PaceOK, Paced, Early
<1>3. \A h : Paced("committed", h, <<>>, <<>>)
  BY DEF Paced, Follows, Early
<1> QED BY <1>1, <1>2, <1>3 DEF PaceOK, LogQuiet

(* The rows of a running turn *)
LEMMA PaceWrites ==
  ASSUME ServerInv, NEW r \in Turns, PaceOK(r),
         \/ AppendTurnCreated(r) \/ PersistSecond(r)
         \/ \E k \in Kinds : PersistFirst(r, k)
  PROVE  PaceOK(r)' /\ \A u \in Turns \ {r} : LogQuiet(u)
<1>0. /\ pc \in [Turns -> PCs] /\ pend \in [Turns -> Kinds]
      /\ Event("turn.created") \in Events
  BY DEF ServerInv, TypeOK, ExecTypeOK, Events, Event, EventTypes, Status
<1>1. ASSUME NEW k \in Kinds, k # "delta" PROVE EventOf(k) \in Events
  BY <1>1, EventOfKind DEF Events, Event, EventTypes, Status
<1>2. CASE AppendTurnCreated(r)
  <2>1. /\ pc[r] = "starting" /\ pc'[r] = "yieldCreated" /\ out' = out
        /\ AppendToEvents(r, Event("turn.created"))
    BY <1>0, <1>2 DEF AppendTurnCreated, Goto
  <2>2. Handed(r)' = Event("turn.created")
    BY <2>1 DEF Handed
  <2> QED BY <1>0, <2>1, <2>2, PaceRow
<1>3. CASE PersistSecond(r)
  <2>1. /\ pc[r] = "persisting" /\ out' = out /\ pend' = pend
        /\ AppendToEvents(r, EventOf(pend[r]))
        /\ pc'[r] = IF pend[r] = "context" THEN "running" ELSE "yieldEvent"
        /\ pend[r] \in Kinds /\ pend[r] # "delta"
    BY <1>0, <1>3, InvParts DEF PersistSecond, Goto, StageOK
  <2>2. pend[r] = "context" => ~Shown(EventOf(pend[r]))
    BY DEF EventOf, Event, Shown
  <2>3. pc'[r] = "yieldEvent" => Handed(r)' = EventOf(pend[r])
    BY <2>1 DEF Handed
  <2> QED BY <1>1, <2>1, <2>2, <2>3, PaceRow
<1>4. ASSUME NEW k \in Kinds, PersistFirst(r, k)
      PROVE  PaceOK(r)' /\ \A u \in Turns \ {r} : LogQuiet(u)
  <2>0. pc[r] = "running" /\ out' = out /\ pend'[r] = k
    BY <1>0, <1>4 DEF PersistFirst
  <2>1. CASE k = "event" /\ AppendToEvents(r, EventOf(k)) /\ Goto(r, "yieldEvent")
    <3>1. pc'[r] = "yieldEvent" /\ Handed(r)' = EventOf(k)
      BY <1>0, <2>0, <2>1 DEF Goto, Handed
    <3> QED BY <1>1, <2>0, <2>1, <3>1, PaceRow
  <2>2. CASE k = "delta" /\ Goto(r, "yieldEvent") /\ UNCHANGED storeVars
    <3>1. pc'[r] = "yieldEvent" /\ Handed(r)' = EventOf(k)
      BY <1>0, <2>0, <2>2 DEF Goto, Handed
    <3>2. ~Shown(EventOf(k))
      BY <2>2 DEF EventOf, Shown
    <3>3. alive' = alive /\ \A u \in Turns : LogQuiet(u)
      BY <2>2 DEF storeVars, LogQuiet
    <3> QED BY <2>0, <3>1, <3>2, <3>3, PaceQuietMoves DEF Onward
  <2>3. CASE /\ SnapshotWrite(r, k)
             /\ Goto(r, IF k \in SnapshotOnly THEN "running" ELSE "persisting")
    <3>1. log' = log /\ alive' = alive
      <4>1. \E x : WriteSnapshot(r, x)
        BY <2>3 DEF SnapshotWrite, PatchThreadCapabilityState,
           OverwriteThreadContext, AppendToThreadContext, PatchCheckpoint,
           AddThread, RemoveThread
      <4> QED BY <4>1 DEF WriteSnapshot
    <3>2. pc'[r] \in {"running", "persisting"}
      BY <1>0, <2>3 DEF Goto
    <3> QED BY <2>0, <3>1, <3>2, PaceQuietMoves DEF Onward, LogQuiet
  <2> QED BY <1>4, <2>1, <2>2, <2>3 DEF PersistFirst
<1> QED BY <1>2, <1>3, <1>4

(* Leaving the loop, settling the terminal state *)
LEMMA PaceSettles ==
  ASSUME ServerInv, NEW r \in Turns, PaceOK(r),
         \/ \E how : Leave(r, how)
         \/ Frozen(r) \/ ComputeTerminal(r) \/ WriteTerminal(r) \/ Close(r)
         \/ DrainFails(r)
         \/ pc[r] = "writing" /\ StoreFails(r)
  PROVE  PaceOK(r)' /\ \A u \in Turns \ {r} : LogQuiet(u)
<1>0. pc \in [Turns -> PCs] /\ StoreTypeOK /\ want[r].status \in Status
  BY DEF ServerInv, TypeOK, ExecTypeOK
<1>1. out' = out
  BY DEF Leave, Frozen, ComputeTerminal, WriteTerminal, Close, DrainFails, StoreFails
<1>2. pc'[r] \in {"finishing", "writing", "closing", "ended", "yieldFrozen",
                  "yieldDone", "suspended"}
  BY <1>0 DEF Leave, Frozen, ComputeTerminal, WriteTerminal, Close, DrainFails,
              StoreFails, End, Goto
<1>3. Onward(pc[r], pc'[r], Handed(r)')
  BY <1>2 DEF Onward, Early
<1>4. alive' = alive /\ \A u \in Turns : LogQuiet(u)
  <2>1. CASE UNCHANGED storeVars
    BY <2>1 DEF storeVars, LogQuiet
  <2>2. CASE UpdateTurnTerminalState(r, want[r].status, want[r].reason)
    <3>1. WriteTurnState(r, want[r].status, want[r].reason, TurnDone(want[r].status))
      BY <2>2 DEF UpdateTurnTerminalState
    <3>2. alive' = alive
      BY <3>1 DEF WriteTurnState
    <3> QED BY <1>0, <3>1, <3>2, StateQuiet
  <2>3. \/ UNCHANGED storeVars
        \/ UpdateTurnTerminalState(r, want[r].status, want[r].reason)
    BY DEF Leave, Frozen, ComputeTerminal, WriteTerminal, Close, DrainFails, StoreFails
  <2> QED BY <2>1, <2>2, <2>3
<1> QED BY <1>1, <1>3, <1>4, PaceQuietMoves

(* Forwarding *)
LEMMA PaceDrains ==
  ASSUME ServerInv, NEW r \in Turns, PaceOK(r), Drain(r)
  PROVE  PaceOK(r)' /\ \A u \in Turns \ {r} : LogQuiet(u)
<1> DEFINE Out == [type : EventTypes \cup {"delta"}, status : Status]
<1>0. /\ pc \in [Turns -> PCs] /\ out \in [Turns -> Seq(Out)]
      /\ out[r] \in Seq(Out)
      /\ out' = [out EXCEPT ![r] = Append(out[r], Handed(r))]
      /\ log' = log /\ alive' = alive
      /\ pend[r] \in Kinds /\ want[r].status \in Status
  BY DEF ServerInv, TypeOK, ExecTypeOK, Drain, storeVars
<1>1. out'[r] = Append(out[r], Handed(r))
  BY <1>0
<1>2. Handed(r) \in Out
  <2>1. EventOf(pend[r]) \in Out
    BY <1>0, EventOfKind
  <2>2. Event("turn.created") \in Out /\ TurnDone(want[r].status) \in Out
    BY <1>0 DEF Event, TurnDone, EventTypes, Status
  <2> HIDE DEF Out
  <2> QED BY <2>1, <2>2 DEF Handed
<1> HIDE DEF Out
<1>3. CASE pc[r] \in {"yieldCreated", "yieldEvent"} /\ Goto(r, "running")
  <2>1. pc'[r] = "running"
    BY <1>0, <1>3 DEF Goto
  <2>2. alive => Paced("running", Handed(r)', Append(out[r], Handed(r)), log[r])
    BY <1>0, <1>2, <1>3, ForwardOwed DEF PaceOK
  <2> QED BY <1>0, <1>1, <2>1, <2>2 DEF PaceOK, LogQuiet
<1>4. CASE /\ pc[r] \in {"yieldFrozen", "yieldDone"}
           /\ Goto(r, "closing") \/ End(r)
  <2>1. pc'[r] \in {"closing", "ended"}
    BY <1>0, <1>4 DEF Goto, End
  <2>2. ~Shown(Handed(r))
    BY <1>4 DEF Handed, TurnDone, Shown
  <2>3. alive => Paced(pc'[r], Handed(r)', Append(out[r], Handed(r)), log[r])
    BY <1>0, <1>2, <2>1, <2>2, ForwardDone DEF PaceOK
  <2> QED BY <1>0, <1>1, <2>3 DEF PaceOK, LogQuiet
<1> QED BY <1>3, <1>4 DEF Drain

LEMMA PaceMoves ==
  ASSUME ServerInv, NEW r \in Turns, PaceOK(r), RequestActs(r)
  PROVE  PaceOK(r)' /\ \A u \in Turns \ {r} : LogQuiet(u)
<1>1. CASE TrackRun(r) \/ RequestFails(r) \/ \E e \in Executors : StartRequest(r, e)
  BY <1>1, PaceStarts DEF TrackRun, RequestFails, PrepareFails, StartRequest
<1>2. CASE RequestStep(r)
  BY <1>2, PaceStarts, PaceCommits, PaceWrites, PaceSettles, PaceDrains
     DEF RequestStep, Progress, CommitFails, AppendTurnCreatedFails, PersistFails
<1>3. CASE ProduceEvent(r) \/ FinishRun(r)
  BY <1>3, ServerAssumption, PaceWrites, PaceSettles
     DEF ProduceEvent, FinishRun, Interrupted, PersistFails, Finish
<1>4. CASE WriteFault(r)
  BY <1>4, PaceStarts, PaceSettles DEF WriteFault, StoreFails
<1> QED BY <1>1, <1>2, <1>3, <1>4 DEF RequestActs

(* What moves no request appends at most a freeze's turn.done. *)
LEMMA OthersQuiet ==
  ASSUME ServerInv, OtherActs
  PROVE  alive' => \A u \in Turns : LogQuiet(u)
<1>0. StoreTypeOK
  BY DEF ServerInv, TypeOK
<1>1. CASE \E c \in Cancels : CancelFreeze(c)
  <2>1. PICK c \in Cancels : CancelFreeze(c)
    BY <1>1
  <2>2. CASE Present(target[c])
    <3>1. target[c] \in Turns
      BY <2>2 DEF Present, ServerInv, TypeOK
    <3> QED BY <1>0, <2>1, <2>2, <3>1, FreezeQuiet DEF CancelFreeze
  <2>3. CASE ~Present(target[c])
    BY <2>1, <2>3 DEF CancelFreeze, storeVars, LogQuiet
  <2> QED BY <2>2, <2>3
<1>2. CASE DeleteHandler
  BY <1>2 DEF DeleteHandler, DeleteSession
<1>3. CASE UNCHANGED vars
  BY <1>3 DEF vars, storeVars, LogQuiet
<1>4. ASSUME log' = log PROVE \A u \in Turns : LogQuiet(u)
  BY <1>4 DEF LogQuiet
<1>5. CASE \E r \in Turns : Timeout(r) \/ Disconnect(r)
  BY <1>4, <1>5 DEF Timeout, Disconnect, AbortOnly, storeVars
<1>6. CASE \E c \in Cancels : \/ \E e \in Executors : CancelLoad(c, e)
                              \/ CancelCheck(c) \/ PeerHandle(c) \/ CancelReply(c)
  BY <1>4, <1>6 DEF CancelLoad, CancelCheck, PeerHandle, CancelReply, AbortOnly,
                    storeVars
<1>7. CASE \E e \in Executors : \/ ShutdownStart(e) \/ ShutdownDrained(e)
                                \/ ShutdownExit(e) \/ Kill(e)
  BY <1>4, <1>7 DEF ShutdownStart, ShutdownDrained, ShutdownExit, Kill, AbortOnly,
                    storeVars
<1> QED BY <1>1, <1>2, <1>3, <1>5, <1>6, <1>7 DEF OtherActs

LEMMA PaceStep == ServerInv /\ PaceInv /\ [Next]_vars => PaceInv'
<1> SUFFICES ASSUME ServerInv, PaceInv, [Next]_vars, NEW u \in Turns
             PROVE  PaceOK(u)'
  BY DEF PaceInv
<1>0. PaceOK(u)
  BY DEF PaceInv
<1>1. ASSUME NEW r \in Turns, RequestActs(r) PROVE PaceOK(u)'
  <2>1. Moves(r)
    BY <1>1, RequestMoves
  <2>2. alive' => alive
    BY <2>1 DEF Moves, Plain, Created
  <2>3. CASE u = r
    BY <1>0, <1>1, <2>3, PaceMoves
  <2>4. CASE u # r
    <3>1. Same(u)
      BY <2>1, <2>4 DEF Moves
    <3>2. LogQuiet(u)
      BY <1>1, <2>4, PaceMoves DEF PaceInv
    <3> QED BY <1>0, <2>2, <3>1, <3>2, PaceStands
  <2> QED BY <2>3, <2>4
<1>2. ASSUME OtherActs PROVE PaceOK(u)'
  <2>1. Same(u) /\ (alive' => alive)
    BY <1>2, OtherRests DEF Rests, PlainStore, Plain
  <2> QED BY <1>0, <1>2, <2>1, OthersQuiet, PaceStands
<1> QED BY <1>1, <1>2, NextCases

LEMMA PaceInit == Init => PaceInv
<1> SUFFICES ASSUME Init, NEW u \in Turns PROVE PaceOK(u)
  BY DEF PaceInv
<1>1. pc[u] = "idle" /\ out[u] = <<>> /\ log[u] = <<>>
  BY DEF Init, StoreInit, ExecInit
<1>2. \A h : Paced("idle", h, <<>>, <<>>)
  BY DEF Paced, Follows, Early
<1> QED BY <1>1, <1>2 DEF PaceOK

(* persistExecutionEvent before yield: the n-th event a client is shown is *)
(* the n-th such row of the turn's log, whoever freezes the turn, whatever *)
(* write fails and wherever the stream is cut.                             *)
THEOREM PersistedBeforeYield == Spec => []PersistBeforeYield
<1>1. PaceInv => PersistBeforeYield
  BY DEF PaceInv, PaceOK, Paced, Follows, PersistBeforeYield
<1> QED BY <1>1, PaceInit, PaceStep, ServerInvariant, PTL DEF Spec
=============================================================================
