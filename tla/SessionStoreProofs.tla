-------------------------- MODULE SessionStoreProofs --------------------------
(***************************************************************************)
(* Proofs about SessionStore, for every set of turns and threads.  The     *)
(* steps of StoreNext fall into five shapes (a turn is created, changes    *)
(* state, gets an event row, gets a new snapshot; the session is deleted); *)
(* StepShapes reduces StoreNext to them once, and the invariants are       *)
(* preserved shape by shape.                                               *)
(*                                                                         *)
(* Second part: the Postgres transactions implement the atomic operations  *)
(* of SessionStore, for any connections, so its invariants hold of the     *)
(* committed rows.  The inductive invariant PgInv says that the locks held *)
(* do not conflict and what each open transaction may still rely on of     *)
(* what it has read.                                                       *)
(***************************************************************************)
EXTENDS PostgresStore, FiniteSetTheorems, TLAPS

(* A state write to a live turn, with the lifecycle row it appends. *)
StateStep(t, s, r, e) ==
  /\ NonTerminal(t)
  /\ s \in Status /\ r \in Reasons \cup {NoReason}
  /\ \/ s \in Terminal /\ e = TurnDone(s)
     \/ s \in NonTerminalStatus /\ e = Event("turn.update")
  /\ WriteTurnState(t, s, r, e)

EventStep(t, type) ==
  type \in EventTypes \ {"turn.done"} /\ AppendToEvents(t, Event(type))

(* A snapshot write adds nothing of another turn. *)
OwnOnly(t, snap) ==
  /\ \A th \in Threads :
       /\ \A i \in 1..Len(snap.context[th]) :
            snap.context[th][i] \in {t} \cup Origins(t, th)
       /\ snap.capability[th] \in {t, NoTurn, snapshot[t].capability[th]}
  /\ snap.checkpoint \in {t, snapshot[t].checkpoint}

SnapshotStep(t, snap) ==
  snap \in Snapshots /\ OwnOnly(t, snap) /\ WriteSnapshot(t, snap)

CreateStep(t, prev, new, app, cl) ==
  /\ prev = NoTurn \/ Present(prev)
  /\ CreateTurn(t, prev, new, app, Known(prev) \cup new, cl)

Shapes ==
  \/ \E t \in Turns, prev \in Turns \cup {NoTurn},
        new, app, cl \in SUBSET Threads : CreateStep(t, prev, new, app, cl)
  \/ \E t \in Turns, s \in Status, r \in Reasons \cup {NoReason},
        e \in Events : StateStep(t, s, r, e)
  \/ \E t \in Turns, type \in EventTypes : EventStep(t, type)
  \/ \E t \in Turns, snap \in Snapshots : SnapshotStep(t, snap)
  \/ DeleteSession
  \/ UNCHANGED storeVars

-----------------------------------------------------------------------------
(* The parts of a typed snapshot *)
LEMMA SnapshotParts ==
  ASSUME StoreTypeOK, NEW t \in Turns
  PROVE  /\ snapshot[t] \in Snapshots
         /\ snapshot[t].threads \in SUBSET Threads
         /\ snapshot[t].context \in [Threads -> Seq(Turns)]
         /\ snapshot[t].capability \in [Threads -> Turns \cup {NoTurn}]
         /\ snapshot[t].checkpoint \in Turns \cup {NoTurn}
  BY DEF StoreTypeOK, Snapshots

(* addThreads and removeThreads leave a typed snapshot with nothing new. *)
LEMMA ThreadRows ==
  ASSUME StoreTypeOK, NEW t \in Turns, NEW th \in Threads,
         AddThread(t, th) \/ RemoveThread(t, th)
  PROVE  \E snap \in Snapshots : SnapshotStep(t, snap)
<1> DEFINE snap(ths) == [snapshot[t] EXCEPT !.threads = ths,
                                            !.context[th] = <<>>,
                                            !.capability[th] = NoTurn]
<1>1. ASSUME NEW ths \in SUBSET Threads
      PROVE  snap(ths) \in Snapshots /\ OwnOnly(t, snap(ths))
  <2>1. <<>> \in Seq(Turns) /\ Len(<<>>) = 0
    OBVIOUS
  <2>2. /\ snap(ths).threads = ths
        /\ snap(ths).context = [snapshot[t].context EXCEPT ![th] = <<>>]
        /\ snap(ths).capability = [snapshot[t].capability EXCEPT ![th] = NoTurn]
        /\ snap(ths).checkpoint = snapshot[t].checkpoint
    BY SnapshotParts DEF Snapshots
  <2>3. snap(ths) \in Snapshots
    BY <2>1, SnapshotParts DEF Snapshots
  <2>4. OwnOnly(t, snap(ths))
    BY <2>1, <2>2, SnapshotParts DEF OwnOnly, Origins
  <2> QED BY <2>3, <2>4
<1>2. CASE AddThread(t, th)
  <2>1. WriteSnapshot(t, snap(snapshot[t].threads \cup {th}))
    BY <1>2, SnapshotParts DEF AddThread, Snapshots
  <2> QED BY <1>1, <2>1, SnapshotParts DEF SnapshotStep
<1>3. CASE RemoveThread(t, th)
  <2>1. WriteSnapshot(t, snap(snapshot[t].threads \ {th}))
    BY <1>3, SnapshotParts DEF RemoveThread, Snapshots
  <2> QED BY <1>1, <2>1, SnapshotParts DEF SnapshotStep
<1> QED BY <1>2, <1>3

(* The other snapshot writes change one part. *)
LEMMA OtherSnapshotWrites ==
  ASSUME StoreTypeOK, NEW t \in Turns, NEW th \in Threads,
         \/ AppendToThreadContext(t, th)
         \/ \E ctx \in Compactions(t, th) : OverwriteThreadContext(t, th, ctx)
         \/ PatchCheckpoint(t)
         \/ \E clear \in BOOLEAN : PatchThreadCapabilityState(t, th, clear)
  PROVE  \E snap \in Snapshots : SnapshotStep(t, snap)
<1> DEFINE ctx0 == snapshot[t].context[th]
<1>0. ctx0 \in Seq(Turns) /\ Len(ctx0) \in Nat
  BY SnapshotParts
<1>1. ASSUME NEW ctx \in Seq(Turns),
             \A i \in 1..Len(ctx) : ctx[i] \in {t} \cup Origins(t, th),
             WriteSnapshot(t, [snapshot[t] EXCEPT !.context[th] = ctx])
      PROVE  \E snap \in Snapshots : SnapshotStep(t, snap)
  <2> DEFINE snap == [snapshot[t] EXCEPT !.context[th] = ctx]
  <2>1. /\ snap \in Snapshots
        /\ snap.context = [snapshot[t].context EXCEPT ![th] = ctx]
        /\ snap.capability = snapshot[t].capability
        /\ snap.checkpoint = snapshot[t].checkpoint
    BY SnapshotParts DEF Snapshots
  <2>2. OwnOnly(t, snap)
    BY <1>1, <2>1, SnapshotParts DEF OwnOnly, Origins
  <2> QED BY <1>1, <2>1, <2>2 DEF SnapshotStep
<1>2. CASE AppendToThreadContext(t, th)
  <2>1. /\ Append(ctx0, t) \in Seq(Turns)
        /\ \A i \in 1..Len(Append(ctx0, t)) :
              Append(ctx0, t)[i] \in {t} \cup Origins(t, th)
    BY <1>0 DEF Origins
  <2> QED BY <1>1, <1>2, <2>1 DEF AppendToThreadContext
<1>3. CASE \E ctx \in Compactions(t, th) : OverwriteThreadContext(t, th, ctx)
  <2>1. PICK k \in 2..(Len(ctx0) + 1) :
          OverwriteThreadContext(t, th, <<t>> \o SubSeq(ctx0, k, Len(ctx0)))
    BY <1>3 DEF Compactions
  <2> DEFINE tail == SubSeq(ctx0, k, Len(ctx0))
             ctx  == <<t>> \o tail
  <2>2. /\ tail \in Seq(Turns)
        /\ \A i \in 1..Len(tail) : tail[i] \in Origins(t, th)
    BY <1>0 DEF Origins
  <2>3. <<t>> \in Seq(Turns) /\ Len(<<t>>) = 1 /\ <<t>>[1] = t
    OBVIOUS
  <2>4. /\ ctx \in Seq(Turns)
        /\ \A i \in 1..Len(ctx) : ctx[i] \in {t} \cup Origins(t, th)
    <3> HIDE DEF tail
    <3> QED BY <2>2, <2>3
  <2> QED BY <1>1, <2>1, <2>4 DEF OverwriteThreadContext
<1>4. CASE PatchCheckpoint(t)
  <2> DEFINE snap == [snapshot[t] EXCEPT !.checkpoint = t]
  <2>1. /\ snap \in Snapshots
        /\ snap.context = snapshot[t].context
        /\ snap.capability = snapshot[t].capability
        /\ snap.checkpoint = t
    BY SnapshotParts DEF Snapshots
  <2>2. OwnOnly(t, snap)
    BY <2>1, SnapshotParts DEF OwnOnly, Origins
  <2> QED BY <1>4, <2>1, <2>2 DEF SnapshotStep, PatchCheckpoint
<1>5. CASE \E clear \in BOOLEAN : PatchThreadCapabilityState(t, th, clear)
  <2>1. PICK x \in {t, NoTurn} :
          WriteSnapshot(t, [snapshot[t] EXCEPT !.capability[th] = x])
    BY <1>5 DEF PatchThreadCapabilityState
  <2> DEFINE snap == [snapshot[t] EXCEPT !.capability[th] = x]
  <2>2. /\ snap \in Snapshots
        /\ snap.context = snapshot[t].context
        /\ snap.capability = [snapshot[t].capability EXCEPT ![th] = x]
        /\ snap.checkpoint = snapshot[t].checkpoint
    BY SnapshotParts DEF Snapshots
  <2>3. OwnOnly(t, snap)
    BY <2>2, SnapshotParts DEF OwnOnly, Origins
  <2> QED BY <2>1, <2>2, <2>3 DEF SnapshotStep
<1> QED BY <1>2, <1>3, <1>4, <1>5

(* Every step of a store client has one of the shapes. *)
LEMMA StepShapes ==
  ASSUME StoreTypeOK, [StoreNext]_storeVars
  PROVE  Shapes
<1>1. ASSUME NEW t \in Turns, NEW prev \in Turns \cup {NoTurn},
             prev = NoTurn \/ Present(prev),
             NEW cl \in SUBSET Known(prev),
             NEW new \in SUBSET (Threads \ Known(prev)),
             NEW app \in SUBSET (Known(prev) \cup new),
             CreateTurn(t, prev, new, app, Known(prev) \cup new, cl)
      PROVE  Shapes
  <2>1. Known(prev) \subseteq Threads
    BY SnapshotParts DEF Known, Present
  <2>2. cl \in SUBSET Threads /\ new \in SUBSET Threads /\ app \in SUBSET Threads
    BY <2>1
  <2>3. CreateStep(t, prev, new, app, cl)
    BY <1>1 DEF CreateStep
  <2> QED BY <2>2, <2>3 DEF Shapes
<1>2. ASSUME NEW t \in Turns, NEW r \in Reasons \cup {NoReason},
             NEW s \in Terminal, NonTerminal(t),
             WriteTurnState(t, s, r, TurnDone(s))
      PROVE  Shapes
  <2>1. /\ s \in Status
        /\ TurnDone(s) \in Events
    BY DEF Status, TurnDone, EventTypes, Events
  <2> QED BY <1>2, <2>1 DEF Shapes, StateStep
<1>3. CASE \E t \in Turns, r \in ClientReasons : FreezeAndGetTurn(t, r)
  BY <1>2, <1>3, StoreAssumption DEF FreezeAndGetTurn, Shapes, Terminal, Reasons
<1>4. CASE \E t \in Turns, s \in {"done", "error"} :
             UpdateTurnTerminalState(t, s, NoReason)
  BY <1>2, <1>4 DEF UpdateTurnTerminalState, Terminal
<1>5. CASE \E t \in Turns, r \in ClientReasons :
             UpdateTurnTerminalState(t, "cancelled", r)
  BY <1>2, <1>5, StoreAssumption DEF UpdateTurnTerminalState, Terminal, Reasons
<1>6. CASE \E t \in Turns, s \in NonTerminalStatus :
             Len(log[t]) < MaxLog /\ UpdateTurnNonTerminalState(t, s)
  <2>1. PICK t \in Turns, s \in NonTerminalStatus :
               UpdateTurnNonTerminalState(t, s)
    BY <1>6
  <2>2. /\ t # NoTurn /\ NonTerminal(t)
        /\ WriteTurnState(t, s, NoReason, Event("turn.update"))
    BY <2>1, StoreAssumption
       DEF UpdateTurnNonTerminalState, NonTerminal, NonTerminalStatus
  <2>3. /\ Event("turn.update") \in Events
        /\ s \in Status
    BY DEF Event, EventTypes, Status, Events
  <2> QED BY <2>2, <2>3 DEF StateStep, Shapes
<1>7. CASE \E t \in Turns, e \in ClientEvents :
             Len(log[t]) < MaxLog /\ AppendToEvents(t, Event(e))
  BY <1>7, StoreAssumption DEF Shapes, EventStep, EventTypes
<1>8. CASE \E t \in Turns, th \in Threads : AddThread(t, th)
  BY <1>8, ThreadRows DEF Shapes
<1>9. CASE \E t \in Turns, th \in Threads : RemoveThread(t, th)
  BY <1>9, ThreadRows DEF Shapes
<1>10. CASE \E t \in Turns, th \in Threads :
              /\ Len(snapshot[t].context[th]) < MaxContext
              /\ AppendToThreadContext(t, th)
  BY <1>10, OtherSnapshotWrites DEF Shapes
<1>11. CASE \E t \in Turns, th \in Threads : \E ctx \in Compactions(t, th) :
              OverwriteThreadContext(t, th, ctx)
  BY <1>11, OtherSnapshotWrites DEF Shapes
<1>12. CASE \E t \in Turns : PatchCheckpoint(t)
  BY <1>12, StoreAssumption, OtherSnapshotWrites DEF Shapes
<1>13. CASE \E t \in Turns, th \in Threads, clear \in BOOLEAN :
              PatchThreadCapabilityState(t, th, clear)
  BY <1>13, OtherSnapshotWrites DEF Shapes
<1>14. CASE DeleteSession \/ UNCHANGED storeVars
  BY <1>14 DEF Shapes
<1> QED
  BY <1>1, <1>3, <1>4, <1>5, <1>6, <1>7, <1>8, <1>9, <1>10, <1>11, <1>12,
     <1>13, <1>14 DEF StoreNext

(* What a new turn's snapshot holds is its own or its previous turn's. *)
Copied(t, prev, snap) ==
  /\ \A th \in Threads : \A i \in 1..Len(snap.context[th]) :
       \/ snap.context[th][i] = t
       \/ prev # NoTurn /\ snap.context[th][i] \in Origins(prev, th)
  /\ \A th \in Threads :
       \/ snap.capability[th] = NoTurn
       \/ prev # NoTurn /\ snap.capability[th] = snapshot[prev].capability[th]
  /\ \/ snap.checkpoint = NoTurn
     \/ prev # NoTurn /\ snap.checkpoint = snapshot[prev].checkpoint

(* What createTurn copies is a typed snapshot of that kind. *)
LEMMA DeltaSnapshot ==
  ASSUME StoreTypeOK, NEW t \in Turns, NEW prev \in Turns \cup {NoTurn},
         prev = NoTurn \/ Present(prev),
         NEW new \in SUBSET Threads, NEW app \in SUBSET Threads,
         NEW cl \in SUBSET Threads
  PROVE  /\ SnapshotFromDelta(t, prev, new, app, cl) \in Snapshots
         /\ Copied(t, prev, SnapshotFromDelta(t, prev, new, app, cl))
<1> DEFINE old == IF prev = NoTurn THEN EmptySnapshot ELSE snapshot[prev]
           left(th) == IF th \in new THEN <<>> ELSE old.context[th]
           right(th) == IF th \in app THEN <<t>> ELSE <<>>
           ctx == [th \in Threads |-> left(th) \o right(th)]
           caps == [th \in Threads |->
                      IF th \in cl THEN old.capability[th] ELSE NoTurn]
           snap == [old EXCEPT !.threads = old.threads \cup new,
                               !.context = ctx, !.capability = caps]
<1>1. SnapshotFromDelta(t, prev, new, app, cl) = snap
  BY DEF SnapshotFromDelta, Present
<1>2. /\ old \in Snapshots
      /\ old.threads \in SUBSET Threads
      /\ old.context \in [Threads -> Seq(Turns)]
      /\ old.capability \in [Threads -> Turns \cup {NoTurn}]
      /\ old.checkpoint \in Turns \cup {NoTurn}
  <2>1. CASE prev = NoTurn
    BY <2>1 DEF EmptySnapshot, Snapshots
  <2>2. CASE prev # NoTurn
    BY <2>2, SnapshotParts
  <2> QED BY <2>1, <2>2
<1>3. ASSUME NEW th \in Threads
      PROVE  /\ left(th) \in Seq(Turns) /\ right(th) \in Seq(Turns)
             /\ \A i \in 1..Len(left(th)) :
                  prev # NoTurn /\ left(th)[i] \in Origins(prev, th)
             /\ \A i \in 1..Len(right(th)) : right(th)[i] = t
  <2>1. left(th) \in Seq(Turns)
    BY <1>2
  <2>2. \A i \in 1..Len(left(th)) :
           prev # NoTurn /\ left(th)[i] \in Origins(prev, th)
    <3>1. CASE th \in new \/ prev = NoTurn
      BY <3>1 DEF EmptySnapshot
    <3>2. CASE th \notin new /\ prev # NoTurn
      BY <3>2 DEF Origins
    <3> QED BY <3>1, <3>2
  <2>3. right(th) \in Seq(Turns) /\ \A i \in 1..Len(right(th)) : right(th)[i] = t
    OBVIOUS
  <2> QED BY <2>1, <2>2, <2>3
<1>4. ASSUME NEW th \in Threads
      PROVE  /\ ctx[th] \in Seq(Turns)
             /\ \A i \in 1..Len(ctx[th]) :
                  \/ ctx[th][i] = t
                  \/ prev # NoTurn /\ ctx[th][i] \in Origins(prev, th)
  <2>1. ctx[th] = left(th) \o right(th)
    OBVIOUS
  <2> HIDE DEF left, right, ctx
  <2>2. /\ left(th) \o right(th) \in Seq(Turns)
        /\ Len(left(th) \o right(th)) = Len(left(th)) + Len(right(th))
        /\ \A i \in 1..(Len(left(th)) + Len(right(th))) :
             (left(th) \o right(th))[i] =
               IF i <= Len(left(th)) THEN left(th)[i]
                                     ELSE right(th)[i - Len(left(th))]
    BY <1>3
  <2>3. Len(left(th)) \in Nat /\ Len(right(th)) \in Nat
    BY <1>3
  <2> QED BY <1>3, <2>1, <2>2, <2>3
<1>5. /\ snap.context = ctx
      /\ \A th \in Threads :
           snap.capability[th] \in {NoTurn, old.capability[th]}
      /\ snap.checkpoint = old.checkpoint
      /\ snap.threads = old.threads \cup new
      /\ snap \in Snapshots
  <2>1. ctx \in [Threads -> Seq(Turns)]
    BY <1>4
  <2>2. /\ caps \in [Threads -> Turns \cup {NoTurn}]
        /\ \A th \in Threads : caps[th] \in {NoTurn, old.capability[th]}
    <3> HIDE DEF old
    <3> QED BY <1>2
  <2> HIDE DEF ctx, caps, old
  <2> QED BY <1>2, <2>1, <2>2 DEF Snapshots
<1>6. Copied(t, prev, snap)
  <2>1. prev = NoTurn => /\ old.checkpoint = NoTurn
                         /\ \A th \in Threads : old.capability[th] = NoTurn
    BY DEF EmptySnapshot
  <2>2. prev # NoTurn => old = snapshot[prev]
    OBVIOUS
  <2> HIDE DEF snap, ctx, old
  <2> QED BY <1>4, <1>5, <2>1, <2>2 DEF Copied
<1> HIDE DEF snap
<1> QED BY <1>1, <1>5, <1>6

-----------------------------------------------------------------------------
(* Appending a typed row to a typed log keeps it typed. *)
LEMMA AppendType ==
  ASSUME NEW S, NEW q \in Seq(S), NEW e \in S
  PROVE  Append(q, e) \in Seq(S)
  OBVIOUS

(* createSession leaves the store typed. *)
LEMMA TypeInit == StoreInit => StoreTypeOK
<1> SUFFICES ASSUME StoreInit PROVE StoreTypeOK
  OBVIOUS
<1>1. EmptySnapshot \in Snapshots
  BY DEF EmptySnapshot, Snapshots
<1>2. <<>> \in Seq(Events)
  OBVIOUS
<1> QED BY <1>1, <1>2 DEF StoreInit, StoreTypeOK, Status, NoReason

(* Every shape of store step keeps the store typed. *)
LEMMA ShapesTyped ==
  ASSUME StoreTypeOK, Shapes PROVE StoreTypeOK'
<1>1. ASSUME NEW t \in Turns, NEW prev \in Turns \cup {NoTurn},
             NEW new \in SUBSET Threads, NEW app \in SUBSET Threads,
             NEW cl \in SUBSET Threads,
             CreateStep(t, prev, new, app, cl)
      PROVE  StoreTypeOK'
  <2>1. SnapshotFromDelta(t, prev, new, app, cl) \in Snapshots
    BY <1>1, DeltaSnapshot DEF CreateStep
  <2>2. <<>> \in Seq(Events)
    OBVIOUS
  <2>3. "running" \in Status /\ NoReason \in Reasons \cup {NoReason}
    BY DEF Status, NonTerminalStatus
  <2>4. /\ alive' = alive /\ folds' = folds
        /\ status' = [status EXCEPT ![t] = "running"]
        /\ reason' = [reason EXCEPT ![t] = NoReason]
        /\ previous' = [previous EXCEPT ![t] = prev]
        /\ snapshot' = [snapshot EXCEPT ![t] =
                          SnapshotFromDelta(t, prev, new, app, cl)]
        /\ log' = [log EXCEPT ![t] = <<>>]
        /\ lastTurn' = [id |-> t, status |-> "running"]
        /\ totalTurns' = totalTurns + 1
    BY <1>1 DEF CreateStep, CreateTurn
  <2> QED BY <2>1, <2>2, <2>3, <2>4 DEF StoreTypeOK
<1>2. ASSUME NEW t \in Turns, NEW s \in Status,
             NEW r \in Reasons \cup {NoReason},
             NEW e \in Events,
             StateStep(t, s, r, e)
      PROVE  StoreTypeOK'
  <2>1. Append(log[t], e) \in Seq(Events)
    BY AppendType DEF StoreTypeOK
  <2>2. /\ alive' = alive /\ previous' = previous /\ snapshot' = snapshot
        /\ totalTurns' = totalTurns
        /\ status' = [status EXCEPT ![t] = s]
        /\ reason' = [reason EXCEPT ![t] = r]
        /\ log' = [log EXCEPT ![t] = Append(log[t], e)]
    BY <1>2 DEF StateStep, WriteTurnState
  <2>3. /\ folds' \in [Turns -> Nat]
        /\ lastTurn' \in [id : Turns \cup {NoTurn}, status : Status]
    BY <1>2 DEF StateStep, WriteTurnState, ApplyTurnStateToSession, StoreTypeOK
  <2> QED BY <2>1, <2>2, <2>3 DEF StoreTypeOK
<1>3. ASSUME NEW t \in Turns, NEW type \in EventTypes, EventStep(t, type)
      PROVE  StoreTypeOK'
  <2>1. Event(type) \in Events
    BY DEF Event, Status, Events
  <2>2. Append(log[t], Event(type)) \in Seq(Events)
    BY <2>1, AppendType DEF StoreTypeOK
  <2> QED BY <1>3, <2>2 DEF EventStep, AppendToEvents, StoreTypeOK
<1>4. ASSUME NEW t \in Turns, NEW snap \in Snapshots, SnapshotStep(t, snap)
      PROVE  StoreTypeOK'
  BY <1>4 DEF SnapshotStep, WriteSnapshot, StoreTypeOK
<1>5. CASE DeleteSession
  <2>1. EmptySnapshot \in Snapshots
    BY DEF EmptySnapshot, Snapshots
  <2>2. <<>> \in Seq(Events)
    OBVIOUS
  <2> QED BY <1>5, <2>1, <2>2 DEF DeleteSession, StoreTypeOK, Status, NoReason
<1>6. CASE UNCHANGED storeVars
  BY <1>6 DEF storeVars, StoreTypeOK
<1> QED BY <1>1, <1>2, <1>3, <1>4, <1>5, <1>6 DEF Shapes

(* Every store operation keeps the store typed, whichever client calls it. *)
LEMMA TypeStep == StoreTypeOK /\ [StoreNext]_storeVars => StoreTypeOK'
  BY StepShapes, ShapesTyped

(* The turn rows, snapshots, logs and session fields stay well formed      *)
(* under every sequence of ISessionStore calls.                            *)
THEOREM StoreTypeCorrect == StoreSpec => []StoreTypeOK
  BY TypeInit, TypeStep, PTL DEF StoreSpec

-----------------------------------------------------------------------------
(* The statuses are pairwise distinct. *)
LEMMA StatusFacts ==
  /\ \A s \in Terminal : s # "absent" /\ s \notin NonTerminalStatus
  /\ "absent" \notin Terminal /\ "running" \notin Terminal
  /\ "running" # "absent"
  /\ \A s \in Status : s \notin Terminal /\ s # "absent" =>
                         s \in NonTerminalStatus
  BY DEF Terminal, NonTerminalStatus, Status

(* Appending one row to a sequence *)
LEMMA AppendFacts ==
  ASSUME NEW S, NEW q \in Seq(S), NEW e
  PROVE  /\ Len(q) \in Nat
         /\ Len(Append(q, e)) = Len(q) + 1
         /\ Append(q, e)[Len(q) + 1] = e
         /\ \A i \in 1..Len(q) : Append(q, e)[i] = q[i]
  OBVIOUS

(* No operation appends behind turn.done, and none ends a turn without it: *)
(* state writes append their row in the same step, event writes are fenced *)
(* on a running turn.                                                      *)
LEMMA LogSealedStep ==
  ASSUME StoreTypeOK, LogSealed, Shapes PROVE LogSealed'
<1> DEFINE Sealed(u) ==
      /\ status[u] \in Terminal =>
           log[u] # <<>> /\ log[u][Len(log[u])] = TurnDone(status[u])
      /\ \A i \in 1..Len(log[u]) :
           log[u][i].type = "turn.done" =>
             i = Len(log[u]) /\ status[u] \in Terminal
<1>0. /\ \A u \in Turns : Sealed(u)
      /\ LogSealed' <=> \A u \in Turns : Sealed(u)'
      /\ status \in [Turns -> Status] /\ log \in [Turns -> Seq(Events)]
  BY DEF LogSealed, StoreTypeOK
<1>1. ASSUME NEW t \in Turns, NEW prev, NEW new, NEW app,
             NEW cl, CreateStep(t, prev, new, app, cl)
      PROVE  LogSealed'
  <2>1. /\ status' = [status EXCEPT ![t] = "running"]
        /\ log' = [log EXCEPT ![t] = <<>>]
    BY <1>1 DEF CreateStep, CreateTurn
  <2> QED BY <1>0, <2>1, StatusFacts
<1>2. ASSUME NEW t \in Turns, NEW s \in Status, NEW r,
             NEW e \in Events, StateStep(t, s, r, e)
      PROVE  LogSealed'
  <2>1. /\ status' = [status EXCEPT ![t] = s]
        /\ log' = [log EXCEPT ![t] = Append(log[t], e)]
        /\ status[t] \notin Terminal
        /\ \/ s \in Terminal /\ e = TurnDone(s) /\ e.type = "turn.done"
           \/ s \notin Terminal /\ e.type = "turn.update"
    BY <1>2, StatusFacts DEF StateStep, WriteTurnState, NonTerminal, TurnDone, Event
  <2>2. /\ Len(log[t]) \in Nat
        /\ Len(Append(log[t], e)) = Len(log[t]) + 1
        /\ Append(log[t], e)[Len(log[t]) + 1] = e
        /\ \A i \in 1..Len(log[t]) : Append(log[t], e)[i] = log[t][i]
    BY <1>0, AppendFacts
  <2>3. \A i \in 1..Len(log[t]) : log[t][i].type # "turn.done"
    BY <1>0, <2>1
  <2>4. Sealed(t)'
    <3>1. status'[t] = s /\ log'[t] = Append(log[t], e)
      BY <1>0, <2>1
    <3>2. \A i \in 1..Len(log'[t]) :
             i \in 1..Len(log[t]) \/ i = Len(log[t]) + 1
      BY <2>2, <3>1
    <3>3. Append(log[t], e) # <<>>
      BY <2>2
    <3> QED BY <2>1, <2>2, <2>3, <3>1, <3>2, <3>3
  <2>5. ASSUME NEW u \in Turns, u # t PROVE Sealed(u)'
    <3>1. status'[u] = status[u] /\ log'[u] = log[u]
      BY <1>0, <2>1, <2>5
    <3> QED BY <1>0, <3>1
  <2> QED BY <1>0, <2>4, <2>5
<1>3. ASSUME NEW t \in Turns, NEW type \in EventTypes, EventStep(t, type)
      PROVE  LogSealed'
  <2> DEFINE e == Event(type)
  <2>1. /\ status' = status /\ status[t] = "running"
        /\ log' = [log EXCEPT ![t] = Append(log[t], e)]
        /\ e.type # "turn.done"
    BY <1>3 DEF EventStep, AppendToEvents, RequireRunning, Event
  <2> HIDE DEF e
  <2>2. /\ Len(log[t]) \in Nat
        /\ Len(Append(log[t], e)) = Len(log[t]) + 1
        /\ Append(log[t], e)[Len(log[t]) + 1] = e
        /\ \A i \in 1..Len(log[t]) : Append(log[t], e)[i] = log[t][i]
    BY <1>0, AppendFacts
  <2>3. \A i \in 1..Len(log[t]) : log[t][i].type # "turn.done"
    BY <1>0, <2>1, StatusFacts
  <2>4. Sealed(t)'
    <3>1. status'[t] = "running" /\ log'[t] = Append(log[t], e)
      BY <1>0, <2>1
    <3>2. \A i \in 1..Len(log'[t]) :
             i \in 1..Len(log[t]) \/ i = Len(log[t]) + 1
      BY <2>2, <3>1
    <3> QED BY <2>1, <2>2, <2>3, <3>1, <3>2, StatusFacts
  <2>5. ASSUME NEW u \in Turns, u # t PROVE Sealed(u)'
    <3>1. status'[u] = status[u] /\ log'[u] = log[u]
      BY <1>0, <2>1, <2>5
    <3> QED BY <1>0, <3>1
  <2> QED BY <1>0, <2>4, <2>5
<1>4. ASSUME NEW t \in Turns, NEW snap, SnapshotStep(t, snap)
      PROVE  LogSealed'
  BY <1>0, <1>4 DEF SnapshotStep, WriteSnapshot
<1>5. CASE DeleteSession
  <2>1. /\ status' = [u \in Turns |-> "absent"]
        /\ log' = [u \in Turns |-> <<>>]
    BY <1>5 DEF DeleteSession
  <2> QED BY <1>0, <2>1, StatusFacts
<1>6. CASE UNCHANGED storeVars
  BY <1>0, <1>6 DEF storeVars
<1> QED BY <1>1, <1>2, <1>3, <1>4, <1>5, <1>6 DEF Shapes

(* Only a write that makes a live turn terminal folds it into the metrics. *)
LEMMA FoldedOnceStep ==
  ASSUME StoreTypeOK, FoldedOnce, Shapes PROVE FoldedOnce'
<1>0. /\ status \in [Turns -> Status] /\ folds \in [Turns -> Nat]
      /\ \A u \in Turns : folds[u] = IF status[u] \in Terminal THEN 1 ELSE 0
  BY DEF StoreTypeOK, FoldedOnce
<1>1. ASSUME NEW t \in Turns, NEW prev, NEW new, NEW app,
             NEW cl, CreateStep(t, prev, new, app, cl)
      PROVE  FoldedOnce'
  <2>1. /\ status' = [status EXCEPT ![t] = "running"] /\ folds' = folds
        /\ status[t] = "absent"
    BY <1>1, StoreAssumption
       DEF CreateStep, CreateTurn, CanCreateTurn, Present
  <2> QED BY <1>0, <2>1, StatusFacts DEF FoldedOnce
<1>2. ASSUME NEW t \in Turns, NEW s \in Status, NEW r, NEW e,
             StateStep(t, s, r, e)
      PROVE  FoldedOnce'
  <2>1. /\ status' = [status EXCEPT ![t] = s]
        /\ folds' = [folds EXCEPT ![t] = IF s \in Terminal THEN folds[t] + 1
                                                           ELSE folds[t]]
        /\ status[t] \notin Terminal
    BY <1>2, StatusFacts
       DEF StateStep, WriteTurnState, ApplyTurnStateToSession, NonTerminal
  <2>2. folds[t] = 0
    BY <1>0, <2>1
  <2> QED BY <1>0, <2>1, <2>2 DEF FoldedOnce
<1>3. CASE status' = status /\ folds' = folds
  BY <1>0, <1>3 DEF FoldedOnce
<1>4. CASE DeleteSession
  BY <1>4, StatusFacts DEF DeleteSession, FoldedOnce
<1> QED
  BY <1>1, <1>2, <1>3, <1>4
     DEF Shapes, EventStep, AppendToEvents, SnapshotStep, WriteSnapshot, storeVars

(* A state write reaches last_turn_details exactly when it is for that     *)
(* turn.                                                                   *)
LEMMA TipAgreesStep ==
  ASSUME StoreTypeOK, TipAgrees, Shapes PROVE TipAgrees'
<1>0. /\ status \in [Turns -> Status]
      /\ lastTurn \in [id : Turns \cup {NoTurn}, status : Status]
      /\ NoTurn \notin Turns
  BY StoreAssumption DEF StoreTypeOK
<1>1. ASSUME NEW t \in Turns, NEW prev, NEW new, NEW app,
             NEW cl, CreateStep(t, prev, new, app, cl)
      PROVE  TipAgrees'
  <2>1. /\ status' = [status EXCEPT ![t] = "running"]
        /\ lastTurn' = [id |-> t, status |-> "running"]
    BY <1>1 DEF CreateStep, CreateTurn
  <2> QED BY <1>0, <2>1 DEF TipAgrees
<1>2. ASSUME NEW t \in Turns, NEW s \in Status, NEW r, NEW e,
             StateStep(t, s, r, e)
      PROVE  TipAgrees'
  <2>1. /\ status' = [status EXCEPT ![t] = s]
        /\ lastTurn' = IF lastTurn.id = t
                       THEN [id |-> t, status |-> s] ELSE lastTurn
        /\ status[t] # "absent"
    BY <1>2
       DEF StateStep, WriteTurnState, ApplyTurnStateToSession, NonTerminal,
           NonTerminalStatus
  <2> QED BY <1>0, <2>1 DEF TipAgrees
<1>3. CASE status' = status /\ lastTurn' = lastTurn
  BY <1>3 DEF TipAgrees
<1>4. CASE DeleteSession
  BY <1>4 DEF DeleteSession, TipAgrees
<1> QED
  BY <1>1, <1>2, <1>3, <1>4
     DEF Shapes, EventStep, AppendToEvents, SnapshotStep, WriteSnapshot, storeVars

(* createTurn rejects a live previous turn, and a terminal one stays so. *)
LEMMA ParentSealedStep ==
  ASSUME StoreTypeOK, ParentSealed, Shapes PROVE ParentSealed'
<1>0. /\ status \in [Turns -> Status]
      /\ previous \in [Turns -> Turns \cup {NoTurn}]
      /\ NoTurn \notin Turns
  BY StoreAssumption DEF StoreTypeOK
<1>1. ASSUME NEW t \in Turns, NEW prev \in Turns \cup {NoTurn}, NEW new, NEW app,
             NEW cl, CreateStep(t, prev, new, app, cl)
      PROVE  ParentSealed'
  <2>1. /\ status' = [status EXCEPT ![t] = "running"]
        /\ previous' = [previous EXCEPT ![t] = prev]
        /\ status[t] = "absent"
        /\ prev # NoTurn => /\ status[prev] # "absent"
                            /\ status[prev] \notin NonTerminalStatus
    BY <1>0, <1>1
       DEF CreateStep, CreateTurn, CanCreateTurn, Present, NonTerminal
  <2>2. prev # NoTurn => prev # t /\ status[prev] \in Terminal
    BY <1>0, <2>1, StatusFacts
  <2>3. \A u \in Turns : previous[u] # t
    BY <1>0, <2>1, StatusFacts DEF ParentSealed
  <2> QED BY <1>0, <2>1, <2>2, <2>3 DEF ParentSealed
<1>2. ASSUME NEW t \in Turns, NEW s \in Status, NEW r, NEW e,
             StateStep(t, s, r, e)
      PROVE  ParentSealed'
  <2>1. /\ status' = [status EXCEPT ![t] = s] /\ previous' = previous
        /\ status[t] \notin Terminal
    BY <1>2, StatusFacts DEF StateStep, WriteTurnState, NonTerminal
  <2> QED BY <1>0, <2>1 DEF ParentSealed
<1>3. CASE status' = status /\ previous' = previous
  BY <1>3 DEF ParentSealed
<1>4. CASE DeleteSession
  BY <1>4 DEF DeleteSession, ParentSealed
<1> QED
  BY <1>1, <1>2, <1>3, <1>4
     DEF Shapes, EventStep, AppendToEvents, SnapshotStep, WriteSnapshot, storeVars

(* What turn t may hold, given what its previous turn p holds *)
Isolated(t, p) ==
  /\ \A th \in Threads :
       /\ \A i \in 1..Len(snapshot[t].context[th]) :
            \/ snapshot[t].context[th][i] = t
            \/ p # NoTurn /\ snapshot[t].context[th][i] \in Origins(p, th)
       /\ \/ snapshot[t].capability[th] \in {t, NoTurn}
          \/ p # NoTurn /\ snapshot[t].capability[th] = snapshot[p].capability[th]
  /\ \/ snapshot[t].checkpoint \in {t, NoTurn}
     \/ p # NoTurn /\ snapshot[t].checkpoint = snapshot[p].checkpoint

AllIsolated == \A t \in Turns : Isolated(t, previous[t])

(* BranchIsolation, turn by turn and element by element. *)
LEMMA IsolationUnfolded == BranchIsolation <=> AllIsolated
<1>1. ASSUME NEW t \in Turns
      PROVE  Isolated(t, previous[t]) <=>
               LET p == previous[t] IN
               /\ \A th \in Threads :
                    /\ Inherits(t, Origins(t, th), Origins(p, th))
                    /\ Inherits(t, {snapshot[t].capability[th]} \ {NoTurn},
                                   {snapshot[p].capability[th]})
               /\ Inherits(t, {snapshot[t].checkpoint} \ {NoTurn},
                              {snapshot[p].checkpoint})
  <2>1. ASSUME NEW th \in Threads
        PROVE  Inherits(t, Origins(t, th), Origins(previous[t], th)) <=>
               \A i \in 1..Len(snapshot[t].context[th]) :
                 \/ snapshot[t].context[th][i] = t
                 \/ /\ previous[t] # NoTurn
                    /\ snapshot[t].context[th][i] \in Origins(previous[t], th)
    BY DEF Inherits, Origins
  <2>2. ASSUME NEW th \in Threads
        PROVE  Inherits(t, {snapshot[t].capability[th]} \ {NoTurn},
                           {snapshot[previous[t]].capability[th]}) <=>
               \/ snapshot[t].capability[th] \in {t, NoTurn}
               \/ /\ previous[t] # NoTurn
                  /\ snapshot[t].capability[th]
                       = snapshot[previous[t]].capability[th]
    BY DEF Inherits
  <2>3. Inherits(t, {snapshot[t].checkpoint} \ {NoTurn},
                    {snapshot[previous[t]].checkpoint}) <=>
          \/ snapshot[t].checkpoint \in {t, NoTurn}
          \/ /\ previous[t] # NoTurn
             /\ snapshot[t].checkpoint = snapshot[previous[t]].checkpoint
    BY DEF Inherits
  <2> QED BY <2>1, <2>2, <2>3 DEF Isolated
<1> QED BY <1>1 DEF BranchIsolation, AllIsolated

(* No write brings content of another branch into a snapshot. A copy made  *)
(* by createTurn stays a copy because its source is sealed.                *)
LEMMA BranchIsolationStep ==
  ASSUME StoreTypeOK, ParentSealed, BranchIsolation, Shapes
  PROVE  BranchIsolation'
<1>0. /\ status \in [Turns -> Status]
      /\ previous \in [Turns -> Turns \cup {NoTurn}]
      /\ snapshot \in [Turns -> Snapshots]
      /\ NoTurn \notin Turns
      /\ \A u \in Turns : Isolated(u, previous[u])
  BY StoreAssumption, IsolationUnfolded DEF StoreTypeOK, AllIsolated
<1> SUFFICES AllIsolated'
  BY IsolationUnfolded, PTL

(* A turn whose row, whose previous turn and whose previous turn's         *)
(* snapshot stay is isolated as before.                                    *)
<1>1. ASSUME NEW u \in Turns, previous'[u] = previous[u],
             snapshot'[u] = snapshot[u],
             previous[u] # NoTurn => snapshot'[previous[u]] = snapshot[previous[u]]
      PROVE  Isolated(u, previous[u])'
  BY <1>0, <1>1 DEF Isolated, Origins
<1>2. ASSUME NEW t \in Turns, NEW prev \in Turns \cup {NoTurn},
             NEW new \in SUBSET Threads, NEW app \in SUBSET Threads,
             NEW cl \in SUBSET Threads,
             CreateStep(t, prev, new, app, cl)
      PROVE  AllIsolated'
  <2> DEFINE snap == SnapshotFromDelta(t, prev, new, app, cl)
  <2>1. /\ previous' = [previous EXCEPT ![t] = prev]
        /\ snapshot' = [snapshot EXCEPT ![t] = snap]
        /\ status[t] = "absent"
        /\ prev # NoTurn => status[prev] # "absent"
    BY <1>0, <1>2 DEF CreateStep, CreateTurn, CanCreateTurn, Present
  <2>2. \A u \in Turns : previous[u] # t
    BY <1>0, <2>1, StatusFacts DEF ParentSealed
  <2>3. Copied(t, prev, snap)
    BY <1>2, DeltaSnapshot DEF CreateStep
  <2> HIDE DEF snap
  <2>4. Isolated(t, previous[t])'
    <3>1. previous'[t] = prev /\ snapshot'[t] = snap
      BY <1>0, <2>1
    <3>2. prev # NoTurn => snapshot'[prev] = snapshot[prev]
      BY <1>0, <2>1
    <3>3. CASE prev = NoTurn
      BY <2>3, <3>1, <3>3 DEF Copied, Isolated
    <3>4. CASE prev # NoTurn
      <4>1. \A th \in Threads : Origins(prev, th)' = Origins(prev, th)
        BY <3>2, <3>4 DEF Origins
      <4> QED BY <2>3, <3>1, <3>2, <3>4, <4>1 DEF Copied, Isolated
    <3> QED BY <3>3, <3>4
  <2>5. ASSUME NEW u \in Turns, u # t PROVE Isolated(u, previous[u])'
    BY <1>0, <1>1, <2>1, <2>2, <2>5
  <2> QED BY <2>4, <2>5 DEF AllIsolated
<1>3. ASSUME NEW t \in Turns, NEW snap \in Snapshots, SnapshotStep(t, snap)
      PROVE  AllIsolated'
  <2>1. /\ previous' = previous
        /\ snapshot' = [snapshot EXCEPT ![t] = snap]
        /\ status[t] = "running" /\ OwnOnly(t, snap)
    BY <1>3 DEF SnapshotStep, WriteSnapshot, RequireRunning
  <2>2. \A u \in Turns : previous[u] # t
    BY <1>0, <2>1, StatusFacts DEF ParentSealed
  <2>3. Isolated(t, previous[t])'
    <3>1. /\ snapshot'[t] = snap /\ previous'[t] = previous[t]
          /\ previous[t] # NoTurn => snapshot'[previous[t]] = snapshot[previous[t]]
      BY <1>0, <2>1, <2>2
    <3>2. Isolated(t, previous[t])
      BY <1>0
    <3>3. \A th \in Threads : previous[t] # NoTurn =>
             Origins(previous[t], th)' = Origins(previous[t], th)
      BY <3>1 DEF Origins
    <3>4. ASSUME NEW th \in Threads, NEW i \in 1..Len(snap.context[th])
          PROVE  \/ snap.context[th][i] = t
                 \/ /\ previous[t] # NoTurn
                    /\ snap.context[th][i] \in Origins(previous[t], th)
      <4>1. CASE snap.context[th][i] \in Origins(t, th)
        <5>1. PICK j \in 1..Len(snapshot[t].context[th]) :
                snap.context[th][i] = snapshot[t].context[th][j]
          BY <4>1 DEF Origins
        <5> QED BY <3>2, <5>1 DEF Isolated
      <4> QED BY <2>1, <4>1 DEF OwnOnly
    <3>5. ASSUME NEW th \in Threads
          PROVE  \/ snap.capability[th] \in {t, NoTurn}
                 \/ /\ previous[t] # NoTurn
                    /\ snap.capability[th] = snapshot[previous[t]].capability[th]
      BY <2>1, <3>2 DEF OwnOnly, Isolated
    <3>6. \/ snap.checkpoint \in {t, NoTurn}
          \/ previous[t] # NoTurn /\ snap.checkpoint = snapshot[previous[t]].checkpoint
      BY <2>1, <3>2 DEF OwnOnly, Isolated
    <3> QED BY <3>1, <3>3, <3>4, <3>5, <3>6 DEF Isolated
  <2>4. ASSUME NEW u \in Turns, u # t PROVE Isolated(u, previous[u])'
    BY <1>0, <1>1, <2>1, <2>2, <2>4
  <2> QED BY <2>3, <2>4 DEF AllIsolated
<1>4. CASE previous' = previous /\ snapshot' = snapshot
  BY <1>1, <1>4 DEF AllIsolated
<1>5. CASE DeleteSession
  <2>1. /\ previous' = [u \in Turns |-> NoTurn]
        /\ snapshot' = [u \in Turns |-> EmptySnapshot]
    BY <1>5 DEF DeleteSession
  <2>2. ASSUME NEW u \in Turns PROVE Isolated(u, previous[u])'
    BY <2>1 DEF Isolated, EmptySnapshot
  <2> QED BY <2>2 DEF AllIsolated
<1> QED
  BY <1>2, <1>3, <1>4, <1>5
     DEF Shapes, StateStep, WriteTurnState, EventStep, AppendToEvents, storeVars

-----------------------------------------------------------------------------
(* The store's inductive invariant: each part is preserved from the type   *)
(* invariant, isolation from the sealed parents as well.                   *)
StoreInv ==
  /\ StoreTypeOK
  /\ LogSealed
  /\ FoldedOnce
  /\ TipAgrees
  /\ ParentSealed
  /\ BranchIsolation

(* createSession establishes the invariant. *)
LEMMA StoreInvInit == StoreInit => StoreInv
<1> SUFFICES ASSUME StoreInit PROVE StoreInv
  OBVIOUS
<1>1. LogSealed
  BY StatusFacts DEF StoreInit, LogSealed
<1>2. FoldedOnce
  BY StatusFacts DEF StoreInit, FoldedOnce
<1>3. TipAgrees
  BY DEF StoreInit, TipAgrees
<1>4. ParentSealed
  BY DEF StoreInit, ParentSealed
<1>5. BranchIsolation
  BY IsolationUnfolded DEF StoreInit, AllIsolated, Isolated, EmptySnapshot
<1> QED BY TypeInit, <1>1, <1>2, <1>3, <1>4, <1>5 DEF StoreInv

(* Every store operation preserves the invariant. *)
LEMMA ShapesKeepStoreInv ==
  ASSUME StoreInv, Shapes PROVE StoreInv'
  BY ShapesTyped, LogSealedStep, FoldedOnceStep, TipAgreesStep,
     ParentSealedStep, BranchIsolationStep DEF StoreInv

LEMMA StoreInvStep == StoreInv /\ [StoreNext]_storeVars => StoreInv'
  BY StepShapes, ShapesKeepStoreInv DEF StoreInv

(* The inductive invariant of the store holds for every client: log,       *)
(* metrics, tip and branches are consistent after every operation.         *)
THEOREM StoreInvariant == StoreSpec => []StoreInv
  BY StoreInvInit, StoreInvStep, PTL DEF StoreSpec

(* Whoever competes to end a turn, its event log holds one turn.done, as   *)
(* the last row and with the status of the turn row.                       *)
THEOREM LogSealedAlways == StoreSpec => []LogSealed
  BY StoreInvariant, PTL DEF StoreInv

(* applyTurnStateToSession folds every turn that ended into the session    *)
(* metrics, and each exactly once.                                         *)
THEOREM FoldedOnceAlways == StoreSpec => []FoldedOnce
  BY StoreInvariant, PTL DEF StoreInv

(* session.last_turn_details mirrors the row of the turn it names, through *)
(* every freeze and terminal write of this and of other turns.             *)
THEOREM TipAgreesAlways == StoreSpec => []TipAgrees
  BY StoreInvariant, PTL DEF StoreInv

(* A turn never continues a live one: createTurn's check of the previous   *)
(* turn cannot be overtaken, since no turn leaves a terminal state.        *)
THEOREM ParentSealedAlways == StoreSpec => []ParentSealed
  BY StoreInvariant, PTL DEF StoreInv

(* buildSnapshotFromDelta and the snapshot writes keep branches apart: a   *)
(* turn holds what it wrote and what its previous turn held.               *)
THEOREM BranchIsolationAlways == StoreSpec => []BranchIsolation
  BY StoreInvariant, PTL DEF StoreInv

(* No store operation changes a terminal turn while its session exists. *)
LEMMA TerminalStep ==
  ASSUME StoreTypeOK, Shapes, NEW t \in Turns, status[t] \in Terminal, alive'
  PROVE  UNCHANGED <<status[t], reason[t], previous[t], snapshot[t],
                     log[t], folds[t]>>
<1>0. /\ status \in [Turns -> Status] /\ reason \in [Turns -> Reasons \cup {NoReason}]
      /\ previous \in [Turns -> Turns \cup {NoTurn}]
      /\ snapshot \in [Turns -> Snapshots]
      /\ log \in [Turns -> Seq(Events)] /\ folds \in [Turns -> Nat]
  BY DEF StoreTypeOK
<1>1. ASSUME NEW u \in Turns, NEW prev, NEW new, NEW app,
             NEW cl, CreateStep(u, prev, new, app, cl)
      PROVE  UNCHANGED <<status[t], reason[t], previous[t], snapshot[t],
                         log[t], folds[t]>>
  <2>1. status[u] = "absent"
    BY <1>1, StoreAssumption DEF CreateStep, CreateTurn, CanCreateTurn, Present
  <2>2. u # t
    BY <2>1, StatusFacts
  <2> QED BY <1>0, <1>1, <2>2 DEF CreateStep, CreateTurn
<1>2. ASSUME NEW u \in Turns, NEW s, NEW r, NEW e, StateStep(u, s, r, e)
      PROVE  UNCHANGED <<status[t], reason[t], previous[t], snapshot[t],
                         log[t], folds[t]>>
  <2>1. u # t
    BY <1>2, StatusFacts DEF StateStep, NonTerminal
  <2> QED BY <1>0, <1>2, <2>1
          DEF StateStep, WriteTurnState, ApplyTurnStateToSession
<1>3. ASSUME NEW u \in Turns, NEW type, EventStep(u, type)
      PROVE  UNCHANGED <<status[t], reason[t], previous[t], snapshot[t],
                         log[t], folds[t]>>
  <2>1. u # t
    BY <1>3, StatusFacts DEF EventStep, AppendToEvents, RequireRunning
  <2> QED BY <1>0, <1>3, <2>1 DEF EventStep, AppendToEvents
<1>4. ASSUME NEW u \in Turns, NEW snap, SnapshotStep(u, snap)
      PROVE  UNCHANGED <<status[t], reason[t], previous[t], snapshot[t],
                         log[t], folds[t]>>
  <2>1. u # t
    BY <1>4, StatusFacts DEF SnapshotStep, WriteSnapshot, RequireRunning
  <2> QED BY <1>0, <1>4, <2>1 DEF SnapshotStep, WriteSnapshot
<1>5. CASE DeleteSession
  BY <1>5 DEF DeleteSession
<1>6. CASE UNCHANGED storeVars
  BY <1>6 DEF storeVars
<1> QED BY <1>1, <1>2, <1>3, <1>4, <1>5, <1>6 DEF Shapes

(* freezeAndGetTurn, updateTurnTerminalState and the fenced writes leave a *)
(* terminal turn as it is: the first terminal write wins.                  *)
THEOREM TerminalIsFinalAlways == StoreSpec => TerminalIsFinal
<1>1. StoreTypeOK /\ [StoreNext]_storeVars =>
        [\A t \in Turns : status[t] \in Terminal /\ alive' =>
           UNCHANGED <<status[t], reason[t], previous[t], snapshot[t],
                       log[t], folds[t]>>]_storeVars
  BY StepShapes, TerminalStep
<1> QED BY <1>1, StoreTypeCorrect, PTL DEF StoreSpec, TerminalIsFinal

-----------------------------------------------------------------------------
(* total_turns counts the rows.  The row set is finite because it starts   *)
(* empty and grows by one turn at a time.                                  *)
CountInv == IsFiniteSet(TurnRows) /\ TurnsCounted

(* A new session has no turn rows and counts none. *)
LEMMA CountInit == StoreInit => CountInv
<1> SUFFICES ASSUME StoreInit PROVE CountInv
  OBVIOUS
<1>1. TurnRows = {} /\ totalTurns = 0
  BY DEF StoreInit, TurnRows, Present
<1> QED BY <1>1, FS_EmptySet DEF CountInv, TurnsCounted

(* createTurn adds one new row and counts one; deleteSession resets both. *)
LEMMA ShapesKeepCount ==
  ASSUME StoreTypeOK, CountInv, Shapes PROVE CountInv'
<1>0. status \in [Turns -> Status] /\ NoTurn \notin Turns
  BY StoreAssumption DEF StoreTypeOK
<1>1. ASSUME NEW t \in Turns, NEW prev, NEW new, NEW app,
             NEW cl, CreateStep(t, prev, new, app, cl)
      PROVE  CountInv'
  <2>1. /\ status' = [status EXCEPT ![t] = "running"]
        /\ totalTurns' = totalTurns + 1
        /\ status[t] = "absent"
    BY <1>0, <1>1 DEF CreateStep, CreateTurn, CanCreateTurn, Present
  <2>2. TurnRows' = TurnRows \cup {t} /\ t \notin TurnRows
    BY <1>0, <2>1 DEF TurnRows, Present
  <2>3. IsFiniteSet(TurnRows) /\ totalTurns = Cardinality(TurnRows)
    BY DEF CountInv, TurnsCounted
  <2>4. /\ IsFiniteSet(TurnRows \cup {t})
        /\ Cardinality(TurnRows \cup {t}) = Cardinality(TurnRows) + 1
    BY <2>2, <2>3, FS_AddElement
  <2> QED BY <2>1, <2>2, <2>3, <2>4 DEF CountInv, TurnsCounted
<1>2. ASSUME NEW t \in Turns, NEW s \in Status, NEW r, NEW e,
             StateStep(t, s, r, e)
      PROVE  CountInv'
  <2>1. /\ status' = [status EXCEPT ![t] = s] /\ totalTurns' = totalTurns
        /\ status[t] # "absent" /\ s # "absent"
    BY <1>2, StatusFacts
       DEF StateStep, WriteTurnState, NonTerminal, NonTerminalStatus
  <2>2. TurnRows' = TurnRows
    BY <1>0, <2>1 DEF TurnRows, Present
  <2> QED BY <2>1, <2>2 DEF CountInv, TurnsCounted
<1>3. CASE status' = status /\ totalTurns' = totalTurns
  <2>1. TurnRows' = TurnRows
    BY <1>3 DEF TurnRows, Present
  <2> QED BY <1>3, <2>1 DEF CountInv, TurnsCounted
<1>4. CASE DeleteSession
  <2>1. TurnRows' = {} /\ totalTurns' = 0
    BY <1>4 DEF DeleteSession, TurnRows, Present
  <2> QED BY <2>1, FS_EmptySet DEF CountInv, TurnsCounted
<1> QED
  BY <1>1, <1>2, <1>3, <1>4
     DEF Shapes, EventStep, AppendToEvents, SnapshotStep, WriteSnapshot, storeVars

LEMMA CountStep ==
  StoreTypeOK /\ CountInv /\ [StoreNext]_storeVars => CountInv'
  BY StepShapes, ShapesKeepCount

(* createTurn's increment of metrics.total_turns counts the turn rows of   *)
(* the session, however many turns it has.                                 *)
THEOREM TurnsCountedAlways == StoreSpec => []TurnsCounted
<1>1. CountInv => TurnsCounted
  BY DEF CountInv
<1> QED BY <1>1, CountInit, CountStep, StoreTypeCorrect, PTL DEF StoreSpec
-----------------------------------------------------------------------------
(***************************************************************************)
(* The transactions of PostgresStore.                                      *)
(***************************************************************************)
(* Row locks exclude each other as Postgres promises. *)
LocksExclusive ==
  \A c, d \in Connections : c # d =>
    \A h \in Holds(c), g \in Holds(d) : h[1] = g[1] => ~Conflict(h[2], g[2])

(* The state write of a transaction is one a client asks for. *)
StateShape(x) ==
  \/ x.op = "freeze" /\ x.status = "cancelled" /\ x.reason \in ClientReasons
  \/ x.op = "terminal" /\ x.status = "cancelled" /\ x.reason \in ClientReasons
  \/ x.op = "terminal" /\ x.status \in {"done", "error"} /\ x.reason = NoReason
  \/ x.op = "update" /\ x.status \in NonTerminalStatus /\ x.reason = NoReason

(* The phases of a state write after its UPDATE of the turn row *)
Writing == {"updated", "logged", "applied", "assembled"}

(* The fence holds until the write commits. *)
FencedInv(c) == In(c, "fenced") => tx[c].turn \in Turns /\ status[tx[c].turn] = "running"

(* The WHERE clause of a state write still matches, and what a freeze has  *)
(* read under its lock is still there.                                     *)
WritingInv(c) ==
  tx[c].phase \in Writing =>
    /\ tx[c].turn \in Turns
    /\ StateShape(tx[c])
    /\ status[tx[c].turn] \in Source(tx[c].op, tx[c].status)
    /\ tx[c].op = "update" => Len(log[tx[c].turn]) < MaxLog
    /\ In(c, "assembled") => tx[c].op = "freeze" /\ tx[c].snap = snapshot[tx[c].turn]

(* Who has the session row has a session. *)
AliveInv(c) == tx[c].phase \in {"locked", "read", "deleting"} => alive

(* What createTurn has checked and built is still right. *)
ReadInv(c) ==
  In(c, "read") =>
    /\ tx[c].turn \in Turns
    /\ tx[c].prev = NoTurn \/ Present(tx[c].prev)
    /\ \E cl \in SUBSET Known(tx[c].prev), new \in SUBSET (Threads \ Known(tx[c].prev)) :
       \E app \in SUBSET (Known(tx[c].prev) \cup new) :
         /\ CanCreateTurn(tx[c].turn, tx[c].prev, new, app, Known(tx[c].prev) \cup new)
         /\ tx[c].snap = SnapshotFromDelta(tx[c].turn, tx[c].prev, new, app, cl)

(* A freeze that found or made the turn terminal has a final record. *)
FrozenInv(c) ==
  tx[c].phase \in {"unmatched", "got"} =>
    /\ tx[c].turn \in Turns
    /\ alive => status[tx[c].turn] \in Terminal
    /\ alive /\ In(c, "got") => tx[c].snap = snapshot[tx[c].turn]

TxInv(c) == FencedInv(c) /\ WritingInv(c) /\ AliveInv(c) /\ ReadInv(c) /\ FrozenInv(c)

PgInv == PgTypeOK /\ LocksExclusive /\ \A c \in Connections : TxInv(c)

-----------------------------------------------------------------------------
(* Of two locks on a row it does not matter which was there first. *)
LEMMA ConflictSymmetric == \A a, b : Conflict(a, b) <=> Conflict(b, a)
  BY DEF Conflict

(* A transaction takes a lock only when no other holds a conflicting one. *)
LockStep(c) ==
  /\ \A d \in Connections \ {c} : tx'[d] = tx[d]
  /\ \A h \in Holds(c)' : h \in Holds(c) \/ Free(c, h)

LEMMA LocksStep ==
  ASSUME LocksExclusive, NEW c \in Connections, LockStep(c)
  PROVE  LocksExclusive'
<1>1. \A d \in Connections \ {c} : Holds(d)' = Holds(d)
  BY DEF LockStep, Holds
<1>2. ASSUME NEW d \in Connections \ {c}, NEW h \in Holds(c)', NEW g \in Holds(d)',
             h[1] = g[1]
      PROVE  ~Conflict(h[2], g[2])
  <2>1. g \in Holds(d)
    BY <1>1
  <2>2. CASE h \in Holds(c)
    BY <1>2, <2>1, <2>2 DEF LocksExclusive
  <2>3. CASE Free(c, h)
    BY <1>2, <2>1, <2>3, ConflictSymmetric DEF Free, Blocks
  <2> QED BY <2>2, <2>3 DEF LockStep
<1>3. ASSUME NEW a \in Connections, NEW b \in Connections, a # b,
             NEW h \in Holds(a)', NEW g \in Holds(b)', h[1] = g[1]
      PROVE  ~Conflict(h[2], g[2])
  <2>1. CASE a = c
    BY <1>2, <1>3, <2>1
  <2>2. CASE b = c
    BY <1>2, <1>3, <2>2, ConflictSymmetric
  <2>3. CASE a # c /\ b # c
    BY <1>1, <1>3, <2>3 DEF LocksExclusive
  <2> QED BY <2>1, <2>2, <2>3
<1> QED BY <1>3 DEF LocksExclusive

-----------------------------------------------------------------------------
(* A transaction keeps what it relies on while others leave its rows.      *)

(* createTurn's checks survive writes to the snapshots of running turns: a *)
(* previous turn is not running.                                           *)
LEMMA ReadFrame ==
  ASSUME PgTypeOK, NEW d \in Connections, ReadInv(d), tx'[d] = tx[d],
         alive' = alive, status' = status,
         \A u \in Turns : status[u] # "running" => snapshot'[u] = snapshot[u]
  PROVE  ReadInv(d)'
<1> SUFFICES ASSUME In(d, "read") PROVE ReadInv(d)'
  BY DEF ReadInv, In
<1> DEFINE t == tx[d].turn
           prev == tx[d].prev
<1>1. prev \in Turns \cup {NoTurn} /\ t \in Turns /\ (prev = NoTurn \/ Present(prev))
  BY DEF PgTypeOK, ReadInv
<1>2. PICK cl \in SUBSET Known(prev), new \in SUBSET (Threads \ Known(prev)) :
        \E app \in SUBSET (Known(prev) \cup new) :
          /\ CanCreateTurn(t, prev, new, app, Known(prev) \cup new)
          /\ tx[d].snap = SnapshotFromDelta(t, prev, new, app, cl)
  BY DEF ReadInv
<1>3. PICK app \in SUBSET (Known(prev) \cup new) :
        /\ CanCreateTurn(t, prev, new, app, Known(prev) \cup new)
        /\ tx[d].snap = SnapshotFromDelta(t, prev, new, app, cl)
  BY <1>2
<1>4. Present(prev) => snapshot'[prev] = snapshot[prev]
  BY <1>1, <1>3 DEF CanCreateTurn, NonTerminal, NonTerminalStatus, Present
<1>5. Present(prev)' <=> Present(prev)
  BY DEF Present
<1>6. Known(prev)' = Known(prev)
  BY <1>4, <1>5 DEF Known
<1>7. SnapshotFromDelta(t, prev, new, app, cl)' = SnapshotFromDelta(t, prev, new, app, cl)
  BY <1>4, <1>5 DEF SnapshotFromDelta
<1>8. CanCreateTurn(t, prev, new, app, Known(prev) \cup new)'
  BY <1>3, <1>6 DEF CanCreateTurn, NonTerminal, Present
<1> QED BY <1>1, <1>3, <1>5, <1>6, <1>7, <1>8 DEF ReadInv, In

(* A write to the rows of a running turn that no state write holds *)
LEMMA RowsFrame ==
  ASSUME StoreTypeOK, PgTypeOK, NEW d \in Connections, TxInv(d), tx'[d] = tx[d],
         alive' = alive, status' = status, NEW u \in Turns, status[u] = "running",
         tx[d].phase \in Writing => tx[d].turn # u,
         \A v \in Turns \ {u} : snapshot'[v] = snapshot[v] /\ log'[v] = log[v]
  PROVE  TxInv(d)'
<1>1. FencedInv(d)'
  BY DEF TxInv, FencedInv, In
<1>2. WritingInv(d)'
  BY DEF TxInv, WritingInv, In, Source
<1>3. AliveInv(d)'
  BY DEF TxInv, AliveInv
<1>4. ReadInv(d)'
  BY ReadFrame DEF TxInv
<1>5. FrozenInv(d)'
  BY DEF TxInv, FrozenInv, In, Terminal
<1> QED BY <1>1, <1>2, <1>3, <1>4, <1>5 DEF TxInv

(* A step that leaves the rows alone *)
LEMMA QuietFrame ==
  ASSUME PgTypeOK, NEW d \in Connections, TxInv(d), tx'[d] = tx[d],
         UNCHANGED storeVars
  PROVE  TxInv(d)'
<1>0. /\ alive' = alive /\ status' = status /\ snapshot' = snapshot /\ log' = log
  BY DEF storeVars
<1>1. FencedInv(d)'
  BY <1>0 DEF TxInv, FencedInv, In
<1>2. WritingInv(d)'
  BY <1>0 DEF TxInv, WritingInv, In, Source, StateShape
<1>3. AliveInv(d)'
  BY <1>0 DEF TxInv, AliveInv
<1>4. ReadInv(d)'
  BY <1>0, ReadFrame DEF TxInv
<1>5. FrozenInv(d)'
  BY <1>0 DEF TxInv, FrozenInv, In
<1> QED BY <1>1, <1>2, <1>3, <1>4, <1>5 DEF TxInv
-----------------------------------------------------------------------------
(* One statement of connection c *)
TxRecords == [phase : TxPhases, op : Ops,
              turn : Turns \cup {NoTurn}, prev : Turns \cup {NoTurn},
              status : Status, reason : Reasons \cup {NoReason}, snap : Snapshots]

StepOK(c) ==
  /\ PgTypeOK' /\ LockStep(c)
  /\ \A d \in Connections : TxInv(d)'
  /\ StoreNext \/ UNCHANGED storeVars

LEMMA IdleTyped == Idle \in TxRecords
<1>1. EmptySnapshot \in Snapshots
  BY DEF EmptySnapshot, Snapshots
<1> QED BY <1>1 DEF Idle, TxRecords, TxPhases, Ops, Status, NoReason

LEMMA TxTyped == ASSUME PgTypeOK, NEW c \in Connections
                 PROVE  tx \in [Connections -> TxRecords] /\ tx[c] \in TxRecords
  BY DEF PgTypeOK, TxRecords

(* The end of a transaction releases its locks. *)
LEMMA CommitStep ==
  ASSUME PgTypeOK, NEW c \in Connections, CommitTx(c)
  PROVE  /\ PgTypeOK' /\ LockStep(c) /\ TxInv(c)'
         /\ \A d \in Connections \ {c} : tx'[d] = tx[d]
<1>1. tx' = [tx EXCEPT ![c] = Idle]
  BY DEF CommitTx
<1>2. PgTypeOK'
  BY <1>1, IdleTyped, TxTyped DEF PgTypeOK, TxRecords
<1>3. tx'[c].phase = "idle"
  BY <1>1, TxTyped DEF Idle
<1>4. \A d \in Connections \ {c} : tx'[d] = tx[d]
  BY <1>1, TxTyped
<1>5. Holds(c)' = {}
  BY <1>3 DEF Holds
<1>6. TxInv(c)'
  BY <1>3 DEF TxInv, FencedInv, WritingInv, Writing, AliveInv, ReadInv, FrozenInv, In
<1> QED BY <1>2, <1>4, <1>5, <1>6 DEF LockStep

(* A statement that writes nothing others can see *)
LEMMA QuietStep ==
  ASSUME PgTypeOK, \A d \in Connections : TxInv(d), NEW c \in Connections,
         UNCHANGED storeVars, NEW y \in TxRecords, tx' = [tx EXCEPT ![c] = y],
         \A h \in Holds(c)' : h \in Holds(c) \/ Free(c, h),
         TxInv(c)'
  PROVE  StepOK(c)
<1>1. PgTypeOK'
  BY TxTyped DEF PgTypeOK, TxRecords
<1>2. \A d \in Connections \ {c} : tx'[d] = tx[d]
  BY TxTyped
<1>3. \A d \in Connections \ {c} : TxInv(d)'
  BY <1>2, QuietFrame
<1> QED BY <1>1, <1>2, <1>3 DEF StepOK, LockStep

(* createTurn: the session row *)
LEMMA LockSessionStep ==
  ASSUME PgTypeOK, \A d \in Connections : TxInv(d), NEW c \in Connections,
         LockSession(c) \/ DeleteRow(c)
  PROVE  StepOK(c)
<1>1. PICK p \in {"locked", "deleting"} : tx' = [tx EXCEPT ![c] = [tx[c] EXCEPT !.phase = p]]
  BY TxTyped DEF LockSession, DeleteRow, GotoPhase
<1>2. /\ [tx[c] EXCEPT !.phase = p] \in TxRecords
      /\ tx'[c].phase = p
  BY <1>1, TxTyped DEF TxRecords, TxPhases
<1>3. alive /\ alive' /\ Free(c, <<Session, "update">>) /\ UNCHANGED storeVars
  BY DEF LockSession, DeleteRow, storeVars
<1>4. Holds(c)' = {<<Session, "update">>}
  BY <1>2 DEF Holds
<1>5. TxInv(c)'
  BY <1>2, <1>3 DEF TxInv, FencedInv, WritingInv, Writing, AliveInv, ReadInv, FrozenInv, In
<1> QED BY <1>1, <1>2, <1>3, <1>4, <1>5, QuietStep

(* createTurn: the previous turn *)
LEMMA ReadPreviousStep ==
  ASSUME StoreTypeOK, PgTypeOK, \A d \in Connections : TxInv(d), NEW c \in Connections,
         NEW t \in Turns, NEW prev \in Turns \cup {NoTurn},
         prev = NoTurn \/ Present(prev),
         NEW cl \in SUBSET Known(prev), NEW new \in SUBSET (Threads \ Known(prev)),
         NEW app \in SUBSET (Known(prev) \cup new),
         ReadPrevious(c, t, prev, new, app, cl)
  PROVE  StepOK(c)
<1> DEFINE snap == SnapshotFromDelta(t, prev, new, app, cl)
           y == [tx[c] EXCEPT !.phase = "read", !.turn = t, !.prev = prev, !.snap = snap]
<1>1. Known(prev) \subseteq Threads
  BY SnapshotParts DEF Known, Present
<1>2. snap \in Snapshots
  BY <1>1, DeltaSnapshot
<1> HIDE DEF snap
<1>3. tx' = [tx EXCEPT ![c] = y] /\ UNCHANGED storeVars
  BY TxTyped DEF ReadPrevious, snap
<1>4. y \in TxRecords
  BY <1>2, TxTyped DEF TxRecords, TxPhases
<1>5. /\ tx'[c] = y /\ y.phase = "read" /\ y.turn = t /\ y.prev = prev /\ y.snap = snap
  BY <1>3, TxTyped DEF TxRecords
<1>6. Holds(c)' = {<<Session, "update">>} /\ Holds(c) = {<<Session, "update">>}
  BY <1>5 DEF Holds, ReadPrevious, In
<1> HIDE DEF y
<1>7. AliveInv(c)' /\ FencedInv(c)' /\ WritingInv(c)' /\ FrozenInv(c)'
  <2>1. alive'
    BY <1>3 DEF ReadPrevious, CanCreateTurn, storeVars
  <2>2. tx'[c].phase = "read"
    BY <1>5
  <2> QED BY <2>1, <2>2 DEF FencedInv, WritingInv, Writing, AliveInv, FrozenInv, In
<1>8. /\ Known(prev)' = Known(prev) /\ (Present(prev)' <=> Present(prev))
      /\ snap = SnapshotFromDelta(t, prev, new, app, cl)'
      /\ CanCreateTurn(t, prev, new, app, Known(prev) \cup new)'
  BY <1>3 DEF Known, Present, SnapshotFromDelta, CanCreateTurn, NonTerminal, storeVars,
              ReadPrevious, snap
<1>9. ReadInv(c)'
  BY <1>5, <1>8 DEF ReadInv, In
<1> QED BY <1>3, <1>4, <1>6, <1>7, <1>9, QuietStep DEF TxInv

(* A turn-scoped statement begins a transaction: the UPDATE of a state     *)
(* write with the status its WHERE clause found, *)
LEMMA UpdateTurnStep ==
  ASSUME StoreTypeOK, PgTypeOK, \A d \in Connections : TxInv(d), NEW c \in Connections,
         NEW t \in Turns, NEW op \in Ops, NEW s \in Status,
         NEW r \in Reasons \cup {NoReason},
         \A x \in TxRecords : x.op = op /\ x.status = s /\ x.reason = r => StateShape(x),
         op = "update" => Len(log[t]) < MaxLog,
         UpdateTurn(c, t, op, s, r)
  PROVE  StepOK(c)
<1> DEFINE y == [Idle EXCEPT !.phase = "updated", !.op = op, !.turn = t,
                             !.status = s, !.reason = r]
<1>1. tx' = [tx EXCEPT ![c] = y] /\ UNCHANGED storeVars
  BY DEF UpdateTurn
<1>2. /\ y \in TxRecords /\ y.phase = "updated" /\ y.turn = t /\ y.op = op
      /\ y.status = s /\ y.reason = r
  BY IdleTyped DEF TxRecords, TxPhases
<1> HIDE DEF y
<1>3. tx'[c] = y
  BY <1>1, TxTyped
<1>4. Holds(c)' = {<<t, "no key update">>}
  BY <1>2, <1>3 DEF Holds
<1>5. Free(c, <<t, "no key update">>)
  BY DEF UpdateTurn
<1>6. WritingInv(c)'
  <2>1. StateShape(y)
    BY <1>2
  <2>2. status'[t] \in Source(op, s) /\ (op = "update" => Len(log'[t]) < MaxLog)
    BY <1>1 DEF UpdateTurn, storeVars
  <2>3. y.phase # "assembled"
    BY <1>2
  <2> QED BY <1>2, <1>3, <2>1, <2>2, <2>3 DEF WritingInv, In, StateShape, Source
<1>7. FencedInv(c)' /\ AliveInv(c)' /\ ReadInv(c)' /\ FrozenInv(c)'
  BY <1>2, <1>3 DEF FencedInv, AliveInv, ReadInv, FrozenInv, In
<1> QED BY <1>1, <1>2, <1>4, <1>5, <1>6, <1>7, QuietStep DEF TxInv

(* the same UPDATE when it finds no live row, *)
LEMMA UpdateMissesStep ==
  ASSUME PgTypeOK, \A d \in Connections : TxInv(d), NEW c \in Connections,
         NEW t \in Turns, UpdateMisses(c, t)
  PROVE  StepOK(c)
<1> DEFINE y == [Idle EXCEPT !.phase = "unmatched", !.op = "freeze", !.turn = t]
<1>1. tx' = [tx EXCEPT ![c] = y] /\ UNCHANGED storeVars
  BY DEF UpdateMisses
<1>2. y \in TxRecords /\ y.phase = "unmatched" /\ y.turn = t
  BY IdleTyped DEF TxRecords, TxPhases, Ops
<1> HIDE DEF y
<1>3. tx'[c] = y
  BY <1>1, TxTyped
<1>4. Holds(c)' = {}
  BY <1>2, <1>3 DEF Holds
<1>5. FrozenInv(c)'
  BY <1>1, <1>2, <1>3 DEF FrozenInv, In, UpdateMisses, storeVars
<1>6. FencedInv(c)' /\ AliveInv(c)' /\ ReadInv(c)' /\ WritingInv(c)'
  BY <1>2, <1>3 DEF FencedInv, AliveInv, ReadInv, WritingInv, Writing, In
<1> QED BY <1>1, <1>2, <1>4, <1>5, <1>6, QuietStep DEF TxInv

(* and the fence of the other writes. *)
LEMMA FenceStep ==
  ASSUME PgTypeOK, \A d \in Connections : TxInv(d), NEW c \in Connections,
         NEW t \in Turns, Fence(c, t)
  PROVE  StepOK(c)
<1> DEFINE y == [Idle EXCEPT !.phase = "fenced", !.turn = t]
<1>1. tx' = [tx EXCEPT ![c] = y] /\ UNCHANGED storeVars
  BY DEF Fence
<1>2. y \in TxRecords /\ y.phase = "fenced" /\ y.turn = t
  BY IdleTyped DEF TxRecords, TxPhases
<1> HIDE DEF y
<1>3. tx'[c] = y
  BY <1>1, TxTyped
<1>4. Holds(c)' = {<<t, "share">>}
  BY <1>2, <1>3 DEF Holds
<1>5. Free(c, <<t, "share">>)
  BY DEF Fence
<1>6. FencedInv(c)'
  BY <1>1, <1>2, <1>3 DEF FencedInv, In, Fence, RequireRunning, storeVars
<1>7. WritingInv(c)' /\ AliveInv(c)' /\ ReadInv(c)' /\ FrozenInv(c)'
  BY <1>2, <1>3 DEF WritingInv, Writing, AliveInv, ReadInv, FrozenInv, In
<1> QED BY <1>1, <1>2, <1>4, <1>5, <1>6, <1>7, QuietStep DEF TxInv

(* The later statements of a state write add a lock on the session row. *)
LEMMA StateWriteStep ==
  ASSUME PgTypeOK, \A d \in Connections : TxInv(d), NEW c \in Connections,
         InsertEvent(c) \/ UpdateSession(c)
  PROVE  StepOK(c)
<1>1. PICK p \in {"logged", "applied"} :
        /\ tx' = [tx EXCEPT ![c] = [tx[c] EXCEPT !.phase = p]]
        /\ p = "logged" => InsertEvent(c)
        /\ p = "applied" => UpdateSession(c)
  BY TxTyped DEF InsertEvent, UpdateSession, GotoPhase
<1>2. /\ [tx[c] EXCEPT !.phase = p] \in TxRecords
      /\ tx'[c].phase = p /\ tx'[c].turn = tx[c].turn /\ tx'[c].op = tx[c].op
      /\ tx'[c].status = tx[c].status /\ tx'[c].reason = tx[c].reason
  BY <1>1, TxTyped DEF TxRecords, TxPhases
<1>3. UNCHANGED storeVars /\ tx[c].phase \in {"updated", "logged"} /\ Ready(c)
  BY DEF InsertEvent, UpdateSession, In
<1>4. \A h \in Holds(c)' : h \in Holds(c) \/ Free(c, h)
  <2>1. CASE p = "logged"
    <3>1. tx[c].phase = "updated" /\ tx[c].op # "terminal"
      BY <1>1, <2>1 DEF InsertEvent, In
    <3>2. Needs(c) = {<<Session, "key share">>}
      BY <3>1 DEF Needs
    <3>3. /\ Holds(c)' = {<<tx[c].turn, "no key update">>, <<Session, "key share">>}
          /\ Holds(c) = {<<tx[c].turn, "no key update">>}
      BY <1>2, <2>1, <3>1 DEF Holds
    <3> QED BY <1>3, <3>2, <3>3 DEF Ready
  <2>2. CASE p = "applied"
    <3>1. tx[c].phase = "logged" \/ (tx[c].phase = "updated" /\ tx[c].op = "terminal")
      BY <1>1, <2>2 DEF UpdateSession, In
    <3>2. Needs(c) = {<<Session, "no key update">>}
      BY <3>1 DEF Needs
    <3>3. /\ Holds(c)' = {<<tx[c].turn, "no key update">>, <<Session, "no key update">>}
          /\ <<tx[c].turn, "no key update">> \in Holds(c)
      BY <1>2, <2>2, <3>1 DEF Holds
    <3> QED BY <1>3, <3>2, <3>3 DEF Ready
  <2> QED BY <2>1, <2>2
<1>5. WritingInv(c)'
  <2>1. WritingInv(c) /\ tx[c].phase \in Writing
    BY <1>3 DEF TxInv, Writing
  <2>2. tx'[c].phase # "assembled"
    BY <1>2
  <2> QED BY <1>2, <1>3, <2>1, <2>2 DEF WritingInv, In, StateShape, Source, storeVars
<1>6. FencedInv(c)' /\ AliveInv(c)' /\ ReadInv(c)' /\ FrozenInv(c)'
  BY <1>2 DEF FencedInv, AliveInv, ReadInv, FrozenInv, In
<1> QED BY <1>1, <1>2, <1>3, <1>4, <1>5, <1>6, QuietStep DEF TxInv

(* What a freeze reads, it reads under its lock or of a terminal turn. *)
LEMMA AssembleStep ==
  ASSUME StoreTypeOK, PgTypeOK, \A d \in Connections : TxInv(d), NEW c \in Connections,
         Assemble(c)
  PROVE  StepOK(c)
<1> DEFINE p == IF In(c, "applied") THEN "assembled" ELSE "got"
           y == [tx[c] EXCEPT !.phase = p, !.snap = snapshot[tx[c].turn]]
<1>1. tx' = [tx EXCEPT ![c] = y] /\ UNCHANGED storeVars
  BY TxTyped DEF Assemble
<1>2. tx[c].phase \in {"applied", "unmatched"} /\ tx[c].op = "freeze"
  BY DEF Assemble, In
<1>3. tx[c].turn \in Turns
  BY <1>2 DEF TxInv, WritingInv, Writing, FrozenInv
<1>4. /\ y \in TxRecords /\ y.phase = p /\ y.turn = tx[c].turn /\ y.op = tx[c].op
      /\ y.status = tx[c].status /\ y.reason = tx[c].reason /\ y.snap = snapshot[tx[c].turn]
  BY <1>3, TxTyped, SnapshotParts DEF TxRecords, TxPhases
<1> HIDE DEF y
<1>5. tx'[c] = y
  BY <1>1, TxTyped
<1>6. CASE In(c, "applied")
  <2>1. p = "assembled"
    BY <1>6
  <2>2. Holds(c)' = Holds(c)
    BY <1>4, <1>5, <1>6, <2>1 DEF Holds, In
  <2>3. WritingInv(c)'
    <3>1. WritingInv(c) /\ tx[c].phase \in Writing
      BY <1>6 DEF TxInv, Writing, In
    <3> QED BY <1>1, <1>2, <1>4, <1>5, <3>1 DEF WritingInv, In, StateShape, Source, storeVars
  <2>4. FencedInv(c)' /\ AliveInv(c)' /\ ReadInv(c)' /\ FrozenInv(c)'
    BY <1>4, <1>5, <2>1 DEF FencedInv, AliveInv, ReadInv, FrozenInv, In
  <2> QED BY <1>1, <1>4, <2>2, <2>3, <2>4, QuietStep DEF TxInv
<1>7. CASE In(c, "unmatched")
  <2>1. p = "got"
    BY <1>7 DEF In
  <2>2. Holds(c)' = {}
    BY <1>4, <1>5, <2>1 DEF Holds
  <2>3. FrozenInv(c)'
    <3>1. alive => status[tx[c].turn] \in Terminal
      BY <1>7 DEF TxInv, FrozenInv, In
    <3> QED BY <1>1, <1>3, <1>4, <1>5, <3>1 DEF FrozenInv, In, storeVars
  <2>4. FencedInv(c)' /\ AliveInv(c)' /\ ReadInv(c)' /\ WritingInv(c)'
    BY <1>4, <1>5, <2>1 DEF FencedInv, AliveInv, ReadInv, WritingInv, Writing, In
  <2> QED BY <1>1, <1>4, <2>2, <2>3, <2>4, QuietStep DEF TxInv
<1> QED BY <1>2, <1>6, <1>7 DEF In

(* A transaction that ends without a write to the rows *)
LEMMA RollbackStep ==
  ASSUME PgTypeOK, \A d \in Connections : TxInv(d), NEW c \in Connections,
         Rollback(c) \/ Return(c)
  PROVE  StepOK(c)
<1>1. CommitTx(c) /\ UNCHANGED storeVars
  BY DEF Rollback, Return
<1>2. \A d \in Connections \ {c} : TxInv(d)'
  BY <1>1, CommitStep, QuietFrame
<1> QED BY <1>1, <1>2, CommitStep DEF StepOK
-----------------------------------------------------------------------------
(* The statements that commit.  Each is one operation of SessionStore.     *)

(* Two transactions that hold locks on one row hold compatible ones. *)
LEMMA Excluded ==
  ASSUME LocksExclusive, NEW c \in Connections, NEW d \in Connections, c # d,
         NEW row, NEW a, NEW b, <<row, a>> \in Holds(c), <<row, b>> \in Holds(d)
  PROVE  ~Conflict(a, b)
<1> DEFINE h == <<row, a>>
           g == <<row, b>>
<1>1. h \in Holds(c) /\ g \in Holds(d) /\ h[1] = g[1] => ~Conflict(h[2], g[2])
  BY DEF LocksExclusive
<1> QED BY <1>1

(* While c may read a turn's row, no state write of another transaction *)
(* has updated it.                                                          *)
LEMMA NoWriter ==
  ASSUME LocksExclusive, NEW c \in Connections, NEW u \in Turns,
         \/ <<u, "share">> \in Holds(c) \/ <<u, "no key update">> \in Holds(c)
         \/ Free(c, <<u, "share">>) \/ Free(c, <<u, "no key update">>)
  PROVE  \A d \in Connections \ {c} : tx[d].phase \in Writing => tx[d].turn # u
<1> SUFFICES ASSUME NEW d \in Connections \ {c}, tx[d].phase \in Writing, tx[d].turn = u
             PROVE  FALSE
  OBVIOUS
<1>1. <<u, "no key update">> \in Holds(d)
  BY DEF Holds, Writing
<1>2. /\ Conflict("share", "no key update") /\ Conflict("no key update", "share")
      /\ Conflict("no key update", "no key update")
  BY DEF Conflict
<1>3. CASE <<u, "share">> \in Holds(c) \/ <<u, "no key update">> \in Holds(c)
  BY <1>1, <1>2, <1>3, Excluded
<1>4. CASE Free(c, <<u, "share">>) \/ Free(c, <<u, "no key update">>)
  <2> DEFINE held == <<u, "no key update">>
  <2>1. held[1] = u /\ held[2] = "no key update"
    OBVIOUS
  <2> QED BY <1>1, <1>2, <1>4, <2>1 DEF Free, Blocks
<1> QED BY <1>3, <1>4

(* appendToEvents and the writes of thread rows, behind the fence *)
LEMMA FencedWriteStep ==
  ASSUME StoreInv, PgTypeOK, LocksExclusive, \A d \in Connections : TxInv(d),
         NEW c \in Connections,
         \/ \E e \in ClientEvents : InsertEvents(c, e)
         \/ \E th \in Threads :
              \/ AddThreads(c, th) \/ AppendContext(c, th) \/ OverwriteContext(c, th)
              \/ /\ \E clear \in BOOLEAN : UpsertCapability(c, th, clear)
                 /\ th \in snapshot[tx[c].turn].threads
  PROVE  StepOK(c)
<1> DEFINE u == tx[c].turn
<1>1. In(c, "fenced") /\ CommitTx(c) /\ alive' = alive /\ status' = status
  BY DEF InsertEvents, AddThreads, AppendContext, OverwriteContext, UpsertCapability,
         WriteThreadRows
<1>2. u \in Turns /\ status[u] = "running"
  BY <1>1 DEF TxInv, FencedInv
<1>3. \A v \in Turns \ {u} : snapshot'[v] = snapshot[v] /\ log'[v] = log[v]
  <2>1. snapshot \in [Turns -> Snapshots] /\ log \in [Turns -> Seq(Events)]
    BY DEF StoreInv, StoreTypeOK
  <2>2. ASSUME NEW e \in ClientEvents, InsertEvents(c, e)
        PROVE  \A v \in Turns \ {u} : snapshot'[v] = snapshot[v] /\ log'[v] = log[v]
    BY <2>1, <2>2, <1>2 DEF InsertEvents
  <2>3. ASSUME NEW snap, WriteThreadRows(c, snap)
        PROVE  \A v \in Turns \ {u} : snapshot'[v] = snapshot[v] /\ log'[v] = log[v]
    BY <2>1, <2>3, <1>2 DEF WriteThreadRows
  <2> QED BY <2>2, <2>3 DEF AddThreads, AppendContext, OverwriteContext, UpsertCapability
<1>4. <<u, "share">> \in Holds(c)
  BY <1>1 DEF Holds, In
<1>5. \A d \in Connections \ {c} : TxInv(d)'
  BY <1>1, <1>2, <1>3, <1>4, NoWriter, RowsFrame, CommitStep DEF StoreInv
<1>6. StoreNext
  <2>1. ASSUME NEW e \in ClientEvents, InsertEvents(c, e)
        PROVE  StoreNext
    <3>1. ~HasDone(u)
      BY <1>2 DEF StoreInv, LogSealed, HasDone, Terminal
    <3>2. Len(log[u]) < MaxLog
      BY <2>1, <3>1 DEF InsertEvents, Written
    <3>3. AppendToEvents(u, Event(e))
      BY <2>1, <1>2 DEF InsertEvents, AppendToEvents, RequireRunning
    <3> QED BY <1>2, <3>2, <3>3 DEF StoreNext
  <2>2. ASSUME NEW snap, WriteThreadRows(c, snap)
        PROVE  WriteSnapshot(u, snap)
    BY <1>2, <2>2 DEF WriteThreadRows, WriteSnapshot, RequireRunning
  <2>3. ASSUME NEW th \in Threads, AddThreads(c, th)
        PROVE  StoreNext
    BY <1>2, <2>2, <2>3 DEF AddThreads, AddThread, StoreNext
  <2>4. ASSUME NEW th \in Threads, AppendContext(c, th)
        PROVE  StoreNext
    <3>1. AppendToThreadContext(u, th) /\ Len(snapshot[u].context[th]) < MaxContext
      BY <2>2, <2>4 DEF AppendContext, AppendToThreadContext
    <3> QED BY <1>2, <3>1 DEF StoreNext
  <2>5. ASSUME NEW th \in Threads, OverwriteContext(c, th)
        PROVE  StoreNext
    <3>1. \E ctx \in Compactions(u, th) : OverwriteThreadContext(u, th, ctx)
      BY <2>2, <2>5 DEF OverwriteContext, OverwriteThreadContext
    <3> QED BY <1>2, <3>1 DEF StoreNext
  <2>6. ASSUME NEW th \in Threads, NEW clear \in BOOLEAN, UpsertCapability(c, th, clear),
               th \in snapshot[u].threads
        PROVE  StoreNext
    <3>1. PatchThreadCapabilityState(u, th, clear)
      BY <2>2, <2>6 DEF UpsertCapability, PatchThreadCapabilityState
    <3> QED BY <1>2, <3>1 DEF StoreNext
  <2> QED BY <2>1, <2>3, <2>4, <2>5, <2>6
<1> QED BY <1>1, <1>5, <1>6, CommitStep DEF StepOK

(* removeThreads, patchMCPServers and patchSandboxInfo, single statements *)
LEMMA SingleWriteStep ==
  ASSUME StoreInv, PgTypeOK, LocksExclusive, \A d \in Connections : TxInv(d),
         NEW c \in Connections, NEW u \in Turns,
         PatchTurn(c, u) \/ \E th \in Threads : RemoveThreads(c, u, th)
  PROVE  StepOK(c)
<1>1. /\ tx' = tx /\ In(c, "idle") /\ status[u] = "running"
      /\ alive' = alive /\ status' = status /\ log' = log
      /\ \A v \in Turns \ {u} : snapshot'[v] = snapshot[v]
  <2>1. snapshot \in [Turns -> Snapshots]
    BY DEF StoreInv, StoreTypeOK
  <2> QED BY <2>1 DEF PatchTurn, RemoveThreads, PatchCheckpoint, RemoveThread, WriteSnapshot,
                      RequireRunning
<1>2. Free(c, <<u, "share">>) \/ Free(c, <<u, "no key update">>)
  BY DEF PatchTurn, RemoveThreads
<1>3. \A d \in Connections \ {c} : TxInv(d)'
  BY <1>1, <1>2, NoWriter, RowsFrame DEF StoreInv
<1>4. TxInv(c)'
  BY <1>1 DEF TxInv, FencedInv, WritingInv, Writing, AliveInv, ReadInv, FrozenInv, In
<1>5. PgTypeOK' /\ LockStep(c)
  BY <1>1 DEF PgTypeOK, LockStep, Holds
<1>6. StoreNext
  BY DEF PatchTurn, RemoveThreads, StoreNext
<1> QED BY <1>3, <1>4, <1>5, <1>6 DEF StepOK

(* The transactions that can be open beside one that has the session row: *)
(* exclusively, or for a non-key update.                                   *)
LEMMA SessionHeld ==
  ASSUME LocksExclusive, NEW c \in Connections, NEW d \in Connections, c # d
  PROVE  /\ tx[c].phase \in {"locked", "read", "deleting"} =>
              tx[d].phase \notin {"locked", "read", "deleting", "logged", "applied", "assembled"}
         /\ tx[c].phase \in {"applied", "assembled"} =>
              tx[d].phase \notin {"locked", "read", "deleting", "applied", "assembled"}
<1>1. /\ \A m : Conflict("update", m) /\ Conflict(m, "update")
      /\ Conflict("no key update", "no key update")
  BY DEF Conflict
<1>2. ASSUME NEW e \in Connections
      PROVE  /\ tx[e].phase \in {"locked", "read", "deleting"} => <<Session, "update">> \in Holds(e)
             /\ tx[e].phase = "logged" => <<Session, "key share">> \in Holds(e)
             /\ tx[e].phase \in {"applied", "assembled"} => <<Session, "no key update">> \in Holds(e)
  BY DEF Holds
<1> QED BY <1>1, <1>2, Excluded

(* The COMMIT of a state write: a terminal write, a freeze or an update. *)
LEMMA CommitStateStep ==
  ASSUME StoreInv, PgTypeOK, LocksExclusive, \A d \in Connections : TxInv(d),
         NEW c \in Connections, CommitState(c)
  PROVE  StepOK(c)
<1> DEFINE u == tx[c].turn
           s == tx[c].status
           r == tx[c].reason
           e == IF tx[c].op = "update" THEN Event("turn.update") ELSE TurnDone(s)
<1>0. /\ status \in [Turns -> Status] /\ log \in [Turns -> Seq(Events)]
      /\ snapshot \in [Turns -> Snapshots]
  BY DEF StoreInv, StoreTypeOK
<1>1. /\ tx[c].phase \in {"applied", "assembled"}
      /\ In(c, "assembled") \/ tx[c].op # "freeze"
      /\ WriteTurnState(u, s, r, e)
      /\ IF tx[c].op = "freeze" THEN GotoPhase(c, "got") ELSE CommitTx(c)
  BY DEF CommitState, In
<1>2. /\ u \in Turns /\ StateShape(tx[c]) /\ status[u] \in Source(tx[c].op, s)
      /\ tx[c].op = "update" => Len(log[u]) < MaxLog
      /\ In(c, "assembled") => tx[c].snap = snapshot[u]
  BY <1>1 DEF TxInv, WritingInv, Writing
<1>3. status[u] \in NonTerminalStatus
  BY <1>2 DEF Source, NonTerminalStatus
<1>4. /\ alive' = alive /\ snapshot' = snapshot /\ status'[u] = s
      /\ \A v \in Turns \ {u} : status'[v] = status[v] /\ log'[v] = log[v]
  BY <1>0, <1>1, <1>2 DEF WriteTurnState
<1>5. <<u, "no key update">> \in Holds(c)
  BY <1>1 DEF Holds
<1>6. ASSUME NEW d \in Connections \ {c}, tx'[d] = tx[d]
      PROVE  TxInv(d)'
  <2>1. tx[d].phase \in Writing => tx[d].turn # u
    BY <1>2, <1>5, NoWriter
  <2>2. tx[d].phase = "fenced" => tx[d].turn # u
    <3>1. ASSUME tx[d].phase = "fenced", tx[d].turn = u
          PROVE  FALSE
      <4>1. <<u, "share">> \in Holds(d)
        BY <3>1 DEF Holds
      <4>2. Conflict("no key update", "share")
        BY DEF Conflict
      <4> QED BY <1>5, <4>1, <4>2, Excluded
    <3> QED BY <3>1
  <2>3. tx[d].phase \notin {"locked", "read", "deleting"}
    BY <1>1, SessionHeld
  <2>4. FencedInv(d)'
    BY <1>4, <1>6, <2>2 DEF TxInv, FencedInv, In
  <2>5. WritingInv(d)'
    BY <1>4, <1>6, <2>1 DEF TxInv, WritingInv, In, Source, StateShape
  <2>6. AliveInv(d)' /\ ReadInv(d)'
    BY <1>6, <2>3 DEF AliveInv, ReadInv, In
  <2>7. FrozenInv(d)'
    <3>1. tx[d].phase \in {"unmatched", "got"} /\ alive => tx[d].turn # u
      BY <1>3 DEF TxInv, FrozenInv, Terminal, NonTerminalStatus
    <3> QED BY <1>4, <1>6, <3>1 DEF TxInv, FrozenInv, In
  <2> QED BY <2>4, <2>5, <2>6, <2>7 DEF TxInv
<1>7. CASE tx[c].op = "freeze"
  <2> DEFINE y == [tx[c] EXCEPT !.phase = "got"]
  <2>1. tx' = [tx EXCEPT ![c] = y]
    BY <1>1, <1>7, TxTyped DEF GotoPhase
  <2>2. y \in TxRecords /\ y.phase = "got" /\ y.turn = u /\ y.snap = tx[c].snap
    BY TxTyped DEF TxRecords, TxPhases
  <2> HIDE DEF y
  <2>3. tx'[c] = y /\ \A d \in Connections \ {c} : tx'[d] = tx[d]
    BY <2>1, TxTyped
  <2>4. PgTypeOK'
    BY <2>1, <2>2, TxTyped DEF PgTypeOK, TxRecords
  <2>5. Holds(c)' = {}
    BY <2>2, <2>3 DEF Holds
  <2>6. s = "cancelled" /\ r \in ClientReasons
    BY <1>2, <1>7 DEF StateShape
  <2>7. FrozenInv(c)'
    BY <1>1, <1>2, <1>4, <1>7, <2>2, <2>3, <2>6 DEF FrozenInv, In, Terminal
  <2>8. FencedInv(c)' /\ AliveInv(c)' /\ ReadInv(c)' /\ WritingInv(c)'
    BY <2>2, <2>3 DEF FencedInv, AliveInv, ReadInv, WritingInv, Writing, In
  <2>9. FreezeAndGetTurn(u, r)
    <3>1. NonTerminal(u) /\ Present(u)
      BY <1>2, <1>3, StoreAssumption DEF NonTerminal, Present, NonTerminalStatus
    <3> QED BY <1>1, <1>7, <2>6, <3>1 DEF FreezeAndGetTurn
  <2>10. StoreNext
    BY <1>2, <2>6, <2>9 DEF StoreNext
  <2> QED BY <1>6, <2>3, <2>4, <2>5, <2>7, <2>8, <2>10 DEF StepOK, LockStep, TxInv
<1>8. CASE tx[c].op # "freeze"
  <2>1. CommitTx(c)
    BY <1>1, <1>8
  <2>2. NonTerminal(u)
    BY <1>2, <1>3, StoreAssumption DEF NonTerminal
  <2>3. StoreNext
    <3>1. CASE tx[c].op = "terminal"
      <4>1. UpdateTurnTerminalState(u, s, r)
        BY <1>1, <2>2, <3>1 DEF UpdateTurnTerminalState
      <4> QED BY <1>2, <3>1, <4>1 DEF StateShape, StoreNext
    <3>2. CASE tx[c].op = "update"
      <4>1. s \in NonTerminalStatus /\ r = NoReason
        BY <1>2, <3>2 DEF StateShape
      <4>2. status[u] = (IF s = "paused" THEN "running" ELSE "paused")
        BY <1>2, <3>2, <4>1 DEF Source, NonTerminalStatus
      <4>3. UpdateTurnNonTerminalState(u, s)
        BY <1>1, <3>2, <4>1, <4>2 DEF UpdateTurnNonTerminalState
      <4> QED BY <1>2, <3>2, <4>1, <4>3 DEF StoreNext
    <3> QED BY <1>2, <1>8, <3>1, <3>2 DEF StateShape
  <2> QED BY <1>6, <2>1, <2>3, CommitStep DEF StepOK
<1> QED BY <1>7, <1>8

(* The COMMIT of createTurn *)
LEMMA InsertTurnStep ==
  ASSUME StoreInv, PgTypeOK, LocksExclusive, \A d \in Connections : TxInv(d),
         NEW c \in Connections, InsertTurn(c)
  PROVE  StepOK(c)
<1> DEFINE t == tx[c].turn
           prev == tx[c].prev
<1>0. /\ status \in [Turns -> Status] /\ log \in [Turns -> Seq(Events)]
      /\ snapshot \in [Turns -> Snapshots]
  BY DEF StoreInv, StoreTypeOK
<1>1. In(c, "read") /\ CommitTx(c) /\ alive /\ ReadInv(c)
  BY DEF InsertTurn, TxInv, AliveInv, In
<1>2. t \in Turns /\ prev \in Turns \cup {NoTurn} /\ (prev = NoTurn \/ Present(prev))
  BY <1>1 DEF ReadInv, PgTypeOK
<1>3. PICK cl \in SUBSET Known(prev), new \in SUBSET (Threads \ Known(prev)) :
        \E app \in SUBSET (Known(prev) \cup new) :
          /\ CanCreateTurn(t, prev, new, app, Known(prev) \cup new)
          /\ tx[c].snap = SnapshotFromDelta(t, prev, new, app, cl)
  BY <1>1 DEF ReadInv
<1>4. PICK app \in SUBSET (Known(prev) \cup new) :
        /\ CanCreateTurn(t, prev, new, app, Known(prev) \cup new)
        /\ tx[c].snap = SnapshotFromDelta(t, prev, new, app, cl)
  BY <1>3
<1>5. CreateTurn(t, prev, new, app, Known(prev) \cup new, cl)
  BY <1>4 DEF CreateTurn, InsertTurn
<1>6. StoreNext
  BY <1>2, <1>5 DEF StoreNext
<1>7. status[t] = "absent"
  BY <1>2, <1>4, StoreAssumption DEF CanCreateTurn, Present
<1>8. /\ alive' = alive
      /\ \A v \in Turns \ {t} :
           status'[v] = status[v] /\ log'[v] = log[v] /\ snapshot'[v] = snapshot[v]
  BY <1>0, <1>2 DEF InsertTurn
<1>9. ASSUME NEW d \in Connections \ {c}, tx'[d] = tx[d]
      PROVE  TxInv(d)'
  <2>1. tx[d].phase \notin {"locked", "read", "deleting"}
    BY <1>1, SessionHeld DEF In
  <2>2. FencedInv(d)'
    <3>1. In(d, "fenced") => tx[d].turn # t
      BY <1>7 DEF TxInv, FencedInv
    <3> QED BY <1>8, <1>9, <3>1 DEF TxInv, FencedInv, In
  <2>3. WritingInv(d)'
    <3>1. tx[d].phase \in Writing => tx[d].turn # t
      BY <1>7 DEF TxInv, WritingInv, Source, NonTerminalStatus
    <3> QED BY <1>8, <1>9, <3>1 DEF TxInv, WritingInv, In, Source, StateShape
  <2>4. AliveInv(d)' /\ ReadInv(d)'
    BY <1>9, <2>1 DEF AliveInv, ReadInv, In
  <2>5. FrozenInv(d)'
    <3>1. tx[d].phase \in {"unmatched", "got"} => tx[d].turn # t
      BY <1>1, <1>7 DEF TxInv, FrozenInv, Terminal
    <3> QED BY <1>1, <1>8, <1>9, <3>1 DEF TxInv, FrozenInv, In
  <2> QED BY <2>2, <2>3, <2>4, <2>5 DEF TxInv
<1> QED BY <1>1, <1>6, <1>9, CommitStep DEF StepOK

(* The cascade of deleteSession waits for every turn another transaction  *)
(* has locked.                                                             *)
LEMMA DeleteCascadeStep ==
  ASSUME StoreInv, PgTypeOK, LocksExclusive, \A d \in Connections : TxInv(d),
         NEW c \in Connections, DeleteCascade(c)
  PROVE  StepOK(c)
<1>1. In(c, "deleting") /\ CommitTx(c) /\ Ready(c) /\ DeleteSession /\ ~alive'
  BY DEF DeleteCascade, DeleteSession
<1>2. ASSUME NEW d \in Connections \ {c}, tx'[d] = tx[d]
      PROVE  TxInv(d)'
  <2>1. tx[d].phase \notin {"locked", "read", "deleting"}
    BY <1>1, SessionHeld DEF In
  <2>2. ASSUME NEW u \in Turns, NEW m, <<u, m>> \in Holds(d), Present(u)
        PROVE  FALSE
    <3> DEFINE held == <<u, m>>
               need == <<u, "update">>
    <3>1. need \in Needs(c)
      BY <1>1, <2>2 DEF Needs, In, TurnRows
    <3>2. held \in Holds(d) /\ held[1] = need[1] /\ Conflict(held[2], need[2])
      BY <2>2 DEF Conflict
    <3> QED BY <1>1, <3>1, <3>2 DEF Ready, Free, Blocks
  <2>3. ~In(d, "fenced")
    <3>1. SUFFICES ASSUME In(d, "fenced") PROVE FALSE
      OBVIOUS
    <3>2. tx[d].turn \in Turns /\ Present(tx[d].turn) /\ <<tx[d].turn, "share">> \in Holds(d)
      BY <3>1, StoreAssumption DEF TxInv, FencedInv, Present, Holds, In
    <3> QED BY <2>2, <3>2
  <2>4. tx[d].phase \notin Writing
    <3>1. SUFFICES ASSUME tx[d].phase \in Writing PROVE FALSE
      OBVIOUS
    <3>2. tx[d].turn \in Turns /\ Present(tx[d].turn)
      BY <3>1, StoreAssumption DEF TxInv, WritingInv, Source, NonTerminalStatus, Present
    <3>3. <<tx[d].turn, "no key update">> \in Holds(d)
      BY <3>1 DEF Holds, Writing
    <3> QED BY <2>2, <3>2, <3>3
  <2> QED BY <1>1, <1>2, <2>1, <2>3, <2>4
          DEF TxInv, FencedInv, WritingInv, AliveInv, ReadInv, FrozenInv, In
<1>3. StoreNext
  BY <1>1 DEF StoreNext
<1> QED BY <1>1, <1>2, <1>3, CommitStep DEF StepOK

-----------------------------------------------------------------------------
(* Every statement of every connection keeps the invariant and is an      *)
(* operation of SessionStore or leaves the rows alone.                     *)
LEMMA StatementStep ==
  ASSUME StoreInv, PgInv, [PgNext]_pgVars
  PROVE  PgInv' /\ [StoreNext]_storeVars
<1>0. StoreTypeOK /\ PgTypeOK /\ LocksExclusive /\ \A d \in Connections : TxInv(d)
  BY DEF PgInv, StoreInv
<1>1. ASSUME NEW c \in Connections, CreateStatement(c)
      PROVE  StepOK(c)
  BY <1>0, <1>1, LockSessionStep, ReadPreviousStep, InsertTurnStep DEF CreateStatement
<1>2. ASSUME NEW c \in Connections, StateStatement(c)
      PROVE  StepOK(c)
  <2>1. ASSUME NEW t \in Turns, NEW r \in ClientReasons, NEW op \in {"freeze", "terminal"},
               UpdateTurn(c, t, op, "cancelled", r)
        PROVE  StepOK(c)
    <3>1. op \in Ops /\ "cancelled" \in Status /\ r \in Reasons \cup {NoReason} /\ op # "update"
      BY StoreAssumption DEF Ops, Status, Terminal, Reasons
    <3>2. \A x \in TxRecords : x.op = op /\ x.status = "cancelled" /\ x.reason = r => StateShape(x)
      BY DEF StateShape
    <3> QED BY <1>0, <2>1, <3>1, <3>2, UpdateTurnStep
  <2>2. ASSUME NEW t \in Turns, NEW s \in {"done", "error"},
               UpdateTurn(c, t, "terminal", s, NoReason)
        PROVE  StepOK(c)
    <3>1. "terminal" \in Ops /\ s \in Status /\ NoReason \in Reasons \cup {NoReason}
      BY DEF Ops, Status, Terminal
    <3>2. \A x \in TxRecords : x.op = "terminal" /\ x.status = s /\ x.reason = NoReason
            => StateShape(x)
      BY DEF StateShape
    <3> QED BY <1>0, <2>2, <3>1, <3>2, UpdateTurnStep
  <2>3. ASSUME NEW t \in Turns, NEW s \in NonTerminalStatus, Len(log[t]) < MaxLog,
               UpdateTurn(c, t, "update", s, NoReason)
        PROVE  StepOK(c)
    <3>1. "update" \in Ops /\ s \in Status /\ NoReason \in Reasons \cup {NoReason}
      BY DEF Ops, Status
    <3>2. \A x \in TxRecords : x.op = "update" /\ x.status = s /\ x.reason = NoReason
            => StateShape(x)
      BY DEF StateShape
    <3> QED BY <1>0, <2>3, <3>1, <3>2, UpdateTurnStep
  <2> QED BY <1>0, <1>2, <2>1, <2>2, <2>3, UpdateMissesStep, StateWriteStep, AssembleStep,
             CommitStateStep, RollbackStep DEF StateStatement
<1>3. ASSUME NEW c \in Connections, WriteStatement(c)
      PROVE  StepOK(c)
  BY <1>0, <1>3, FenceStep, SingleWriteStep, FencedWriteStep DEF WriteStatement
<1>4. ASSUME NEW c \in Connections, DeleteRow(c) \/ DeleteCascade(c) \/ Rollback(c)
      PROVE  StepOK(c)
  BY <1>0, <1>4, LockSessionStep, DeleteCascadeStep, RollbackStep
<1>5. ASSUME NEW c \in Connections, StepOK(c)
      PROVE  PgInv' /\ [StoreNext]_storeVars
  BY <1>0, <1>5, LocksStep DEF StepOK, PgInv
<1>6. CASE UNCHANGED pgVars
  <2>1. UNCHANGED storeVars /\ tx' = tx
    BY <1>6 DEF pgVars
  <2>2. PgTypeOK' /\ LocksExclusive'
    <3>1. \A d \in Connections : Holds(d)' = Holds(d)
      BY <2>1 DEF Holds
    <3>2. LocksExclusive'
      BY <1>0, <3>1 DEF PgInv, LocksExclusive
    <3>3. PgTypeOK'
      BY <1>0, <2>1 DEF PgInv, PgTypeOK
    <3> QED BY <3>2, <3>3
  <2>3. \A d \in Connections : TxInv(d)'
    BY <1>0, <2>1, QuietFrame
  <2> QED BY <2>1, <2>2, <2>3 DEF PgInv
<1> QED BY <1>1, <1>2, <1>3, <1>4, <1>5, <1>6 DEF PgNext

LEMMA PgInitially == PgInit => StoreInv /\ PgInv
<1> SUFFICES ASSUME PgInit PROVE StoreInv /\ PgInv
  OBVIOUS
<1>1. StoreInv
  BY StoreInvInit DEF PgInit
<1>2. tx \in [Connections -> TxRecords] /\ \A c \in Connections : tx[c].phase = "idle"
  BY IdleTyped DEF PgInit, Idle
<1>3. PgTypeOK /\ LocksExclusive
  BY <1>2 DEF PgTypeOK, TxRecords, LocksExclusive, Holds
<1>4. \A c \in Connections : TxInv(c)
  BY <1>2 DEF TxInv, FencedInv, WritingInv, Writing, AliveInv, ReadInv, FrozenInv, In
<1> QED BY <1>1, <1>3, <1>4 DEF PgInv

(* The inductive invariant of the transactions and of the rows they have   *)
(* committed.                                                              *)
THEOREM PgInvariant == PgSpec => [](StoreInv /\ PgInv)
<1>1. StoreInv /\ PgInv /\ [PgNext]_pgVars => (StoreInv /\ PgInv)'
  BY StatementStep, StoreInvStep
<1> QED BY <1>1, PgInitially, PTL DEF PgSpec

(* The Postgres transactions implement SessionStore's atomic operations,   *)
(* however their statements interleave and whichever of them roll back.    *)
THEOREM PostgresImplementsStore == PgSpec => StoreSpec
<1>1. PgInit => StoreInit
  BY DEF PgInit
<1>2. StoreInv /\ PgInv /\ [PgNext]_pgVars => [StoreNext]_storeVars
  BY StatementStep
<1> QED BY <1>1, <1>2, PgInvariant, PTL DEF PgSpec, StoreSpec

(* The record freezeAndGetTurn returns is final: no write lands after it   *)
(* was read.                                                               *)
THEOREM FreezeReadsFinalAlways == PgSpec => []FreezeReadsFinal
<1>1. PgInv => FreezeReadsFinal
  BY DEF PgInv, TxInv, FrozenInv, FreezeReadsFinal, In
<1> QED BY <1>1, PgInvariant, PTL

(* A transaction that is not a deleteSession waits only for one that needs *)
(* no further lock.                                                        *)
LEMMA WaitsForTheFree ==
  ASSUME NEW c \in Connections, NEW d \in Connections,
         ~In(c, "deleting"), ~In(d, "deleting"),
         tx[d].phase \in {"fenced"} \cup Writing => tx[d].turn \in Turns,
         Waits(c, d)
  PROVE  Needs(d) = {}
<1>1. PICK need \in Needs(c) : Blocks(d, need)
  BY DEF Waits
<1>2. need = <<Session, "key share">> \/ need = <<Session, "no key update">>
  BY <1>1 DEF Needs, In
<1>3. need[1] = Session /\ need[2] \in {"key share", "no key update"}
  <2>1. CASE need = <<Session, "key share">>
    BY <2>1
  <2>2. CASE need = <<Session, "no key update">>
    BY <2>2
  <2> QED BY <1>2, <2>1, <2>2
<1>4. PICK held \in Holds(d) : held[1] = Session /\ Conflict(held[2], need[2])
  BY <1>1, <1>3 DEF Blocks
<1>5. tx[d].phase \notin {"fenced", "updated"}
  <2>1. CASE tx[d].phase = "fenced"
    BY <1>4, <2>1, RowsAssumption DEF Holds
  <2>2. CASE tx[d].phase = "updated"
    <3>1. held = <<tx[d].turn, "no key update">> /\ tx[d].turn \in Turns
      BY <1>4, <2>2 DEF Holds, Writing
    <3> QED BY <1>4, <3>1, RowsAssumption
  <2> QED BY <2>1, <2>2
<1>6. tx[d].phase # "logged"
  <2> SUFFICES ASSUME tx[d].phase = "logged" PROVE FALSE
    OBVIOUS
  <2>1. held = <<tx[d].turn, "no key update">> \/ held = <<Session, "key share">>
    BY <1>4 DEF Holds
  <2>2. tx[d].turn \in Turns
    BY DEF Writing
  <2>3. CASE held = <<tx[d].turn, "no key update">>
    BY <1>4, <2>2, <2>3, RowsAssumption
  <2>4. CASE held = <<Session, "key share">>
    BY <1>3, <1>4, <2>4 DEF Conflict
  <2> QED BY <2>1, <2>3, <2>4
<1> QED BY <1>5, <1>6 DEF Needs, In

(* Every deadlock has a deleteSession in it. *)
THEOREM DeadlockNeedsDeleteAlways == PgSpec => []DeadlockNeedsDelete
<1>1. ASSUME PgInv, NEW S \in SUBSET {c \in Connections : ~In(c, "deleting")}, Deadlocked(S)
      PROVE  FALSE
  <2>1. \A d \in Connections :
          tx[d].phase \in {"fenced"} \cup Writing => tx[d].turn \in Turns
    BY <1>1 DEF PgInv, TxInv, FencedInv, WritingInv, In
  <2>2. \A c, d \in S : Waits(c, d) => Needs(d) = {}
    BY <2>1, WaitsForTheFree DEF In
  <2>3. \A c, d \in S : Waits(c, d) => Needs(c) # {}
    BY DEF Waits
  <2> QED BY <1>1, <2>2, <2>3 DEF Deadlocked
<1>2. PgInv => DeadlockNeedsDelete
  BY <1>1 DEF DeadlockNeedsDelete
<1> QED BY <1>2, PgInvariant, PTL

(* Branches do not mix in the rows of the Postgres store. *)
THEOREM PgBranchIsolation == PgSpec => []BranchIsolation
  BY PostgresImplementsStore, BranchIsolationAlways, PTL

(* No transaction changes a terminal turn while its session exists. *)
THEOREM PgTerminalIsFinal == PgSpec => TerminalIsFinal
  BY PostgresImplementsStore, TerminalIsFinalAlways, PTL
=============================================================================
