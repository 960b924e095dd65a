------------------------ MODULE ScheduleDispatchProofs ------------------------
(***************************************************************************)
(* The schedules' safety properties for any schedules, crons, batch limit, *)
(* number of faults and deployment.  SchedInv relates the run rows to the  *)
(* schedules and to what the dispatch pass holds of them; OnceInv and      *)
(* HistInv add what is known of the hand-offs under way.                   *)
(***************************************************************************)
EXTENDS ScheduleDispatch, FiniteSetTheorems, WellFoundedInduction, TLAPS

InPass == disp.pc \in {"pass", "handing", "waiting", "finishing"}
InHand == disp.pc \in {"handing", "waiting", "finishing"}
Settled == {"triggered", "failed"}

(* Rows are minted in order and keep their schedule; a run-now is never    *)
(* pending; a settled cron run was due, by the clock of the pass too.      *)
RowInv ==
  \A r \in RunIds :
    /\ r > minted => runs[r] = NoRow /\ turns[r] = 0
    /\ r <= minted => runs[r].schedule \in Schedules
    /\ runs[r].manual => runs[r].status # "scheduled"
    /\ runs[r].status \in Settled /\ ~runs[r].manual =>
         runs[r].due <= now /\ (InPass => runs[r].due <= disp.clock)

(* A run the pass has read: still pending, or deleted since. *)
OfPass(r) ==
  /\ r \in 1..minted
  /\ ~runs[r].manual
  /\ runs[r].status \in {"scheduled", "absent"}
  /\ runs[r].due <= disp.clock

LoopInv ==
  /\ InPass => disp.clock <= now
  /\ ~InPass => disp.batch = {}
  /\ \A r \in disp.batch : OfPass(r)
  /\ InHand => OfPass(disp.run) /\ disp.run \notin disp.batch
  /\ disp.pc = "finishing" => disp.outcome \in Settled

(* PendingMatchesStatus, without counting *)
PendInv ==
  \A s \in Schedules :
    /\ \A r, q \in Pending(s) : r = q
    /\ Pending(s) # {} => sched[s].status = "active"
    /\ Exists(s) => sched[s].cron \in Crons
    /\ sched[s].status = "active" /\ HasNext(sched[s].cron, now) => Pending(s) # {}

(* A hand-off names a run of its own kind; only run-now marks its run. *)
CallInv ==
  /\ \A k \in CallIds :
       /\ k > made => calls[k] = NoCall
       /\ k <= made => /\ calls[k].run \in 1..minted
                       /\ calls[k].manual = runs[calls[k].run].manual
       /\ calls[k].pc = "mark" => calls[k].manual
  /\ disp.pc = "waiting" => disp.call \in 1..made /\ calls[disp.call].run = disp.run

SchedInv == TypeOK /\ RowInv /\ LoopInv /\ PendInv /\ CallInv

(* At most one fault, and none that leaves a call behind a new controller. *)
Solo == faults = 0 \/ (Standalone /\ faults <= 1)

(* A call nobody waits for: its client has timed out. *)
Orphan(k) ==
  UnderWay(k) /\ ~calls[k].manual /\ ~(disp.pc = "waiting" /\ disp.call = k)

(* The run of an orphan is not handed over again. *)
OrphanInv(k) ==
  LET r == calls[k].run IN
  /\ faults = 1
  /\ \/ disp.pc = "finishing" /\ disp.run = r
     \/ r \notin disp.batch /\ runs[r].status # "scheduled" /\ (InHand => disp.run # r)

OneCall ==
  \A j, k \in CallIds :
    UnderWay(j) /\ UnderWay(k) /\ calls[j].run = calls[k].run => j = k
Orphans == \A k \in CallIds : Orphan(k) => OrphanInv(k)
FreshStart == \A k \in CallIds : calls[k].pc = "start" => turns[calls[k].run] = 0

OnceInv == Solo => OneCall /\ Orphans /\ FreshStart /\ StartedOnce

(* Without faults, what the pass knows of its runs and what has been       *)
(* recorded agree with the turns there are.                                *)
LoopTurns ==
  /\ \A r \in disp.batch : turns[r] = 0
  /\ disp.pc = "handing" => turns[disp.run] = 0
  /\ disp.pc = "waiting" =>
       turns[disp.run] = IF calls[disp.call].pc = "ok" THEN 1 ELSE 0
  /\ disp.pc = "finishing" =>
       turns[disp.run] = IF disp.outcome = "triggered" THEN 1 ELSE 0

CallTurns ==
  \A k \in CallIds :
    /\ calls[k].pc = "load" => ~calls[k].manual
    /\ UnderWay(k) /\ calls[k].manual =>
         turns[calls[k].run] = 0 /\ runs[calls[k].run].status # "failed"

RowTurns ==
  \A r \in RunIds :
    /\ runs[r].status = "scheduled" =>
         turns[r] = 0 \/ (disp.pc \in {"waiting", "finishing"} /\ disp.run = r)
    /\ runs[r].status = "failed" => turns[r] = 0
    /\ runs[r].status = "triggered" =>
         \/ turns[r] = 1
         \/ runs[r].manual /\ \E k \in CallIds : calls[k].run = r /\ UnderWay(k)

HistInv == faults = 0 => LoopTurns /\ CallTurns /\ RowTurns
-----------------------------------------------------------------------------
(* The next trigger *)

(* A set of naturals has its least element. *)
LEMMA NatMin ==
  ASSUME NEW T \in SUBSET Nat, T # {}
  PROVE  Min(T) \in T /\ \A y \in T : Min(T) <= y
<1> DEFINE R == OpToRel(<, Nat)
<1>1. IsWellFoundedOn(R, Nat)
  BY NatLessThanWellFounded
<1>2. \A a, b \in Nat : a < b => <<a, b>> \in R
  BY DEF OpToRel
<1> HIDE DEF R
<1>3. PICK x \in T : \A y \in T : ~(<<y, x>> \in R)
  BY <1>1, WFMin
<1>4. \A y \in T : x <= y
  <2> TAKE y \in T
  <2>1. x \in Nat /\ y \in Nat
    OBVIOUS
  <2>2. ~(y < x)
    BY <1>2, <1>3, <2>1
  <2> QED BY <2>1, <2>2
<1> QED BY <1>4 DEF Min

(* nextTriggerAfter is strictly later. *)
LEMMA NextTriggerLater ==
  ASSUME NEW c \in Crons, NEW from \in Nat, HasNext(c, from)
  PROVE  NextTriggerAfter(c, from) \in Nat /\ NextTriggerAfter(c, from) > from
<1>1. Later(c, from) \in SUBSET Nat /\ Later(c, from) # {}
  BY ScheduleAssumption DEF HasNext, Later
<1>2. Min(Later(c, from)) \in Later(c, from)
  BY <1>1, NatMin
<1> QED BY <1>1, <1>2 DEF NextTriggerAfter, Later

(* The clock only takes triggers away. *)
LEMMA HasNextEarlier ==
  ASSUME NEW c \in Crons, NEW from \in Nat, NEW to \in Nat, from <= to, HasNext(c, to)
  PROVE  HasNext(c, from)
  BY ScheduleAssumption DEF HasNext, Later

LEMMA MaxOfTwo ==
  ASSUME NEW a \in Nat, NEW b \in Nat, a <= b
  PROVE  Max({a, b}) = b
<1>1. \E x \in {a, b} : \A y \in {a, b} : x >= y
  OBVIOUS
<1>2. Max({a, b}) \in {a, b} /\ \A y \in {a, b} : Max({a, b}) >= y
  BY <1>1 DEF Max
<1> QED BY <1>2

-----------------------------------------------------------------------------
(* Types *)

(* createRun fills the next row and leaves the others. *)
LEMMA NewRow ==
  ASSUME minted \in 0..MaxRuns, minted < MaxRuns, MaxRuns \in Nat,
         NEW rows \in [RunIds -> Rows], NEW s \in Schedules, NEW due \in Nat,
         NEW manual \in BOOLEAN
  PROVE  /\ minted + 1 \in RunIds /\ minted + 1 \in 0..MaxRuns
         /\ CreateRun(rows, s, due, manual) \in [RunIds -> Rows]
         /\ CreateRun(rows, s, due, manual)[minted + 1] =
              [schedule |-> s, due |-> due, manual |-> manual, session |-> FALSE,
               status |-> IF manual THEN "triggered" ELSE "scheduled"]
         /\ \A r \in RunIds : r # minted + 1 =>
              CreateRun(rows, s, due, manual)[r] = rows[r]
  BY DEF CreateRun, Rows, RunIds

(* Deleted rows keep everything but their status. *)
LEMMA WithoutRows ==
  ASSUME runs \in [RunIds -> Rows], NEW rs \in SUBSET RunIds
  PROVE  /\ Without(rs) \in [RunIds -> Rows]
         /\ \A r \in RunIds :
              /\ Without(rs)[r] = IF r \in rs THEN [runs[r] EXCEPT !.status = "absent"]
                                               ELSE runs[r]
              /\ Without(rs)[r].schedule = runs[r].schedule
              /\ Without(rs)[r].due = runs[r].due
              /\ Without(rs)[r].manual = runs[r].manual
              /\ Without(rs)[r].status = IF r \in rs THEN "absent" ELSE runs[r].status
  BY DEF Without, Rows

(* What a client's write of an existing or new schedule does to the rows. *)
Synced(s, c, st, from) ==
  LET due == NextTriggerAfter(c, from) IN
  \/ st = "paused" /\ runs' = DropPending(s) /\ minted' = minted
  \/ /\ st = "active" /\ minted < MaxRuns
     /\ due \in Nat
     /\ runs' = CreateRun(DropPending(s), s, due, FALSE)
     /\ minted' = minted + 1

LEMMA SyncEffect ==
  ASSUME TypeOK, NEW s \in Schedules, NEW c \in Crons, NEW st, NEW from \in Nat,
         HasNext(c, from), SyncPendingRun(s, c, st, from)
  PROVE  Synced(s, c, st, from)
  BY NextTriggerLater DEF SyncPendingRun, Synced, TypeOK
DispRecords ==
  [pc : LoopPCs, clock : Nat, batch : SUBSET RunIds, run : 0..MaxRuns,
   call : 0..MaxCalls, tries : Nat, outcome : {"none", "triggered", "failed"}]
CallRecords == [pc : CallPCs, run : 0..MaxRuns, manual : BOOLEAN]

LEMMA ConstantsTyped ==
  /\ MaxRuns \in Nat /\ MaxCalls \in Nat
  /\ NoCall \in CallRecords /\ NoRow \in Rows /\ IdleLoop \in DispRecords
  BY ScheduleAssumption DEF NoCall, NoRow, Rows, IdleLoop, CallPCs, LoopPCs,
     CallRecords, DispRecords

LEMMA SchedInit == Init => SchedInv
<1> SUFFICES ASSUME Init PROVE SchedInv
  OBVIOUS
<1>1. TypeOK
  <2>1. 0 \in 0..MaxRuns /\ 0 \in 0..MaxCalls
    BY ConstantsTyped
  <2>2. /\ runs \in [RunIds -> Rows] /\ disp \in DispRecords
        /\ calls \in [CallIds -> CallRecords]
    BY ConstantsTyped DEF Init
  <2>3. turns \in [RunIds -> Nat] /\ sessions \subseteq RunIds /\ stopping \in BOOLEAN
    BY DEF Init
  <2> QED BY <2>1, <2>2, <2>3 DEF Init, TypeOK, CallRecords, DispRecords
<1>2. RowInv
  BY DEF Init, RowInv, NoRow, Settled, RunIds
<1>4. LoopInv /\ CallInv
  BY DEF Init, LoopInv, CallInv, InPass, InHand, IdleLoop, NoCall, CallIds
<1>3. PendInv
  BY DEF Init, PendInv, Pending, RowsOf, NoRow, Exists
<1> QED BY <1>1, <1>2, <1>3, <1>4 DEF SchedInv

(* Steps of the loop that touch neither rows nor hand-offs *)
LoopMove(d) ==
  /\ disp' = d
  /\ UNCHANGED <<now, sched, runs, minted, turns, calls, made>>
  /\ UNCHANGED sessions
  /\ stopping' \in BOOLEAN /\ writes' \in Nat /\ stops' \in Nat /\ faults' \in Nat

LEMMA LoopMoveKeeps ==
  ASSUME SchedInv, NEW d \in DispRecords, LoopMove(d), LoopInv',
         InPass' => (InPass /\ disp'.clock = disp.clock) \/ disp'.clock = now,
         d.pc = "waiting" => d.call \in 1..made /\ calls[d.call].run = d.run
  PROVE  SchedInv'
<1>1. TypeOK'
  BY DEF SchedInv, TypeOK, LoopMove, DispRecords
<1>2. RowInv'
  BY DEF SchedInv, RowInv, LoopMove, InPass
<1>3. PendInv'
  BY DEF SchedInv, PendInv, Pending, RowsOf, Exists, LoopMove
<1>4. CallInv'
  BY DEF SchedInv, CallInv, LoopMove
<1> QED BY <1>1, <1>2, <1>3, <1>4 DEF SchedInv

LEMMA DispTyped == TypeOK => disp \in DispRecords /\ calls \in [CallIds -> CallRecords]
  BY DEF TypeOK, DispRecords, CallRecords

LEMMA StartPassKeeps == SchedInv /\ StartPass => SchedInv'
<1> SUFFICES ASSUME SchedInv, StartPass PROVE SchedInv'
  OBVIOUS
<1>1. PICK b \in SUBSET Due :
        disp' = [IdleLoop EXCEPT !.pc = "pass", !.clock = now, !.batch = b]
  BY DEF StartPass
<1>2. b \subseteq RunIds
  BY DEF Due
<1>3. disp' \in DispRecords /\ disp'.pc = "pass" /\ disp'.clock = now /\ disp'.batch = b
  BY <1>1, <1>2, ConstantsTyped DEF DispRecords, IdleLoop, LoopPCs, SchedInv, TypeOK
<1>4. LoopMove(disp')
  BY DEF StartPass, LoopMove, apiVars, execVars, callVars, SchedInv, TypeOK
<1>5. \A r \in b : OfPass(r)'
  BY <1>3, <1>4 DEF LoopMove, OfPass, Due, SchedInv, RowInv, NoRow, RunIds, TypeOK, Rows
<1>6. LoopInv'
  BY <1>3, <1>4, <1>5 DEF LoopInv, InPass, InHand, LoopMove, SchedInv, TypeOK
<1> QED BY <1>3, <1>4, <1>6, LoopMoveKeeps DEF InPass

(* In a pass: the clock stays, the runs left are among those held before.  *)
LEMMA PassMoveKeeps ==
  ASSUME SchedInv, NEW d \in DispRecords, LoopMove(d),
         InPass, d.clock = disp.clock, d.batch \subseteq disp.batch,
         d.pc \in {"handing", "waiting", "finishing"} =>
           d.run \in (IF InHand THEN {disp.run} ELSE disp.batch) \ d.batch,
         d.pc \in {"pass", "handing", "waiting", "finishing"},
         d.pc = "finishing" => d.outcome \in Settled,
         d.pc = "waiting" => d.call \in 1..made /\ calls[d.call].run = d.run
  PROVE  SchedInv'
<1>1. \A r : OfPass(r) => OfPass(r)'
  BY DEF OfPass, LoopMove
<1>2. LoopInv'
  BY <1>1 DEF LoopInv, InPass, InHand, LoopMove, SchedInv
<1> QED BY <1>2, LoopMoveKeeps DEF LoopMove

LEMMA IdleMoveKeeps ==
  ASSUME SchedInv, NEW d \in {IdleLoop, [IdleLoop EXCEPT !.pc = "down"]}, LoopMove(d)
  PROVE  SchedInv'
<1>1. d \in DispRecords /\ d.pc \in {"idle", "down"} /\ d.batch = {}
  BY ConstantsTyped DEF DispRecords, IdleLoop, LoopPCs
<1>2. LoopInv'
  BY <1>1 DEF LoopInv, InPass, InHand, LoopMove
<1> QED BY <1>1, <1>2, LoopMoveKeeps DEF InPass, LoopMove

LEMMA LoopStepMoves ==
  ASSUME SchedInv, NEW d, LoopStep(d), UNCHANGED callVars
  PROVE  LoopMove(d)
  BY DEF LoopStep, LoopMove, apiVars, execVars, callVars, SchedInv, TypeOK

LEMMA PassStepsKeep ==
  SchedInv /\ (TakeRun \/ EndPass \/ TakeAnswer \/ Exit \/ Stop \/ Restart
               \/ HandOffTimesOut \/ FinishFails) => SchedInv'
<1> SUFFICES ASSUME SchedInv PROVE
      (TakeRun \/ EndPass \/ TakeAnswer \/ Exit \/ Stop \/ Restart
               \/ HandOffTimesOut \/ FinishFails) => SchedInv'
  OBVIOUS
<1>0. disp \in DispRecords /\ calls \in [CallIds -> CallRecords]
  BY DispTyped DEF SchedInv
<1>1. CASE TakeRun
  <2>1. PICK r \in disp.batch :
          LoopStep([disp EXCEPT
            !.batch = @ \ {r}, !.run = r, !.tries = 0,
            !.pc = IF Exists(runs[r].schedule) THEN "handing" ELSE "pass"])
    BY <1>1 DEF TakeRun
  <2>2. disp.pc = "pass" /\ UNCHANGED callVars
    BY <1>1 DEF TakeRun
  <2>3. LoopMove(disp')
    BY <2>1, <2>2, LoopStepMoves DEF LoopStep
  <2>4. /\ disp' \in DispRecords /\ disp'.clock = disp.clock
        /\ disp'.batch = disp.batch \ {r} /\ disp'.run = r
        /\ disp'.pc \in {"handing", "pass"}
    <3>1. PICK p \in {"handing", "pass"} :
            disp' = [disp EXCEPT !.batch = @ \ {r}, !.run = r, !.tries = 0, !.pc = p]
      BY <2>1 DEF LoopStep
    <3>2. r \in 0..MaxRuns /\ disp.batch \ {r} \in SUBSET RunIds
      BY <1>0 DEF DispRecords, RunIds
    <3>3. p \in LoopPCs
      BY DEF LoopPCs
    <3> QED BY <1>0, <3>1, <3>2, <3>3 DEF DispRecords
  <2> QED BY <2>2, <2>3, <2>4, PassMoveKeeps DEF InPass, InHand
<1>2. CASE EndPass \/ Exit
  <2>1. PICK d \in {IdleLoop, [IdleLoop EXCEPT !.pc = "down"]} :
          LoopStep(d) /\ UNCHANGED callVars
    BY <1>2 DEF EndPass, Exit
  <2> QED BY <2>1, LoopStepMoves, IdleMoveKeeps
<1>3. CASE TakeAnswer
  <2>1. /\ disp.pc = "waiting" /\ UNCHANGED callVars
        /\ \/ LoopStep(Outcome("triggered")) \/ LoopStep(Outcome("failed"))
           \/ LoopStep([disp EXCEPT !.pc = "handing", !.tries = @ + 1])
    BY <1>3 DEF TakeAnswer
  <2>2. LoopMove(disp')
    BY <2>1, LoopStepMoves DEF LoopStep
  <2>3. /\ disp' \in DispRecords /\ disp'.clock = disp.clock
        /\ disp'.batch = disp.batch /\ disp'.run = disp.run
        /\ disp'.pc \in {"handing", "finishing"}
        /\ disp'.pc = "finishing" => disp'.outcome \in Settled
    <3>1. CASE disp' = Outcome("triggered") \/ disp' = Outcome("failed")
      BY <1>0, <3>1 DEF DispRecords, LoopPCs, Outcome, Settled
    <3>2. CASE disp' = [disp EXCEPT !.pc = "handing", !.tries = @ + 1]
      <4>1. disp.tries + 1 \in Nat /\ "handing" \in LoopPCs
        BY <1>0 DEF DispRecords, LoopPCs
      <4> QED BY <1>0, <3>2, <4>1 DEF DispRecords
    <3> QED BY <2>1, <3>1, <3>2 DEF LoopStep
  <2> QED BY <2>1, <2>2, <2>3, PassMoveKeeps DEF InPass, InHand, SchedInv, LoopInv
<1>4. CASE Stop
  <2>1. LoopMove(disp) /\ disp' = disp
    BY <1>4, ScheduleAssumption DEF Stop, LoopMove, apiVars, execVars, callVars, SchedInv, TypeOK
  <2>2. LoopInv'
    BY <2>1 DEF LoopMove, LoopInv, OfPass, InPass, InHand, SchedInv
  <2> QED BY <1>0, <2>1, <2>2, LoopMoveKeeps DEF SchedInv, CallInv, InPass
<1>5. CASE Restart
  <2>1. LoopMove(IdleLoop)
    BY <1>5 DEF Restart, LoopMove, apiVars, execVars, callVars, SchedInv, TypeOK
  <2> QED BY <2>1, IdleMoveKeeps
<1>6. CASE HandOffTimesOut \/ FinishFails
  <2>1. /\ disp.pc \in {"waiting", "finishing"}
        /\ disp' = Outcome("failed") \/ disp' = [disp EXCEPT !.pc = "pass"]
        /\ LoopMove(disp')
    BY <1>6 DEF HandOffTimesOut, FinishFails, Fault, LoopMove, apiVars, execVars, callVars,
       SchedInv, TypeOK
  <2>2. /\ disp' \in DispRecords /\ disp'.clock = disp.clock
        /\ disp'.batch = disp.batch /\ disp'.run = disp.run
        /\ disp'.pc \in {"pass", "finishing"}
        /\ disp'.pc = "finishing" => disp'.outcome \in Settled
    BY <1>0, <2>1 DEF DispRecords, LoopPCs, Outcome, Settled
  <2> QED BY <2>1, <2>2, PassMoveKeeps DEF InPass, InHand, SchedInv, LoopInv
<1> QED BY <1>1, <1>2, <1>3, <1>4, <1>5, <1>6

LEMMA HandOffKeeps == SchedInv /\ HandOff => SchedInv'
<1> SUFFICES ASSUME SchedInv, HandOff PROVE SchedInv'
  OBVIOUS
<1>0. disp \in DispRecords /\ calls \in [CallIds -> CallRecords] /\ disp.pc = "handing"
  BY DispTyped DEF SchedInv, HandOff
<1>1. CASE LoopStep(Outcome("failed")) /\ UNCHANGED callVars
  <2>1. LoopMove(disp')
    BY <1>1, LoopStepMoves DEF LoopStep
  <2>2. /\ disp' \in DispRecords /\ disp'.clock = disp.clock
        /\ disp'.batch = disp.batch /\ disp'.run = disp.run
        /\ disp'.pc = "finishing" /\ disp'.outcome \in Settled
    BY <1>0, <1>1 DEF LoopStep, DispRecords, LoopPCs, Outcome, Settled
  <2> QED BY <1>0, <2>1, <2>2, PassMoveKeeps DEF InPass, InHand, SchedInv, LoopInv
<1>2. CASE /\ made < MaxCalls
           /\ calls' = [calls EXCEPT ![made + 1] =
                          [pc |-> "load", run |-> disp.run, manual |-> FALSE]]
           /\ made' = made + 1
           /\ LoopStep([disp EXCEPT !.pc = "waiting", !.call = made + 1])
  <2>1. made + 1 \in CallIds /\ made + 1 \in 0..MaxCalls
    BY <1>2, ConstantsTyped DEF CallIds, SchedInv, TypeOK
  <2>2. /\ disp' \in DispRecords /\ disp'.pc = "waiting" /\ disp'.call = made + 1
        /\ disp'.run = disp.run /\ disp'.batch = disp.batch /\ disp'.clock = disp.clock
    BY <1>0, <1>2, <2>1 DEF LoopStep, DispRecords, LoopPCs
  <2>3. /\ calls' \in [CallIds -> CallRecords]
        /\ calls'[made + 1] = [pc |-> "load", run |-> disp.run, manual |-> FALSE]
        /\ \A k \in CallIds : k # made + 1 => calls'[k] = calls[k]
    BY <1>0, <1>2, <2>1 DEF CallRecords, CallPCs, DispRecords
  <2>4. UNCHANGED <<now, sched, runs, minted, turns, sessions, stopping, writes, stops, faults>>
    BY <1>2 DEF LoopStep, apiVars, execVars
  <2>5. TypeOK'
    BY <1>2, <2>1, <2>2, <2>3, <2>4 DEF SchedInv, TypeOK, DispRecords, CallRecords
  <2>6. RowInv'
    BY <1>0, <2>2, <2>4 DEF SchedInv, RowInv, InPass
  <2>7. LoopInv'
    BY <1>0, <2>2, <2>4 DEF SchedInv, LoopInv, InPass, InHand, OfPass
  <2>8. PendInv'
    BY <2>4 DEF SchedInv, PendInv, Pending, RowsOf, Exists
  <2>9. CallInv'
    <3>1. disp.run \in 1..minted /\ ~runs[disp.run].manual
      BY <1>0 DEF SchedInv, LoopInv, InHand, OfPass
    <3>2. made \in Nat
      BY DEF SchedInv, TypeOK
    <3>3. ASSUME NEW k \in CallIds
          PROVE  /\ k > made' => calls'[k] = NoCall
                 /\ k <= made' => /\ calls'[k].run \in 1..minted'
                                  /\ calls'[k].manual = runs'[calls'[k].run].manual
                 /\ calls'[k].pc = "mark" => calls'[k].manual
      <4>1. CASE k = made + 1
        <5>1. /\ calls'[k].run = disp.run /\ calls'[k].pc = "load"
              /\ calls'[k].manual = FALSE /\ ~(k > made')
          BY <1>2, <2>3, <3>2, <4>1
        <5>2. disp.run \in RunIds /\ runs[disp.run] \in Rows
          BY <3>1 DEF SchedInv, TypeOK, RunIds
        <5>3. runs[disp.run].manual = FALSE
          BY <3>1, <5>2 DEF Rows
        <5> QED BY <2>4, <3>1, <5>1, <5>3
      <4>2. CASE k # made + 1
        <5>1. calls'[k] = calls[k] /\ (k > made + 1 => k > made) /\ (k <= made + 1 => k <= made)
          BY <2>3, <3>2, <4>2 DEF CallIds
        <5> QED BY <1>2, <2>4, <5>1 DEF SchedInv, CallInv
      <4> QED BY <4>1, <4>2
    <3>4. disp'.call \in 1..made' /\ calls'[disp'.call].run = disp'.run
      BY <1>2, <2>2, <2>3, <3>2
    <3> QED BY <3>3, <3>4 DEF CallInv
  <2> QED BY <2>5, <2>6, <2>7, <2>8, <2>9 DEF SchedInv
<1> QED BY <1>1, <1>2 DEF HandOff

(* Steps of hand-offs: the rows keep what they are named and ordered by,   *)
(* and only a run-now, which was never pending, changes status.            *)
SameRows ==
  \A r \in RunIds :
    /\ runs'[r].schedule = runs[r].schedule
    /\ runs'[r].due = runs[r].due
    /\ runs'[r].manual = runs[r].manual
    /\ r > minted => runs'[r] = runs[r] /\ turns'[r] = turns[r]
    /\ runs'[r].status # runs[r].status => runs[r].manual /\ runs'[r].status = "failed"

SameCalls ==
  /\ \A k \in CallIds :
       /\ calls'[k].run = calls[k].run
       /\ calls'[k].manual = calls[k].manual
       /\ k > made => calls'[k] = calls[k]
       /\ calls'[k].pc = "mark" => calls'[k].manual

LEMMA ServerMoveKeeps ==
  ASSUME SchedInv, TypeOK', SameRows, SameCalls,
         UNCHANGED <<now, sched, minted, made>>,
         disp' = disp \/ disp' = [IdleLoop EXCEPT !.pc = "down"]
  PROVE  SchedInv'
<1>0. [IdleLoop EXCEPT !.pc = "down"].pc = "down" /\ [IdleLoop EXCEPT !.pc = "down"].batch = {}
  BY DEF IdleLoop
<1>1. InPass' => InPass /\ disp' = disp
  BY <1>0 DEF InPass
<1>2. RowInv'
  BY <1>1 DEF SchedInv, RowInv, SameRows, InPass, Settled
<1>3. ASSUME NEW r, OfPass(r), disp' = disp
      PROVE  OfPass(r)'
  <2>1. r \in RunIds
    BY <1>3, ConstantsTyped DEF SchedInv, TypeOK, OfPass, RunIds
  <2>2. /\ runs'[r].due = runs[r].due /\ runs'[r].manual = runs[r].manual
        /\ runs'[r].status = runs[r].status
    BY <1>3, <2>1 DEF SameRows, OfPass
  <2> QED BY <1>3, <2>2 DEF OfPass
<1>4. LoopInv'
  BY <1>0, <1>3 DEF SchedInv, LoopInv, InPass, InHand
<1>5. \A s \in Schedules : Pending(s)' = Pending(s)
  BY DEF SchedInv, RowInv, Pending, RowsOf, SameRows
<1>6. PendInv'
  BY <1>5 DEF SchedInv, PendInv, Exists
<1>7. CallInv'
  <2>1. \A k \in CallIds : k <= made => calls[k].run \in RunIds
    BY DEF SchedInv, CallInv, TypeOK, RunIds
  <2>2. made \in 0..MaxCalls /\ MaxCalls \in Nat
    BY ConstantsTyped DEF SchedInv, TypeOK
  <2>3. ASSUME NEW k \in CallIds
        PROVE  /\ k > made' => calls'[k] = NoCall
               /\ k <= made' => /\ calls'[k].run \in 1..minted'
                                /\ calls'[k].manual = runs'[calls'[k].run].manual
               /\ calls'[k].pc = "mark" => calls'[k].manual
    BY <2>1 DEF SchedInv, CallInv, SameRows, SameCalls
  <2>4. disp'.pc = "waiting" => disp'.call \in 1..made' /\ calls'[disp'.call].run = disp'.run
    <3>1. disp'.pc = "waiting" => disp' = disp /\ disp.call \in CallIds
      <4>1. disp'.pc = "waiting" => disp' = disp
        BY <1>0
      <4>2. disp.pc = "waiting" => disp.call \in 1..made
        BY DEF SchedInv, CallInv
      <4>3. 1..made \subseteq CallIds
        BY <2>2 DEF CallIds
      <4> QED BY <4>1, <4>2, <4>3
    <3> QED BY <3>1 DEF SchedInv, CallInv, SameCalls
  <2> QED BY <2>3, <2>4 DEF CallInv
<1> QED BY <1>2, <1>4, <1>6, <1>7 DEF SchedInv

LEMMA KilledCalls ==
  ASSUME SchedInv
  PROVE  /\ Killed \in [CallIds -> CallRecords]
         /\ \A k \in CallIds :
              /\ Killed[k].run = calls[k].run /\ Killed[k].manual = calls[k].manual
              /\ Killed[k] = IF UnderWay(k) THEN [calls[k] EXCEPT !.pc = "dead"] ELSE calls[k]
              /\ Killed[k].pc = IF UnderWay(k) THEN "dead" ELSE calls[k].pc
              /\ k > made => Killed[k] = calls[k]
<1>1. calls \in [CallIds -> CallRecords]
  BY DispTyped DEF SchedInv
<1>2. \A k \in CallIds : k > made => ~UnderWay(k)
  BY DEF SchedInv, CallInv, NoCall, UnderWay
<1> QED BY <1>1, <1>2 DEF Killed, CallRecords, CallPCs, Answers

LEMMA CrashesKeep == SchedInv /\ (ControllerCrash \/ ServerCrash) => SchedInv'
<1> SUFFICES ASSUME SchedInv, ControllerCrash \/ ServerCrash PROVE SchedInv'
  OBVIOUS
<1>0. disp \in DispRecords /\ calls \in [CallIds -> CallRecords]
  BY DispTyped DEF SchedInv
<1>1. /\ UNCHANGED <<now, sched, writes, runs, minted, sessions, turns, made, stopping, stops>>
      /\ faults' \in Nat
      /\ calls' = Killed \/ calls' = calls
      /\ disp' = disp \/ disp' = [IdleLoop EXCEPT !.pc = "down"]
  BY DEF ControllerCrash, ServerCrash, Fault, apiVars, execVars, loopVars, SchedInv, TypeOK
<1>2. [IdleLoop EXCEPT !.pc = "down"] \in DispRecords
  BY ConstantsTyped DEF IdleLoop, DispRecords, LoopPCs
<1>3. TypeOK'
  BY <1>0, <1>1, <1>2, KilledCalls DEF SchedInv, TypeOK, DispRecords, CallRecords
<1>4. SameRows
  BY <1>1 DEF SameRows
<1>5. SameCalls
  <2>1. CASE calls' = calls
    BY <2>1 DEF SameCalls, SchedInv, CallInv
  <2>2. CASE calls' = Killed
    <3>1. \A k \in CallIds : calls[k].pc = "mark" => calls[k].manual
      BY DEF SchedInv, CallInv
    <3>2. \A k \in CallIds : calls'[k].pc = "mark" => calls'[k].manual
      BY <2>2, <3>1, KilledCalls
    <3> QED BY <2>2, <3>2, KilledCalls DEF SameCalls
  <2> QED BY <1>1, <2>1, <2>2
<1> QED BY <1>1, <1>3, <1>4, <1>5, ServerMoveKeeps

(* What a step of the server leaves alone, and the call it moves. *)
LEMMA CallMoves ==
  ASSUME SchedInv, NEW k \in CallIds, NEW at \in CallPCs \ (Answers \cup {"none"}),
         CallStep(k, at), NEW l \in CallPCs, Goto(k, l), l = "mark" => calls[k].manual
  PROVE  /\ k <= made /\ calls[k].run \in RunIds /\ calls[k].run \in 1..minted
         /\ calls' \in [CallIds -> CallRecords] /\ SameCalls
         /\ calls'[k].pc = l
         /\ \A j \in CallIds : j # k => calls'[j] = calls[j]
<1>0. calls \in [CallIds -> CallRecords]
  BY DispTyped DEF SchedInv
<1>1. calls[k].pc # "none"
  BY DEF CallStep, Answers
<1>2. k <= made
  BY <1>1 DEF SchedInv, CallInv, NoCall, CallIds, TypeOK
<1>3. calls[k].run \in 1..minted
  BY <1>2 DEF SchedInv, CallInv
<1>4. calls[k].run \in RunIds
  BY <1>3 DEF RunIds, SchedInv, TypeOK
<1>5. /\ calls' \in [CallIds -> CallRecords] /\ calls'[k].pc = l
      /\ calls'[k].run = calls[k].run /\ calls'[k].manual = calls[k].manual
      /\ \A j \in CallIds : j # k => calls'[j] = calls[j]
  BY <1>0 DEF Goto, CallRecords
<1>6. SameCalls
  BY <1>2, <1>5 DEF SameCalls, SchedInv, CallInv, CallIds, TypeOK
<1> QED BY <1>2, <1>3, <1>4, <1>5, <1>6

LEMMA ServeCallKeeps ==
  ASSUME SchedInv, NEW k \in CallIds, ServeCall(k)
  PROVE  SchedInv'
<1>1. PICK at \in {"load", "session", "link", "check", "start", "mark"}, l \in CallPCs :
        /\ CallStep(k, at) /\ Goto(k, l) /\ (l = "mark" => calls[k].manual)
        /\ UNCHANGED <<now, sched, writes, minted, made, disp, stopping, stops, faults>>
  <2>1. {"404", "500", "ok", "session", "link", "check", "start", "mark"} \subseteq CallPCs
    BY DEF CallPCs, Answers
  <2> QED BY <2>1 DEF ServeCall, LoadItem, OpenSession, LinkSession, CheckTurns, StartTurn,
             MarkFailed, CallStep, Fails, apiVars, loopVars
<1>2. at \in CallPCs \ (Answers \cup {"none"})
  BY DEF CallPCs, Answers
<1>3. /\ k <= made /\ calls[k].run \in RunIds /\ calls[k].run \in 1..minted
      /\ calls' \in [CallIds -> CallRecords] /\ SameCalls
  BY <1>1, <1>2, CallMoves
<1> DEFINE r0 == calls[k].run
<1>t. /\ runs \in [RunIds -> Rows] /\ turns \in [RunIds -> Nat] /\ sessions \subseteq RunIds
      /\ minted \in Nat
  BY DEF SchedInv, TypeOK
<1>4. /\ runs' \in [RunIds -> Rows] /\ turns' \in [RunIds -> Nat] /\ sessions' \subseteq RunIds
      /\ SameRows
  <2>1. CASE LoadItem(k) \/ CheckTurns(k)
    BY <1>t, <2>1 DEF LoadItem, CheckTurns, execVars, SameRows
  <2>2. CASE OpenSession(k)
    BY <1>t, <1>3, <2>2 DEF OpenSession, SameRows
  <2>3. CASE LinkSession(k)
    <3>1. PICK x \in BOOLEAN : runs' = [runs EXCEPT ![r0].session = x]
      <4>1. runs[r0] \in Rows
        BY <1>t, <1>3
      <4> QED BY <1>t, <1>3, <2>3, <4>1 DEF LinkSession, Rows
    <3>2. UNCHANGED <<turns, sessions>>
      BY <2>3 DEF LinkSession, execVars
    <3>3. runs' \in [RunIds -> Rows]
      BY <1>t, <1>3, <3>1 DEF Rows
    <3>4. SameRows
      BY <1>t, <1>3, <3>1, <3>2 DEF SameRows, Rows
    <3> QED BY <1>t, <3>2, <3>3, <3>4
  <2>4. CASE StartTurn(k)
    <3>1. UNCHANGED <<runs, sessions>> /\ (turns' = turns \/ turns' = [turns EXCEPT ![r0] = @ + 1])
      BY <2>4 DEF StartTurn
    <3>2. turns' \in [RunIds -> Nat]
      BY <1>t, <1>3, <3>1
    <3>3. \A r \in RunIds : r > minted => turns'[r] = turns[r]
      <4> TAKE r \in RunIds
      <4> HAVE r > minted
      <4>1. r # r0
        BY <1>t, <1>3 DEF RunIds
      <4> QED BY <1>t, <1>3, <3>1, <4>1
    <3>4. SameRows
      BY <3>1, <3>3 DEF SameRows
    <3> QED BY <1>t, <3>1, <3>2, <3>4
  <2>5. CASE MarkFailed(k)
    <3>1. runs' = [runs EXCEPT ![r0].status = IF @ = "absent" THEN @ ELSE "failed"]
          /\ UNCHANGED <<turns, sessions>>
      BY <2>5 DEF MarkFailed, execVars
    <3>2. runs[r0].manual
      BY <1>3, <2>5 DEF MarkFailed, CallStep, SchedInv, CallInv
    <3>3. runs' \in [RunIds -> Rows]
      BY <1>t, <1>3, <3>1 DEF Rows
    <3>4. SameRows
      BY <1>t, <1>3, <3>1, <3>2 DEF SameRows, Rows
    <3> QED BY <1>t, <3>1, <3>3, <3>4
  <2> QED BY <2>1, <2>2, <2>3, <2>4, <2>5 DEF ServeCall
<1>5. TypeOK'
  BY <1>1, <1>3, <1>4 DEF SchedInv, TypeOK, CallRecords
<1> QED BY <1>1, <1>3, <1>4, <1>5, ServerMoveKeeps
-----------------------------------------------------------------------------
(* Client writes: rows are deleted, and one may be added. *)
RowsWrite(rs, s, due, manual) ==
  \/ runs' = Without(rs) /\ minted' = minted
  \/ /\ minted < MaxRuns
     /\ runs' = CreateRun(Without(rs), s, due, manual)
     /\ minted' = minted + 1

KeptRows(rs) ==
  \A r \in 1..minted :
    /\ r \in RunIds /\ r \in 1..minted' /\ r # minted + 1
    /\ runs'[r].schedule = runs[r].schedule
    /\ runs'[r].due = runs[r].due
    /\ runs'[r].manual = runs[r].manual
    /\ runs'[r].status = IF r \in rs THEN "absent" ELSE runs[r].status

AddedRow(s, due, manual) ==
  minted' = minted + 1 =>
    /\ minted + 1 \in RunIds
    /\ runs'[minted + 1] =
         [schedule |-> s, due |-> due, manual |-> manual, session |-> FALSE,
          status |-> IF manual THEN "triggered" ELSE "scheduled"]

RowsBeyond ==
  \A r \in RunIds :
    /\ r > minted' => runs'[r] = NoRow /\ r > minted
    /\ r <= minted' => r \in 1..minted \/ (minted' = minted + 1 /\ r = minted + 1)

MintedStep ==
  /\ runs' \in [RunIds -> Rows] /\ minted' \in 0..MaxRuns
  /\ minted \in Nat /\ minted' \in Nat /\ (minted' = minted \/ minted' = minted + 1)

LEMMA WriteRows ==
  ASSUME SchedInv, NEW rs \in SUBSET (1..minted), NEW s \in Schedules, NEW due \in Nat,
         NEW manual \in BOOLEAN, RowsWrite(rs, s, due, manual)
  PROVE  MintedStep /\ KeptRows(rs) /\ AddedRow(s, due, manual) /\ RowsBeyond
<1>1. /\ minted \in 0..MaxRuns /\ MaxRuns \in Nat /\ runs \in [RunIds -> Rows] /\ minted \in Nat
      /\ minted + 1 # minted
  BY ConstantsTyped DEF SchedInv, TypeOK
<1>2. rs \in SUBSET RunIds /\ \A r \in 1..minted : r \in RunIds /\ r # minted + 1
  BY <1>1 DEF RunIds
<1>3. minted' = minted \/ minted' = minted + 1
  BY DEF RowsWrite
<1>4. /\ Without(rs) \in [RunIds -> Rows]
      /\ \A r \in RunIds :
           /\ Without(rs)[r] = IF r \in rs THEN [runs[r] EXCEPT !.status = "absent"]
                                           ELSE runs[r]
           /\ Without(rs)[r].schedule = runs[r].schedule
           /\ Without(rs)[r].due = runs[r].due
           /\ Without(rs)[r].manual = runs[r].manual
           /\ Without(rs)[r].status = IF r \in rs THEN "absent" ELSE runs[r].status
  BY <1>1, <1>2, WithoutRows
<1>5. \A r \in RunIds : r > minted => Without(rs)[r] = NoRow
  <2> TAKE r \in RunIds
  <2> HAVE r > minted
  <2>1. runs[r] = NoRow
    BY DEF SchedInv, RowInv
  <2>2. r \notin rs
    BY <1>1 DEF RunIds
  <2> QED BY <1>4, <2>1, <2>2
<1>6. \A r \in 1..minted :
        /\ Without(rs)[r].schedule = runs[r].schedule
        /\ Without(rs)[r].due = runs[r].due
        /\ Without(rs)[r].manual = runs[r].manual
        /\ Without(rs)[r].status = IF r \in rs THEN "absent" ELSE runs[r].status
  BY <1>2, <1>4
<1>7. \A r \in RunIds :
        /\ r > minted' => r > minted
        /\ r <= minted' => r \in 1..minted \/ (minted' = minted + 1 /\ r = minted + 1)
  BY <1>1, <1>3 DEF RunIds
<1>8. \A r \in 1..minted : r \in 1..minted'
  BY <1>1, <1>3
<1>9. CASE runs' = Without(rs) /\ minted' = minted
  BY <1>1, <1>2, <1>4, <1>5, <1>6, <1>7, <1>8, <1>9 DEF MintedStep, KeptRows, AddedRow, RowsBeyond
<1>10. CASE /\ minted < MaxRuns
            /\ runs' = CreateRun(Without(rs), s, due, manual)
            /\ minted' = minted + 1
  <2>1. /\ minted + 1 \in RunIds /\ minted + 1 \in 0..MaxRuns
        /\ runs' \in [RunIds -> Rows]
        /\ runs'[minted + 1] =
              [schedule |-> s, due |-> due, manual |-> manual, session |-> FALSE,
               status |-> IF manual THEN "triggered" ELSE "scheduled"]
        /\ \A r \in RunIds : r # minted + 1 => runs'[r] = Without(rs)[r]
    BY <1>1, <1>4, <1>10, NewRow
  <2>2. \A r \in RunIds : r > minted' => runs'[r] = NoRow
    <3> TAKE r \in RunIds
    <3> HAVE r > minted'
    <3>1. r # minted + 1 /\ r > minted
      BY <1>1, <1>10 DEF RunIds
    <3> QED BY <1>5, <2>1, <3>1
  <2>3. \A r \in 1..minted : runs'[r] = Without(rs)[r]
    BY <1>2, <2>1
  <2> QED BY <1>1, <1>2, <1>6, <1>7, <1>8, <1>10, <2>1, <2>2, <2>3
             DEF MintedStep, KeptRows, AddedRow, RowsBeyond
<1> QED BY <1>9, <1>10 DEF RowsWrite

LEMMA WriteKeepsLoop ==
  ASSUME SchedInv, NEW rs \in SUBSET (1..minted), NEW s \in Schedules, NEW due \in Nat,
         NEW manual \in BOOLEAN, RowsWrite(rs, s, due, manual),
         UNCHANGED <<now, disp, turns>>
  PROVE  RowInv' /\ LoopInv'
<1>w. MintedStep /\ KeptRows(rs) /\ AddedRow(s, due, manual) /\ RowsBeyond
  BY WriteRows
<1>1. RowInv'
  <2> SUFFICES ASSUME NEW r \in RunIds
               PROVE  /\ r > minted' => runs'[r] = NoRow /\ turns'[r] = 0
                      /\ r <= minted' => runs'[r].schedule \in Schedules
                      /\ runs'[r].manual => runs'[r].status # "scheduled"
                      /\ runs'[r].status \in Settled /\ ~runs'[r].manual =>
                           runs'[r].due <= now' /\ (InPass' => runs'[r].due <= disp'.clock)
    BY DEF RowInv, InPass
  <2>0. minted' \in Nat /\ minted \in Nat /\ r \in Nat
    <3>1. minted' \in 0..MaxRuns /\ minted \in Nat
      BY <1>w DEF MintedStep, KeptRows, AddedRow, RowsBeyond
    <3> QED BY <3>1, ConstantsTyped DEF RunIds
  <2>1. CASE r > minted'
    <3>1. runs'[r] = NoRow /\ r > minted
      BY <2>1, <1>w DEF MintedStep, KeptRows, AddedRow, RowsBeyond
    <3> QED BY <2>0, <2>1, <3>1 DEF SchedInv, RowInv, RunIds, NoRow, Settled
  <2>2. CASE r \in 1..minted
    <3>1. /\ runs'[r].schedule = runs[r].schedule
          /\ runs'[r].due = runs[r].due
          /\ runs'[r].manual = runs[r].manual
          /\ runs'[r].status = "absent" \/ runs'[r].status = runs[r].status
          /\ r \in 1..minted'
      BY <2>2, <1>w DEF MintedStep, KeptRows, AddedRow, RowsBeyond
    <3>2. r <= minted /\ ~(r > minted')
      BY <2>0, <2>2, <3>1
    <3> QED BY <3>1, <3>2 DEF SchedInv, RowInv, InPass, Settled
  <2>3. CASE minted' = minted + 1 /\ r = minted + 1
    <3>1. runs'[r] = [schedule |-> s, due |-> due, manual |-> manual, session |-> FALSE,
                      status |-> IF manual THEN "triggered" ELSE "scheduled"]
      BY <2>3, <1>w DEF MintedStep, KeptRows, AddedRow, RowsBeyond
    <3>2. ~(r > minted')
      BY <2>0, <2>3
    <3> QED BY <3>1, <3>2 DEF Settled
  <2>4. r <= minted' => r \in 1..minted \/ (minted' = minted + 1 /\ r = minted + 1)
    BY <1>w DEF MintedStep, KeptRows, AddedRow, RowsBeyond
  <2> QED BY <2>0, <2>1, <2>2, <2>3, <2>4
<1>2. ASSUME NEW r, OfPass(r) PROVE OfPass(r)'
  <2>1. r \in 1..minted
    BY <1>2 DEF OfPass
  <2>2. /\ runs'[r].due = runs[r].due /\ r \in 1..minted'
        /\ runs'[r].manual = runs[r].manual
        /\ runs'[r].status = "absent" \/ runs'[r].status = runs[r].status
    BY <2>1, <1>w DEF MintedStep, KeptRows, AddedRow, RowsBeyond
  <2> QED BY <1>2, <2>1, <2>2 DEF OfPass
<1>3. LoopInv'
  BY <1>2 DEF SchedInv, LoopInv, InPass, InHand
<1> QED BY <1>1, <1>3

(* Hand-offs and their runs stay as they are. *)
LEMMA WriteKeepsCalls ==
  ASSUME SchedInv, NEW rs \in SUBSET (1..minted), NEW s \in Schedules, NEW due \in Nat,
         NEW manual \in BOOLEAN, RowsWrite(rs, s, due, manual),
         UNCHANGED <<disp, calls, made>>
  PROVE  CallInv'
<1>w. MintedStep /\ KeptRows(rs) /\ AddedRow(s, due, manual) /\ RowsBeyond
  BY WriteRows
<1>1. ASSUME NEW k \in CallIds, k <= made
      PROVE  calls'[k].run \in 1..minted' /\ calls'[k].manual = runs'[calls'[k].run].manual
  <2>1. calls[k].run \in 1..minted /\ calls[k].manual = runs[calls[k].run].manual
    BY <1>1 DEF SchedInv, CallInv
  <2> QED BY <2>1, <1>w DEF MintedStep, KeptRows, AddedRow, RowsBeyond
<1> QED BY <1>1 DEF SchedInv, CallInv

(* Only rows that exist are deleted. *)
LEMMA LiveRows ==
  ASSUME SchedInv, NEW s
  PROVE  RowsOf(s) \subseteq 1..minted /\ Pending(s) \subseteq 1..minted
<1>1. \A r \in RunIds : runs[r].status # "absent" => r \in 1..minted
  <2> TAKE r \in RunIds
  <2>1. r \in Nat /\ r >= 1 /\ minted \in Nat
    BY DEF RunIds, SchedInv, TypeOK
  <2>2. r > minted => runs[r].status = "absent"
    BY DEF SchedInv, RowInv, NoRow
  <2> QED BY <2>1, <2>2
<1> QED BY <1>1 DEF RowsOf, Pending

(* The pending runs after a write: those not deleted, and the new one. *)
LEMMA WritePending ==
  ASSUME SchedInv, NEW rs \in SUBSET (1..minted), NEW s \in Schedules, NEW due \in Nat,
         NEW manual \in BOOLEAN, RowsWrite(rs, s, due, manual), NEW q \in Schedules
  PROVE  Pending(q)' = (Pending(q) \ rs) \cup
           (IF minted' = minted + 1 /\ q = s /\ ~manual THEN {minted + 1} ELSE {})
<1>w. MintedStep /\ KeptRows(rs) /\ AddedRow(s, due, manual) /\ RowsBeyond
  BY WriteRows
<1>1. ASSUME NEW r \in RunIds, r \in 1..minted
      PROVE  r \in Pending(q)' <=> r \in Pending(q) /\ r \notin rs
  <2>1. /\ runs'[r].schedule = runs[r].schedule
        /\ runs'[r].status = IF r \in rs THEN "absent" ELSE runs[r].status
    BY <1>1, <1>w DEF MintedStep, KeptRows, AddedRow, RowsBeyond
  <2> QED BY <2>1 DEF Pending, RowsOf
<1>2. ASSUME NEW r \in RunIds, r > minted'
      PROVE  r \notin Pending(q)' /\ r \notin Pending(q)
  <2>1. runs'[r] = NoRow /\ r > minted
    BY <1>2, <1>w DEF MintedStep, KeptRows, AddedRow, RowsBeyond
  <2>2. runs[r] = NoRow
    BY <2>1 DEF SchedInv, RowInv
  <2> QED BY <2>1, <2>2 DEF Pending, RowsOf, NoRow
<1>3. ASSUME minted' = minted + 1
      PROVE  /\ minted + 1 \in Pending(q)' <=> q = s /\ ~manual
             /\ minted + 1 \notin Pending(q)
             /\ minted + 1 \in RunIds
  <2>1. minted + 1 \in RunIds /\ minted \in Nat
        /\ runs'[minted + 1] =
             [schedule |-> s, due |-> due, manual |-> manual, session |-> FALSE,
              status |-> IF manual THEN "triggered" ELSE "scheduled"]
    BY <1>3, <1>w DEF MintedStep, KeptRows, AddedRow, RowsBeyond
  <2>2. runs[minted + 1] = NoRow
    BY <2>1 DEF SchedInv, RowInv
  <2>3. runs[minted + 1].status = "absent"
    BY <2>2 DEF NoRow
  <2> QED BY <2>1, <2>3 DEF Pending, RowsOf
<1>4. Pending(q) \subseteq RunIds /\ Pending(q)' \subseteq RunIds
  BY DEF Pending, RowsOf
<1>5. \A r \in RunIds : r > minted' \/ r \in 1..minted \/ (minted' = minted + 1 /\ r = minted + 1)
  <2>1. minted' \in 0..MaxRuns /\ minted \in Nat
    BY <1>w DEF MintedStep, KeptRows, AddedRow, RowsBeyond
  <2>2. \A r \in RunIds : r \in Nat
    BY DEF RunIds
  <2>3. \A r \in RunIds :
          r <= minted' => r \in 1..minted \/ (minted' = minted + 1 /\ r = minted + 1)
    BY <1>w DEF MintedStep, KeptRows, AddedRow, RowsBeyond
  <2> QED BY <2>1, <2>2, <2>3, ConstantsTyped
<1>6. minted + 1 \notin rs /\ ~(minted + 1 > minted + 1)
  BY DEF SchedInv, TypeOK
<1> QED BY <1>1, <1>2, <1>3, <1>4, <1>5, <1>6

LEMMA SyncKeeps ==
  ASSUME SchedInv, NEW s \in Schedules, NEW c \in Crons, NEW st \in {"active", "paused"},
         NEW from \in Nat, HasNext(c, from), Synced(s, c, st, from), NEW since \in Nat,
         sched' = [sched EXCEPT ![s] = [status |-> st, cron |-> c, since |-> since]],
         UNCHANGED <<now, disp, turns, sessions, calls, made, stopping, stops, faults>>,
         writes' \in Nat
  PROVE  SchedInv'
<1> DEFINE due == NextTriggerAfter(c, from)
<1>0. due \in Nat /\ Pending(s) \in SUBSET (1..minted)
  BY NextTriggerLater, LiveRows DEF SchedInv, TypeOK
<1>1. /\ RowsWrite(Pending(s), s, due, FALSE)
      /\ st = "active" <=> minted' = minted + 1
  <2>1. minted + 1 # minted
    BY DEF SchedInv, TypeOK
  <2> QED BY <2>1 DEF Synced, RowsWrite, DropPending
<1> HIDE DEF due
<1>2. RowInv' /\ LoopInv' /\ CallInv'
  BY <1>0, <1>1, WriteKeepsLoop, WriteKeepsCalls
<1>3. /\ sched' \in [Schedules -> [status : {"absent", "active", "paused", "deleted"},
                                   cron : Crons \cup {NoCron}, since : Nat]]
      /\ sched'[s].status = st /\ sched'[s].cron = c
      /\ \A q \in Schedules : q # s => sched'[q] = sched[q]
  BY DEF SchedInv, TypeOK
<1>4. TypeOK'
  <2>1. runs' \in [RunIds -> Rows] /\ minted' \in 0..MaxRuns
    <3>1. MintedStep
      BY <1>0, <1>1, WriteRows
    <3> QED BY <3>1 DEF MintedStep
  <2> QED BY <1>3, <2>1 DEF SchedInv, TypeOK
<1>5. \A q \in Schedules :
        Pending(q)' = (Pending(q) \ Pending(s)) \cup
           (IF minted' = minted + 1 /\ q = s THEN {minted + 1} ELSE {})
  <2> TAKE q \in Schedules
  <2>1. Pending(q)' = (Pending(q) \ Pending(s)) \cup
           (IF minted' = minted + 1 /\ q = s /\ ~FALSE THEN {minted + 1} ELSE {})
    BY <1>0, <1>1, WritePending
  <2> QED BY <2>1
<1>6. \A q \in Schedules : q # s => Pending(q)' = Pending(q)
  <2> TAKE q \in Schedules
  <2> HAVE q # s
  <2>1. Pending(q) \cap Pending(s) = {}
    BY DEF Pending, RowsOf
  <2> QED BY <1>5, <2>1
<1>7. Pending(s)' = IF st = "active" THEN {minted + 1} ELSE {}
  BY <1>1, <1>5
<1>8. PendInv'
  <2> SUFFICES ASSUME NEW q \in Schedules
               PROVE  /\ \A r, x \in Pending(q)' : r = x
                      /\ Pending(q)' # {} => sched'[q].status = "active"
                      /\ Exists(q)' => sched'[q].cron \in Crons
                      /\ sched'[q].status = "active" /\ HasNext(sched'[q].cron, now') =>
                           Pending(q)' # {}
    BY DEF PendInv, HasNext, Later
  <2>1. CASE q = s
    BY <1>3, <1>7, <2>1
  <2>2. CASE q # s
    BY <1>3, <1>6, <2>2 DEF SchedInv, PendInv, Exists
  <2> QED BY <2>1, <2>2
<1> QED BY <1>2, <1>4, <1>8 DEF SchedInv

LEMMA ApiKeeps ==
  ASSUME SchedInv, NEW s \in Schedules
  PROVE  /\ \A c \in Crons, st \in {"active", "paused"}, from \in 0..now :
              CreateSchedule(s, c, st, from) \/ PutSchedule(s, c, st, from) => SchedInv'
         /\ DeleteSchedule(s) => SchedInv'
<1>1. ASSUME NEW c \in Crons, NEW st \in {"active", "paused"}, NEW from \in 0..now,
             CreateSchedule(s, c, st, from) \/ PutSchedule(s, c, st, from)
      PROVE  SchedInv'
  <2>0. from \in Nat /\ now \in Nat
    BY DEF SchedInv, TypeOK
  <2>1. /\ HasNext(c, from) /\ writes' \in Nat
        /\ UNCHANGED <<now, disp, turns, sessions, calls, made, stopping, stops, faults>>
    BY <1>1 DEF CreateSchedule, PutSchedule, ClientWrite, loopVars, execVars, callVars,
       SchedInv, TypeOK
  <2>4. PICK since \in Nat :
          sched' = [sched EXCEPT ![s] = [status |-> st, cron |-> c, since |-> since]]
    <3>1. CASE CreateSchedule(s, c, st, from)
      BY <2>0, <3>1 DEF CreateSchedule
    <3>2. CASE PutSchedule(s, c, st, from)
      <4>1. sched[s].since \in Nat
        BY DEF SchedInv, TypeOK
      <4> QED BY <3>2, <4>1 DEF PutSchedule
    <3> QED BY <1>1, <3>1, <3>2
  <2>2. CASE SyncPendingRun(s, c, st, from)
    <3>1. Synced(s, c, st, from)
      BY <2>0, <2>1, <2>2, SyncEffect DEF SchedInv
    <3> QED BY <2>0, <2>1, <2>4, <3>1, SyncKeeps
  <2>3. CASE /\ PutSchedule(s, c, st, from)
             /\ ~ShouldSync(sched[s], [status |-> st, cron |-> c, since |-> sched[s].since])
             /\ UNCHANGED <<runs, minted>>
    <3>1. sched' = sched
      BY <2>3 DEF PutSchedule, ShouldSync, SchedInv, TypeOK
    <3>2. TypeOK' /\ RowInv'
      BY <2>1, <2>3, <3>1 DEF SchedInv, TypeOK, RowInv, InPass
    <3>3. LoopInv' /\ CallInv'
      BY <2>1, <2>3, <3>1 DEF SchedInv, LoopInv, CallInv, OfPass, InPass, InHand
    <3>4. PendInv'
      BY <2>1, <2>3, <3>1 DEF SchedInv, PendInv, Pending, RowsOf, Exists, HasNext, Later
    <3> QED BY <3>2, <3>3, <3>4 DEF SchedInv
  <2> QED BY <1>1, <2>2, <2>3 DEF CreateSchedule, PutSchedule
<1>2. ASSUME DeleteSchedule(s) PROVE SchedInv'
  <2>1. /\ writes' \in Nat
        /\ sched' = [sched EXCEPT ![s].status = "deleted", ![s].cron = NoCron]
        /\ runs' = Without(RowsOf(s)) /\ minted' = minted
        /\ UNCHANGED <<now, disp, turns, sessions, calls, made, stopping, stops, faults>>
    BY <1>2 DEF DeleteSchedule, ClientWrite, loopVars, execVars, callVars, SchedInv, TypeOK
  <2>2. RowsOf(s) \in SUBSET (1..minted) /\ RowsWrite(RowsOf(s), s, 0, FALSE)
    BY <2>1, LiveRows DEF RowsWrite
  <2>3. RowInv' /\ LoopInv' /\ CallInv'
    BY <2>1, <2>2, WriteKeepsLoop, WriteKeepsCalls
  <2>4. /\ sched' \in [Schedules -> [status : {"absent", "active", "paused", "deleted"},
                                     cron : Crons \cup {NoCron}, since : Nat]]
        /\ sched'[s].status = "deleted"
        /\ \A q \in Schedules : q # s => sched'[q] = sched[q]
    BY <2>1 DEF SchedInv, TypeOK
  <2>5. TypeOK'
    <3>1. runs' \in [RunIds -> Rows] /\ minted' \in 0..MaxRuns
      <4>1. MintedStep
        BY <2>2, WriteRows
      <4> QED BY <4>1 DEF MintedStep
    <3> QED BY <2>1, <2>4, <3>1 DEF SchedInv, TypeOK
  <2>6. \A q \in Schedules : Pending(q)' = Pending(q) \ RowsOf(s)
    <3> TAKE q \in Schedules
    <3>1. Pending(q)' = (Pending(q) \ RowsOf(s)) \cup
             (IF minted' = minted + 1 /\ q = s /\ ~FALSE THEN {minted + 1} ELSE {})
      BY <2>2, WritePending
    <3>2. minted' # minted + 1
      BY <2>1 DEF SchedInv, TypeOK
    <3> QED BY <3>1, <3>2
  <2>7. Pending(s)' = {} /\ \A q \in Schedules : q # s => Pending(q)' = Pending(q)
    BY <2>6 DEF Pending, RowsOf
  <2>8. PendInv'
    <3> SUFFICES ASSUME NEW q \in Schedules
                 PROVE  /\ \A r, x \in Pending(q)' : r = x
                        /\ Pending(q)' # {} => sched'[q].status = "active"
                        /\ Exists(q)' => sched'[q].cron \in Crons
                        /\ sched'[q].status = "active" /\ HasNext(sched'[q].cron, now') =>
                             Pending(q)' # {}
      BY DEF PendInv, HasNext, Later
    <3>1. CASE q = s
      BY <2>4, <2>7, <3>1 DEF Exists
    <3>2. CASE q # s
      BY <2>1, <2>4, <2>7, <3>2 DEF SchedInv, PendInv, Exists
    <3> QED BY <3>1, <3>2
  <2> QED BY <2>3, <2>5, <2>8 DEF SchedInv
<1> QED BY <1>1, <1>2

LEMMA RunNowKeeps ==
  ASSUME SchedInv, NEW s \in Schedules, RunNow(s)
  PROVE  SchedInv'
<1>1. /\ writes' \in Nat
      /\ minted < MaxRuns /\ minted' = minted + 1 /\ made < MaxCalls /\ made' = made + 1
      /\ runs' = CreateRun(runs, s, now, TRUE)
      /\ calls' = [calls EXCEPT ![made + 1] =
                     [pc |-> "session", run |-> minted + 1, manual |-> TRUE]]
      /\ UNCHANGED <<now, sched, disp, turns, sessions, stopping, stops, faults>>
  BY DEF RunNow, ClientWrite, loopVars, execVars, SchedInv, TypeOK
<1>2. calls \in [CallIds -> CallRecords] /\ made \in 0..MaxCalls /\ minted \in 0..MaxRuns
      /\ now \in Nat /\ runs \in [RunIds -> Rows]
  BY DispTyped DEF SchedInv, TypeOK
<1>3. Without({}) = runs
  BY <1>2 DEF Without
<1>4. RowsWrite({}, s, now, TRUE)
  BY <1>1, <1>3 DEF RowsWrite
<1>5. {} \in SUBSET (1..minted)
  OBVIOUS
<1>6. RowInv' /\ LoopInv'
  BY <1>1, <1>2, <1>4, <1>5, WriteKeepsLoop
<1>7. \A q \in Schedules : Pending(q)' = Pending(q)
  <2> TAKE q \in Schedules
  <2>1. Pending(q)' = (Pending(q) \ {}) \cup
           (IF minted' = minted + 1 /\ q = s /\ ~TRUE THEN {minted + 1} ELSE {})
    BY <1>2, <1>4, <1>5, WritePending
  <2> QED BY <2>1
<1>8. PendInv'
  BY <1>1, <1>7 DEF SchedInv, PendInv, Exists
<1>9. /\ runs' \in [RunIds -> Rows] /\ minted' \in 0..MaxRuns
      /\ \A r \in 1..minted : r \in 1..minted' /\ runs'[r].manual = runs[r].manual
      /\ runs'[minted + 1].manual = TRUE
  <2>1. MintedStep /\ KeptRows({}) /\ AddedRow(s, now, TRUE)
    BY <1>2, <1>4, <1>5, WriteRows
  <2>2. runs'[minted + 1].manual = TRUE
    <3>1. minted' = minted + 1
      BY <1>1
    <3>2. runs'[minted + 1] =
            [schedule |-> s, due |-> now, manual |-> TRUE, session |-> FALSE,
             status |-> IF TRUE THEN "triggered" ELSE "scheduled"]
      BY <2>1, <3>1, Zenon DEF AddedRow
    <3> QED BY <3>2
  <2> QED BY <2>1, <2>2 DEF MintedStep, KeptRows
<1>10. /\ made + 1 \in CallIds /\ made' \in 0..MaxCalls /\ minted + 1 \in 0..MaxRuns
       /\ minted + 1 \in 1..minted'
  BY <1>1, <1>2, ConstantsTyped DEF CallIds
<1>11. /\ calls' \in [CallIds -> CallRecords]
       /\ calls'[made + 1] = [pc |-> "session", run |-> minted + 1, manual |-> TRUE]
       /\ \A k \in CallIds : k # made + 1 => calls'[k] = calls[k]
  BY <1>1, <1>2, <1>10 DEF CallRecords, CallPCs
<1>12. TypeOK'
  BY <1>1, <1>9, <1>10, <1>11 DEF SchedInv, TypeOK, CallRecords
<1>13. CallInv'
  <2>1. ASSUME NEW k \in CallIds
        PROVE  /\ k > made' => calls'[k] = NoCall
               /\ k <= made' => /\ calls'[k].run \in 1..minted'
                                /\ calls'[k].manual = runs'[calls'[k].run].manual
               /\ calls'[k].pc = "mark" => calls'[k].manual
    <3>0. k \in Nat /\ made \in Nat
      BY <1>2 DEF CallIds
    <3>1. CASE k = made + 1
      <4>1. /\ calls'[k].run = minted + 1 /\ calls'[k].pc = "session"
            /\ calls'[k].manual = TRUE /\ ~(k > made')
        BY <1>1, <1>11, <3>0, <3>1
      <4> QED BY <1>9, <1>10, <4>1
    <3>2. CASE k # made + 1
      <4>1. calls'[k] = calls[k] /\ (k > made' => k > made) /\ (k <= made' => k <= made)
        BY <1>1, <1>11, <3>0, <3>2
      <4> QED BY <1>9, <4>1 DEF SchedInv, CallInv
    <3> QED BY <3>1, <3>2
  <2>2. disp'.pc = "waiting" => disp'.call \in 1..made' /\ calls'[disp'.call].run = disp'.run
    <3>1. disp.pc = "waiting" => disp.call \in 1..made /\ calls[disp.call].run = disp.run
      BY DEF SchedInv, CallInv
    <3>2. \A k \in 1..made : k \in CallIds /\ k # made + 1 /\ k \in 1..made'
      BY <1>1, <1>2, ConstantsTyped DEF CallIds
    <3> QED BY <1>1, <1>11, <3>1, <3>2
  <2> QED BY <2>1, <2>2 DEF CallInv
<1> QED BY <1>6, <1>8, <1>12, <1>13 DEF SchedInv

LEMMA TickKeeps == SchedInv /\ Tick => SchedInv'
<1> SUFFICES ASSUME SchedInv, Tick PROVE SchedInv'
  OBVIOUS
<1>1. /\ UNCHANGED <<sched, runs, minted, turns, sessions, disp, calls, made, stopping,
                     writes, stops, faults>>
      /\ now' \in Nat /\ now <= now' /\ now \in Nat
  BY DEF Tick, apiVars, execVars, loopVars, callVars, SchedInv, TypeOK
<1>2. TypeOK'
  BY <1>1 DEF SchedInv, TypeOK
<1>3. RowInv'
  <2>1. \A r \in RunIds : runs[r].due \in Nat
    BY DEF SchedInv, TypeOK, Rows
  <2> QED BY <1>1, <2>1 DEF SchedInv, RowInv, InPass
<1>4. LoopInv'
  <2>1. disp.clock \in Nat
    BY DEF SchedInv, TypeOK
  <2> QED BY <1>1, <2>1 DEF SchedInv, LoopInv, OfPass, InPass, InHand
<1>5. CallInv'
  BY <1>1 DEF SchedInv, CallInv
<1>6. PendInv'
  <2> SUFFICES ASSUME NEW q \in Schedules
               PROVE  /\ \A r, x \in Pending(q)' : r = x
                      /\ Pending(q)' # {} => sched'[q].status = "active"
                      /\ Exists(q)' => sched'[q].cron \in Crons
                      /\ sched'[q].status = "active" /\ HasNext(sched'[q].cron, now') =>
                           Pending(q)' # {}
    BY DEF PendInv, HasNext, Later
  <2>1. Pending(q)' = Pending(q) /\ sched' = sched
    BY <1>1 DEF Pending, RowsOf
  <2>2. sched[q].status = "active" => sched[q].cron \in Crons
    BY DEF SchedInv, PendInv, Exists
  <2>3. sched[q].status = "active" /\ HasNext(sched[q].cron, now') => HasNext(sched[q].cron, now)
    BY <1>1, <2>2, HasNextEarlier
  <2> QED BY <2>1, <2>3 DEF SchedInv, PendInv, Exists
<1> QED BY <1>2, <1>3, <1>4, <1>5, <1>6 DEF SchedInv
-----------------------------------------------------------------------------
(* finishScheduledRun: the run held is pending or gone, so recording it    *)
(* takes the schedule's pending run away, and the next one takes its       *)
(* place, later than the clock of the pass.                                *)
Held == runs[disp.run]

LEMMA HeldRun ==
  ASSUME SchedInv, disp.pc = "finishing"
  PROVE  /\ disp.run \in RunIds /\ disp.run \in 1..minted
         /\ Held \in Rows /\ Held.schedule \in Schedules
         /\ ~Held.manual /\ Held.due <= disp.clock /\ disp.clock <= now
         /\ Held.due \in Nat /\ disp.clock \in Nat /\ now \in Nat
         /\ Held.status \in {"scheduled", "absent"}
         /\ disp.outcome \in Settled /\ disp.run \notin disp.batch
         /\ AdvanceFrom = disp.clock
<1>1. OfPass(disp.run) /\ disp.run \notin disp.batch /\ disp.outcome \in Settled
      /\ disp.clock <= now
  BY DEF SchedInv, LoopInv, InHand, InPass
<1>2. disp.run \in 1..minted /\ disp.run \in RunIds
  BY <1>1 DEF OfPass, SchedInv, TypeOK, RunIds
<1>3. Held \in Rows /\ disp.clock \in Nat /\ now \in Nat
  BY <1>2 DEF SchedInv, TypeOK, Held
<1>4. Held.schedule \in Schedules
  BY <1>2 DEF SchedInv, RowInv, Held
<1>5. Held.due \in Nat /\ Held.due <= disp.clock
  BY <1>1, <1>3 DEF OfPass, Held, Rows
<1>6. AdvanceFrom = disp.clock
  BY <1>3, <1>5, MaxOfTwo DEF AdvanceFrom, Held
<1> QED BY <1>1, <1>2, <1>3, <1>4, <1>5, <1>6 DEF OfPass, Held

LEMMA RecordedRows ==
  ASSUME SchedInv, disp.pc = "finishing"
  PROVE  /\ Recorded \in [RunIds -> Rows]
         /\ \A r \in RunIds :
              /\ Recorded[r].schedule = runs[r].schedule
              /\ Recorded[r].due = runs[r].due
              /\ Recorded[r].manual = runs[r].manual
              /\ r # disp.run => Recorded[r] = runs[r]
         /\ Recorded[disp.run].status = disp.outcome
<1>1. runs \in [RunIds -> Rows]
  BY DEF SchedInv, TypeOK
<1>2. disp.run \in RunIds /\ disp.outcome \in Settled
  BY HeldRun
<1> QED BY <1>1, <1>2 DEF Recorded, Rows, Settled

(* The row recorded, and the row the transaction adds *)
Finished ==
  /\ Held.status = "scheduled"
  /\ \/ runs' = Recorded /\ minted' = minted /\ ~Advances
     \/ /\ Advances /\ minted < MaxRuns /\ minted' = minted + 1
        /\ runs' = CreateRun(Recorded, Held.schedule, NextDue, FALSE)

FinishedRows ==
  /\ runs' \in [RunIds -> Rows] /\ minted' \in 0..MaxRuns
  /\ minted' = IF Advances THEN minted + 1 ELSE minted
  /\ \A r \in 1..minted :
       /\ r \in RunIds /\ r # minted + 1 /\ r \in 1..minted'
       /\ runs'[r].schedule = runs[r].schedule
       /\ runs'[r].due = runs[r].due
       /\ runs'[r].manual = runs[r].manual
       /\ r # disp.run => runs'[r] = runs[r]
  /\ runs'[disp.run].status = disp.outcome
  /\ Advances =>
       /\ minted + 1 \in RunIds
       /\ NextDue \in Nat /\ NextDue > disp.clock
       /\ runs'[minted + 1] =
            [schedule |-> Held.schedule, due |-> NextDue, manual |-> FALSE,
             session |-> FALSE, status |-> "scheduled"]
  /\ \A r \in RunIds : r \in 1..minted \/ (Advances /\ r = minted + 1)
                         \/ (r > minted' /\ r > minted /\ runs'[r] = NoRow)

LEMMA FinishEffect ==
  ASSUME SchedInv, disp.pc = "finishing", Finished
  PROVE  FinishedRows
<1>1. /\ minted \in 0..MaxRuns /\ MaxRuns \in Nat /\ minted \in Nat
  BY ConstantsTyped DEF SchedInv, TypeOK
<1>2. disp.run \in 1..minted /\ \A r \in 1..minted : r \in RunIds /\ r # minted + 1
  BY <1>1, HeldRun DEF RunIds
<1>3. \A r \in RunIds : r \in 1..minted \/ r > minted
  BY <1>1 DEF RunIds
<1>4. \A r \in RunIds : r > minted => Recorded[r] = NoRow
  <2> TAKE r \in RunIds
  <2> HAVE r > minted
  <2>1. r # disp.run
    BY <1>1, <1>2 DEF RunIds
  <2>2. Recorded[r] = runs[r]
    BY <2>1, RecordedRows
  <2> QED BY <2>2 DEF SchedInv, RowInv
<1>5. CASE runs' = Recorded /\ minted' = minted /\ ~Advances
  BY <1>1, <1>2, <1>3, <1>4, <1>5, RecordedRows DEF FinishedRows
<1>6. CASE /\ Advances /\ minted < MaxRuns /\ minted' = minted + 1
           /\ runs' = CreateRun(Recorded, Held.schedule, NextDue, FALSE)
  <2>1. /\ Held.schedule \in Schedules /\ sched[Held.schedule].status = "active"
        /\ HasNext(sched[Held.schedule].cron, disp.clock)
        /\ NextDue = NextTriggerAfter(sched[Held.schedule].cron, disp.clock)
    BY <1>6, HeldRun DEF Advances, NextDue, Held
  <2>2. sched[Held.schedule].cron \in Crons /\ disp.clock \in Nat
    BY <2>1, HeldRun DEF SchedInv, PendInv, Exists
  <2>3. NextDue \in Nat /\ NextDue > disp.clock
    BY <2>1, <2>2, NextTriggerLater
  <2>4. Recorded \in [RunIds -> Rows]
    BY RecordedRows
  <2>5. /\ minted + 1 \in RunIds /\ minted + 1 \in 0..MaxRuns
        /\ runs' \in [RunIds -> Rows]
        /\ runs'[minted + 1] =
              [schedule |-> Held.schedule, due |-> NextDue, manual |-> FALSE, session |-> FALSE,
               status |-> IF FALSE THEN "triggered" ELSE "scheduled"]
        /\ \A r \in RunIds : r # minted + 1 => runs'[r] = Recorded[r]
    BY <1>1, <1>6, <2>1, <2>3, <2>4, NewRow
  <2>6. runs'[minted + 1] =
          [schedule |-> Held.schedule, due |-> NextDue, manual |-> FALSE,
           session |-> FALSE, status |-> "scheduled"]
    BY <2>5
  <2>7. \A r \in RunIds : r > minted /\ r # minted + 1 => r > minted' /\ runs'[r] = NoRow
    <3>1. \A r \in RunIds : r > minted /\ r # minted + 1 => r > minted + 1
      BY <1>1 DEF RunIds
    <3>2. \A r \in RunIds : r > minted /\ r # minted + 1 => runs'[r] = NoRow
      BY <1>4, <2>5
    <3> QED BY <1>6, <3>1, <3>2
  <2>8. \A r \in 1..minted : r \in 1..minted' /\ runs'[r] = Recorded[r]
    <3>1. \A r \in 1..minted : r \in 1..(minted + 1)
      BY <1>1
    <3>2. \A r \in 1..minted : runs'[r] = Recorded[r]
      BY <1>2, <2>5
    <3> QED BY <1>6, <3>1, <3>2
  <2> QED BY <1>2, <1>3, <1>6, <2>3, <2>5, <2>6, <2>7, <2>8, RecordedRows DEF FinishedRows
<1> QED BY <1>5, <1>6 DEF Finished

LEMMA FinishKeeps == SchedInv /\ FinishScheduledRun => SchedInv'
<1> SUFFICES ASSUME SchedInv, FinishScheduledRun PROVE SchedInv'
  OBVIOUS
<1>0. disp \in DispRecords /\ calls \in [CallIds -> CallRecords]
  BY DispTyped DEF SchedInv
<1>1. /\ disp.pc = "finishing" /\ disp' = [disp EXCEPT !.pc = "pass"]
      /\ UNCHANGED <<now, sched, writes, turns, sessions, calls, made, stopping, stops, faults>>
  BY DEF FinishScheduledRun, apiVars, execVars, callVars
<1>2. /\ disp' \in DispRecords /\ disp'.pc = "pass" /\ disp'.clock = disp.clock
      /\ disp'.batch = disp.batch /\ disp'.run = disp.run
  BY <1>0, <1>1 DEF DispRecords, LoopPCs
<1>3. CASE UNCHANGED <<runs, minted>>
  <2>1. LoopMove(disp')
    BY <1>1, <1>3 DEF LoopMove, SchedInv, TypeOK
  <2> QED BY <1>1, <1>2, <2>1, PassMoveKeeps DEF InPass, InHand
<1>4. CASE Finished
  <2>1. FinishedRows
    BY <1>1, <1>4, FinishEffect
  <2>2. TypeOK'
    BY <1>1, <1>2, <2>1 DEF SchedInv, TypeOK, DispRecords, FinishedRows
  <2>3. RowInv'
    <3> SUFFICES ASSUME NEW r \in RunIds
                 PROVE  /\ r > minted' => runs'[r] = NoRow /\ turns'[r] = 0
                        /\ r <= minted' => runs'[r].schedule \in Schedules
                        /\ runs'[r].manual => runs'[r].status # "scheduled"
                        /\ runs'[r].status \in Settled /\ ~runs'[r].manual =>
                             runs'[r].due <= now' /\ (InPass' => runs'[r].due <= disp'.clock)
      BY DEF RowInv, InPass
    <3>0. minted \in Nat /\ minted' \in Nat /\ r \in Nat
      BY <2>2, ConstantsTyped DEF SchedInv, TypeOK, RunIds
    <3>1. CASE r \in 1..minted
      <4>1. /\ r \in 1..minted' /\ r <= minted
            /\ runs'[r].schedule = runs[r].schedule
            /\ runs'[r].due = runs[r].due
            /\ runs'[r].manual = runs[r].manual
            /\ r # disp.run => runs'[r] = runs[r]
        BY <3>0, <3>1, <2>1 DEF FinishedRows
      <4>2. ~(r > minted')
        BY <3>0, <4>1
      <4>3. r <= minted => runs[r].schedule \in Schedules
        BY DEF SchedInv, RowInv
      <4>4. CASE r # disp.run
        BY <1>1, <1>2, <4>1, <4>2, <4>3, <4>4 DEF SchedInv, RowInv, InPass
      <4>5. CASE r = disp.run
        <5>1. /\ ~runs[r].manual /\ runs[r].due <= disp.clock /\ runs[r].due <= now
              /\ runs'[r].status = disp.outcome /\ disp.outcome \in Settled
          BY <1>1, <2>1, <4>5, HeldRun DEF FinishedRows, Held
        <5> QED BY <1>1, <1>2, <4>1, <4>2, <4>3, <5>1 DEF Settled
      <4> QED BY <4>4, <4>5
    <3>2. CASE Advances /\ r = minted + 1
      <4>1. /\ runs'[r].schedule = Held.schedule /\ runs'[r].manual = FALSE
            /\ runs'[r].status = "scheduled" /\ ~(r > minted')
        BY <2>1, <3>0, <3>2 DEF FinishedRows
      <4> QED BY <1>1, <4>1, HeldRun DEF Settled
    <3>3. CASE r > minted' /\ r > minted /\ runs'[r] = NoRow
      BY <1>1, <3>0, <3>3 DEF SchedInv, RowInv, NoRow, Settled
    <3> QED BY <2>1, <3>1, <3>2, <3>3 DEF FinishedRows
  <2>4. LoopInv'
    <3>1. ASSUME NEW r \in disp.batch PROVE OfPass(r)'
      <4>1. OfPass(r) /\ r # disp.run
        BY <1>1, <3>1, HeldRun DEF SchedInv, LoopInv
      <4>2. r \in 1..minted' /\ runs'[r] = runs[r]
        BY <2>1, <4>1 DEF OfPass, FinishedRows
      <4> QED BY <1>2, <4>1, <4>2 DEF OfPass
    <3> QED BY <1>1, <1>2, <3>1, HeldRun DEF LoopInv, InPass, InHand
  <2>5. CallInv'
    <3>1. ASSUME NEW k \in CallIds, k <= made
          PROVE  calls'[k].run \in 1..minted' /\ calls'[k].manual = runs'[calls'[k].run].manual
      <4>1. calls[k].run \in 1..minted /\ calls[k].manual = runs[calls[k].run].manual
        BY <3>1 DEF SchedInv, CallInv
      <4> QED BY <1>1, <2>1, <4>1 DEF FinishedRows
    <3> QED BY <1>1, <1>2, <3>1 DEF SchedInv, CallInv
  <2>6. disp.run \in Pending(Held.schedule)
    BY <1>1, <1>4, HeldRun DEF Finished, Pending, RowsOf, Held
  <2>7. /\ \A q \in Schedules : q = Held.schedule =>
             Pending(q)' = IF Advances THEN {minted + 1} ELSE {}
        /\ \A q \in Schedules : q # Held.schedule => Pending(q)' = Pending(q)
    <3>1. ASSUME NEW q \in Schedules, NEW r \in 1..minted
          PROVE  r \in Pending(q)' <=> r \in Pending(q) /\ r # disp.run
      <4>1. r \in RunIds /\ (r # disp.run => runs'[r] = runs[r])
        BY <2>1 DEF FinishedRows
      <4>2. r = disp.run => runs'[r].status # "scheduled"
        BY <1>1, <2>1, HeldRun DEF FinishedRows, Settled
      <4> QED BY <4>1, <4>2 DEF Pending, RowsOf
    <3>2. ASSUME NEW q \in Schedules, NEW r \in RunIds, r > minted' /\ r > minted /\ runs'[r] = NoRow
          PROVE  r \notin Pending(q)' /\ r \notin Pending(q)
      <4>1. runs[r] = NoRow
        BY <3>2 DEF SchedInv, RowInv
      <4> QED BY <3>2, <4>1 DEF Pending, RowsOf, NoRow
    <3>3. ASSUME Advances, NEW q \in Schedules
          PROVE  /\ minted + 1 \in Pending(q)' <=> q = Held.schedule
                 /\ minted + 1 \notin Pending(q)
      <4>1. minted + 1 \in RunIds /\ minted \in Nat
            /\ runs'[minted + 1].schedule = Held.schedule
            /\ runs'[minted + 1].status = "scheduled"
        BY <2>1, <3>3 DEF FinishedRows, SchedInv, TypeOK
      <4>2. runs[minted + 1] = NoRow
        BY <4>1 DEF SchedInv, RowInv
      <4> QED BY <4>1, <4>2 DEF Pending, RowsOf, NoRow
    <3>4. \A q : Pending(q) \subseteq RunIds /\ Pending(q)' \subseteq RunIds
      BY DEF Pending, RowsOf
    <3>5. \A r \in RunIds : r \in 1..minted \/ (Advances /\ r = minted + 1)
                              \/ (r > minted' /\ r > minted /\ runs'[r] = NoRow)
      BY <2>1 DEF FinishedRows
    <3>6. \A r \in 1..minted : r \in Pending(Held.schedule) => r = disp.run
      BY <1>1, <2>6, HeldRun DEF SchedInv, PendInv
    <3>7. \A q \in Schedules : q # Held.schedule => disp.run \notin Pending(q)
      BY DEF Pending, RowsOf, Held
    <3>8. minted + 1 \notin 1..minted
      BY DEF SchedInv, TypeOK
    <3>9. ASSUME NEW q \in Schedules, q = Held.schedule
          PROVE  Pending(q)' = IF Advances THEN {minted + 1} ELSE {}
      <4>1. ASSUME NEW r \in Pending(q)' PROVE Advances /\ r = minted + 1
        BY <3>1, <3>2, <3>4, <3>5, <3>6, <3>9
      <4> QED BY <3>3, <3>9, <4>1
    <3>10. ASSUME NEW q \in Schedules, q # Held.schedule PROVE Pending(q)' = Pending(q)
      <4>1. ASSUME NEW r \in RunIds PROVE r \in Pending(q)' <=> r \in Pending(q)
        BY <3>1, <3>2, <3>3, <3>5, <3>7, <3>10
      <4> QED BY <3>4, <4>1
    <3> QED BY <3>9, <3>10
  <2>8. PendInv'
    <3> SUFFICES ASSUME NEW q \in Schedules
                 PROVE  /\ \A r, x \in Pending(q)' : r = x
                        /\ Pending(q)' # {} => sched'[q].status = "active"
                        /\ Exists(q)' => sched'[q].cron \in Crons
                        /\ sched'[q].status = "active" /\ HasNext(sched'[q].cron, now') =>
                             Pending(q)' # {}
      BY DEF PendInv, HasNext, Later
    <3>1. CASE q = Held.schedule
      <4>1. sched[q].status = "active" => sched[q].cron \in Crons
        BY DEF SchedInv, PendInv, Exists
      <4>2. sched[q].status = "active" /\ HasNext(sched[q].cron, now) => Advances
        <5>1. ASSUME sched[q].status = "active", HasNext(sched[q].cron, now)
              PROVE  HasNext(sched[q].cron, disp.clock)
          BY <1>1, <4>1, <5>1, HeldRun, HasNextEarlier
        <5> QED BY <1>1, <3>1, <5>1, HeldRun DEF Advances, Held
      <4>3. sched[q].status = "active"
        BY <2>6, <3>1 DEF SchedInv, PendInv
      <4> QED BY <1>1, <2>7, <3>1, <4>1, <4>2, <4>3
    <3>2. CASE q # Held.schedule
      BY <1>1, <2>7, <3>2 DEF SchedInv, PendInv, Exists
    <3> QED BY <3>1, <3>2
  <2> QED BY <2>2, <2>3, <2>4, <2>5, <2>8 DEF SchedInv
<1> QED BY <1>1, <1>3, <1>4, HeldRun DEF FinishScheduledRun, Finished, Held
-----------------------------------------------------------------------------
LEMMA SchedStep == SchedInv /\ [Next]_vars => SchedInv'
<1> SUFFICES ASSUME SchedInv, [Next]_vars PROVE SchedInv'
  OBVIOUS
<1>1. CASE Tick
  BY <1>1, TickKeeps
<1>2. CASE Dispatch \/ Stop \/ HandOffTimesOut \/ FinishFails
  BY <1>2, StartPassKeeps, HandOffKeeps, FinishKeeps, PassStepsKeep DEF Dispatch
<1>3. CASE \E s \in Schedules :
             \/ \E c \in Crons, status \in {"active", "paused"}, from \in 0..now :
                  \/ CreateSchedule(s, c, status, from)
                  \/ PutSchedule(s, c, status, from)
             \/ DeleteSchedule(s) \/ RunNow(s)
  BY <1>3, ApiKeeps, RunNowKeeps
<1>4. CASE \E k \in CallIds : ServeCall(k)
  BY <1>4, ServeCallKeeps
<1>5. CASE ControllerCrash \/ ServerCrash
  BY <1>5, CrashesKeep
<1>6. CASE UNCHANGED vars
  <2>1. TypeOK' /\ RowInv' /\ LoopInv' /\ CallInv'
    BY <1>6 DEF vars, SchedInv, TypeOK, RowInv, LoopInv, CallInv, OfPass, InPass, InHand
  <2>2. PendInv'
    BY <1>6 DEF vars, SchedInv, PendInv, Pending, RowsOf, Exists, HasNext, Later
  <2> QED BY <2>1, <2>2 DEF SchedInv
<1> QED BY <1>1, <1>2, <1>3, <1>4, <1>5, <1>6 DEF Next

(* Rows, dispatch pass, pending runs and hand-offs agree in every state,   *)
(* for any schedules, crons, bounds and deployment: in particular the type *)
(* invariant.                                                              *)
THEOREM SchedulesAgree == Spec => []SchedInv
<1>1. Init => SchedInv
  BY SchedInit
<1>2. SchedInv /\ [Next]_vars => SchedInv'
  BY SchedStep
<1> QED BY <1>1, <1>2, PTL DEF Spec

(* Rows, pass and hand-offs stay typed, with every crash, time-out and      *)
(* client write of the model.                                              *)
THEOREM TypeCorrect == Spec => []TypeOK
<1>1. SchedInv => TypeOK
  BY DEF SchedInv
<1> QED BY <1>1, SchedulesAgree, PTL

(* An active schedule has its one pending run while its cron has a later   *)
(* trigger, any other schedule none: syncPendingRun and finishScheduledRun *)
(* neither lose nor double it, however they interleave with a pass that    *)
(* read the rows before.                                                   *)
THEOREM PendingRunMatches == Spec => []PendingMatchesStatus
<1>1. SchedInv => PendingMatchesStatus
  <2> SUFFICES ASSUME SchedInv, NEW s \in Schedules
               PROVE  IF sched[s].status = "active"
                      THEN /\ Cardinality(Pending(s)) <= 1
                           /\ HasNext(sched[s].cron, now) => Pending(s) # {}
                      ELSE Pending(s) = {}
    BY DEF PendingMatchesStatus
  <2>1. Cardinality(Pending(s)) <= 1
    <3>1. CASE Pending(s) = {}
      BY <3>1, FS_EmptySet
    <3>2. CASE Pending(s) # {}
      <4>0. PICK r : r \in Pending(s)
        BY <3>2
      <4>1. Pending(s) = {r}
        BY <4>0 DEF SchedInv, PendInv
      <4>2. Cardinality({r}) = 1
        BY FS_Singleton
      <4> QED BY <4>1, <4>2
    <3> QED BY <3>1, <3>2
  <2> QED BY <2>1 DEF SchedInv, PendInv
<1> QED BY <1>1, SchedulesAgree, PTL

(* No index rejects the next run added by finishScheduledRun, so the       *)
(* outcome of a hand-off is never rolled back with it.  The fresh run of a *)
(* client's write is rejected only when the trigger computed from the      *)
(* clock it read before it waited for the row has passed meanwhile; then   *)
(* the retry, which reads the clock again, is accepted.                    *)
THEOREM RejectedWritesRetry == Spec => []OnlyStaleWritesRejected
<1>1. ASSUME SchedInv, NEW rows \in [RunIds -> Rows], NEW s, NEW due \in Nat, NEW from \in Nat,
             due > from,
             \A r \in RunIds :
               /\ rows[r].schedule = s /\ rows[r].status # "absent" /\ ~rows[r].manual =>
                    rows[r].status # "scheduled" /\ rows[r].due <= from
      PROVE  ~Rejected(rows, s, due)
  <2>1. \A r \in RunIds : rows[r].due \in Nat
    BY DEF Rows
  <2> QED BY <1>1, <2>1 DEF Rejected
<1>2. ASSUME SchedInv, disp.pc = "finishing", runs[disp.run].status # "absent", Advances
      PROVE  ~Rejected(Recorded, runs[disp.run].schedule, NextDue)
  <2> DEFINE s == Held.schedule
  <2>1. /\ s \in Schedules /\ disp.clock \in Nat /\ Held.status = "scheduled"
        /\ NextDue = NextTriggerAfter(sched[s].cron, disp.clock)
        /\ sched[s].status = "active" /\ HasNext(sched[s].cron, disp.clock)
    BY <1>2, HeldRun DEF Advances, NextDue, Held
  <2>2. NextDue \in Nat /\ NextDue > disp.clock
    BY <1>2, <2>1, NextTriggerLater DEF SchedInv, PendInv, Exists
  <2>3. ASSUME NEW r \in RunIds, Recorded[r].schedule = s, Recorded[r].status # "absent",
               ~Recorded[r].manual
        PROVE  Recorded[r].status # "scheduled" /\ Recorded[r].due <= disp.clock
    <3>1. /\ runs[r].schedule = s /\ ~runs[r].manual /\ Recorded[r].due = runs[r].due
          /\ r # disp.run => Recorded[r] = runs[r]
          /\ Recorded[disp.run].status = disp.outcome
      BY <1>2, <2>3, RecordedRows
    <3>2. CASE r = disp.run
      BY <1>2, <3>1, <3>2, HeldRun DEF Settled, Held
    <3>3. CASE r # disp.run
      <4>1. disp.run \in Pending(s)
        BY <1>2, <2>1, HeldRun DEF Pending, RowsOf, Held
      <4>2. runs[r].status # "scheduled"
        BY <1>2, <2>1, <3>1, <3>3, <4>1 DEF SchedInv, PendInv, Pending, RowsOf
      <4>3. runs[r] \in Rows /\ runs[r].status \in Settled
        BY <1>2, <2>3, <3>1, <3>3, <4>2 DEF SchedInv, TypeOK, Rows, Settled
      <4> QED BY <1>2, <3>1, <3>3, <4>2, <4>3 DEF SchedInv, RowInv, InPass
    <3> QED BY <3>2, <3>3
  <2>4. Recorded \in [RunIds -> Rows]
    BY <1>2, RecordedRows
  <2> HIDE DEF s
  <2>5. ~Rejected(Recorded, s, NextDue)
    BY <1>1, <1>2, <2>1, <2>2, <2>3, <2>4
  <2> QED BY <2>5 DEF s, Held
<1>3. ASSUME SchedInv, NEW s \in Schedules, NEW c \in Crons, NEW from \in 0..now,
             HasNext(c, from), Rejected(DropPending(s), s, NextTriggerAfter(c, from))
      PROVE  NextTriggerAfter(c, from) <= now
  <2>1. NextTriggerAfter(c, from) \in Nat /\ now \in Nat
    BY <1>3, NextTriggerLater DEF SchedInv, TypeOK
  <2>2. Pending(s) \in SUBSET RunIds /\ runs \in [RunIds -> Rows]
    BY <1>3 DEF Pending, RowsOf, SchedInv, TypeOK
  <2>3. /\ DropPending(s) \in [RunIds -> Rows]
        /\ \A r \in RunIds :
              /\ DropPending(s)[r].schedule = runs[r].schedule
              /\ DropPending(s)[r].due = runs[r].due
              /\ DropPending(s)[r].manual = runs[r].manual
              /\ DropPending(s)[r].status = IF r \in Pending(s) THEN "absent" ELSE runs[r].status
    <3> DEFINE rs == Pending(s)
    <3>1. rs \in SUBSET RunIds
      BY <2>2
    <3> HIDE DEF rs
    <3>2. /\ Without(rs) \in [RunIds -> Rows]
          /\ \A r \in RunIds :
               /\ Without(rs)[r].schedule = runs[r].schedule
               /\ Without(rs)[r].due = runs[r].due
               /\ Without(rs)[r].manual = runs[r].manual
               /\ Without(rs)[r].status = IF r \in rs THEN "absent" ELSE runs[r].status
      BY <2>2, <3>1 DEF Without, Rows
    <3> QED BY <3>2 DEF DropPending, rs
  <2>4. ASSUME NEW r \in RunIds, DropPending(s)[r].schedule = s,
               DropPending(s)[r].status # "absent", ~DropPending(s)[r].manual
        PROVE  DropPending(s)[r].status # "scheduled" /\ DropPending(s)[r].due <= now
    <3>1. /\ r \notin Pending(s) /\ runs[r].schedule = s /\ runs[r].status # "absent"
          /\ ~runs[r].manual /\ DropPending(s)[r].status = runs[r].status
          /\ DropPending(s)[r].due = runs[r].due
      BY <2>3, <2>4
    <3>2. runs[r].status # "scheduled"
      BY <3>1 DEF Pending, RowsOf
    <3>3. runs[r].status \in Settled
      BY <2>2, <3>1, <3>2 DEF Rows, Settled
    <3> QED BY <1>3, <3>1, <3>2, <3>3 DEF SchedInv, RowInv
  <2>5. NextTriggerAfter(c, from) > now =>
          ~Rejected(DropPending(s), s, NextTriggerAfter(c, from))
    BY <1>1, <1>3, <2>1, <2>3, <2>4
  <2> QED BY <1>3, <2>1, <2>5
<1>4. SchedInv => OnlyStaleWritesRejected
  BY <1>2, <1>3 DEF OnlyStaleWritesRejected
<1> QED BY <1>4, SchedulesAgree, PTL
-----------------------------------------------------------------------------
(* One turn per run: steps that leave the hand-offs and the turns alone *)
LEMMA UnderWayCall ==
  ASSUME SchedInv, NEW k \in CallIds, UnderWay(k)
  PROVE  /\ k <= made /\ calls[k].run \in 1..minted /\ calls[k].run \in RunIds
         /\ calls[k].manual = runs[calls[k].run].manual
<1>1. k <= made
  BY DEF SchedInv, CallInv, NoCall, UnderWay, CallIds, TypeOK
<1>2. calls[k].run \in 1..minted /\ calls[k].manual = runs[calls[k].run].manual
  BY <1>1 DEF SchedInv, CallInv
<1>3. calls[k].run \in RunIds
  BY <1>2 DEF SchedInv, TypeOK, RunIds
<1> QED BY <1>1, <1>2, <1>3

LEMMA SoloBack ==
  ASSUME SchedInv, SchedInv', faults' = faults \/ faults' = faults + 1, Solo'
  PROVE  /\ Solo /\ (faults' = faults + 1 => faults = 0 /\ faults' = 1 /\ Standalone)
  BY DEF Solo, SchedInv, TypeOK

LEMMA OrphanStep ==
  ASSUME SchedInv, OnceInv, UNCHANGED <<calls, turns>>, Solo' => Solo,
         Solo' => \A k \in CallIds : Orphan(k)' => OrphanInv(k)'
  PROVE  OnceInv'
  BY DEF OnceInv, OneCall, Orphans, FreshStart, StartedOnce, UnderWay

LEMMA OnceApi ==
  ASSUME SchedInv, OnceInv, UNCHANGED <<calls, turns, disp, faults>>,
         \A r \in 1..minted : runs'[r].status = "scheduled" => runs[r].status = "scheduled"
  PROVE  OnceInv'
<1>1. Solo' => Solo
  BY DEF Solo
<1>2. ASSUME Solo', NEW k \in CallIds, Orphan(k)' PROVE OrphanInv(k)'
  <2>1. Orphan(k) /\ UnderWay(k)
    BY <1>2 DEF Orphan, UnderWay
  <2>2. OrphanInv(k) /\ calls[k].run \in 1..minted
    BY <1>1, <1>2, <2>1, UnderWayCall DEF OnceInv, Orphans
  <2> QED BY <2>2 DEF OrphanInv, InHand
<1> QED BY <1>1, <1>2, OrphanStep

LEMMA OnceLoop ==
  ASSUME SchedInv, SchedInv', OnceInv,
         StartPass \/ TakeRun \/ EndPass \/ TakeAnswer \/ Exit \/ Restart \/ Stop
  PROVE  OnceInv'
<1>0. disp \in DispRecords
  BY DispTyped DEF SchedInv
<1>1. UNCHANGED <<calls, turns, runs, faults>>
  BY DEF StartPass, TakeRun, EndPass, TakeAnswer, Exit, Restart, Stop, LoopStep, execVars,
     callVars
<1>2. Solo' => Solo
  BY <1>1 DEF Solo
<1>3. ASSUME Solo', NEW k \in CallIds, Orphan(k)' PROVE OrphanInv(k)'
  <2> DEFINE r == calls[k].run
  <2>u. UnderWay(k) /\ ~calls[k].manual
    BY <1>1, <1>3 DEF Orphan, UnderWay
  <2>1. CASE StartPass
    <3>1. disp.pc = "idle"
      BY <2>1 DEF StartPass
    <3>2. OrphanInv(k)
      BY <1>2, <1>3, <2>u, <3>1 DEF Orphan, OnceInv, Orphans
    <3>3. disp'.pc = "pass" /\ disp'.batch \subseteq Due
      BY <2>1 DEF StartPass, IdleLoop
    <3> QED BY <1>1, <3>1, <3>2, <3>3 DEF OrphanInv, Due, InHand
  <2>2. CASE TakeRun
    <3>1. disp.pc = "pass"
      BY <2>2 DEF TakeRun
    <3>2. OrphanInv(k)
      BY <1>2, <1>3, <2>u, <3>1 DEF Orphan, OnceInv, Orphans
    <3>3. PICK x \in disp.batch : disp'.run = x /\ disp'.batch = disp.batch \ {x}
                                  /\ disp'.pc \in {"handing", "pass"}
      <4>1. PICK x \in disp.batch :
              disp' = [disp EXCEPT
                !.batch = @ \ {x}, !.run = x, !.tries = 0,
                !.pc = IF Exists(runs[x].schedule) THEN "handing" ELSE "pass"]
        BY <2>2 DEF TakeRun, LoopStep
      <4> QED BY <1>0, <4>1 DEF DispRecords
    <3> QED BY <1>1, <3>1, <3>2, <3>3 DEF OrphanInv
  <2>3. CASE EndPass \/ Exit \/ Restart
    <3>1. disp.pc \notin {"waiting", "finishing"} /\ disp'.batch = {} /\ disp'.pc \in {"idle", "down"}
      BY <2>3 DEF EndPass, Exit, Restart, LoopStep, IdleLoop
    <3>2. OrphanInv(k)
      BY <1>2, <1>3, <2>u, <3>1 DEF Orphan, OnceInv, Orphans
    <3> QED BY <1>1, <3>1, <3>2 DEF OrphanInv, InHand
  <2>4. CASE TakeAnswer
    <3>1. disp.pc = "waiting" /\ ~UnderWay(disp.call)
      BY <2>4 DEF TakeAnswer, UnderWay
    <3>2. OrphanInv(k)
      BY <1>2, <1>3, <2>u, <3>1 DEF Orphan, OnceInv, Orphans
    <3>3. disp'.batch = disp.batch /\ disp'.run = disp.run
      BY <1>0, <2>4 DEF TakeAnswer, LoopStep, Outcome, DispRecords
    <3> QED BY <1>1, <3>1, <3>2, <3>3 DEF OrphanInv, InHand
  <2>5. CASE Stop
    <3>1. disp' = disp
      BY <2>5 DEF Stop
    <3> QED BY <1>1, <1>2, <1>3, <3>1 DEF Orphan, UnderWay, OrphanInv, InHand, OnceInv, Orphans
  <2> QED BY <2>1, <2>2, <2>3, <2>4, <2>5
<1> QED BY <1>1, <1>2, <1>3, OrphanStep

LEMMA OnceFinish ==
  ASSUME SchedInv, SchedInv', OnceInv,
         FinishScheduledRun \/ FinishFails \/ HandOffTimesOut
  PROVE  OnceInv'
<1>0. disp \in DispRecords
  BY DispTyped DEF SchedInv
<1>1. UNCHANGED <<calls, turns>>
  BY DEF FinishScheduledRun, FinishFails, HandOffTimesOut, execVars, callVars
<1>2. faults' = faults \/ faults' = faults + 1
  BY DEF FinishScheduledRun, FinishFails, HandOffTimesOut, Fault
<1>3. Solo' => Solo
  BY <1>2, SoloBack
<1>4. ASSUME Solo', NEW k \in CallIds, Orphan(k)' PROVE OrphanInv(k)'
  <2>u. UnderWay(k) /\ ~calls[k].manual
    BY <1>1, <1>4 DEF Orphan, UnderWay
  <2>1. CASE FinishScheduledRun
    <3>1. /\ disp.pc = "finishing" /\ disp'.pc = "pass" /\ disp'.batch = disp.batch
          /\ disp'.run = disp.run /\ faults' = faults
      BY <1>0, <2>1 DEF FinishScheduledRun, DispRecords
    <3>2. OrphanInv(k) /\ calls[k].run \in 1..minted
      BY <1>3, <1>4, <2>u, <3>1, UnderWayCall DEF Orphan, OnceInv, Orphans
    <3>3. disp.run \notin disp.batch
      BY <3>1, HeldRun
    <3>4. CASE UNCHANGED <<runs, minted>> /\ runs[disp.run].status = "absent"
      BY <1>1, <3>1, <3>2, <3>3, <3>4 DEF OrphanInv, InHand
    <3>5. CASE Finished
      <4>1. FinishedRows
        BY <3>1, <3>5, FinishEffect
      <4>2. /\ runs'[disp.run].status # "scheduled"
            /\ calls[k].run # disp.run => runs'[calls[k].run] = runs[calls[k].run]
        BY <3>1, <3>2, <4>1, HeldRun DEF FinishedRows, Settled
      <4> QED BY <1>1, <3>1, <3>2, <3>3, <4>2 DEF OrphanInv, InHand
    <3> QED BY <2>1, <3>1, <3>4, <3>5, HeldRun DEF FinishScheduledRun, Finished, Held
  <2>2. CASE FinishFails
    <3>1. disp.pc = "finishing" /\ faults' = faults + 1
      BY <2>2 DEF FinishFails, Fault
    <3>2. faults = 0
      BY <1>2, <1>4, <3>1, SoloBack
    <3>3. OrphanInv(k)
      BY <1>3, <1>4, <2>u, <3>1 DEF Orphan, OnceInv, Orphans
    <3> QED BY <3>2, <3>3 DEF OrphanInv
  <2>3. CASE HandOffTimesOut
    <3>1. /\ disp.pc = "waiting" /\ faults' = faults + 1
          /\ disp'.pc = "finishing" /\ disp'.run = disp.run
      BY <1>0, <2>3 DEF HandOffTimesOut, Fault, Outcome, DispRecords
    <3>2. faults = 0 /\ faults' = 1
      BY <1>2, <1>4, <3>1, SoloBack
    <3>3. k = disp.call
      BY <1>3, <1>4, <2>u, <3>2 DEF Orphan, OnceInv, Orphans, OrphanInv
    <3>4. calls[k].run = disp.run
      BY <3>1, <3>3 DEF SchedInv, CallInv
    <3> QED BY <1>1, <3>1, <3>2, <3>4 DEF OrphanInv
  <2> QED BY <2>1, <2>2, <2>3
<1> QED BY <1>1, <1>3, <1>4, OrphanStep

LEMMA OnceHandOff ==
  ASSUME SchedInv, SchedInv', OnceInv, HandOff
  PROVE  OnceInv'
<1>0. /\ disp \in DispRecords /\ calls \in [CallIds -> CallRecords] /\ disp.pc = "handing"
      /\ made \in 0..MaxCalls /\ MaxCalls \in Nat
  BY DispTyped, ConstantsTyped DEF SchedInv, HandOff, TypeOK
<1>1. UNCHANGED <<runs, turns, faults>>
  BY DEF HandOff, LoopStep, execVars
<1>2. Solo' => Solo
  BY <1>1 DEF Solo
<1>3. ASSUME Solo', NEW k \in CallIds, UnderWay(k), ~calls[k].manual
      PROVE  OrphanInv(k)
  BY <1>0, <1>2, <1>3 DEF Orphan, OnceInv, Orphans
<1>4. CASE LoopStep(Outcome("failed")) /\ UNCHANGED callVars
  <2>1. disp'.run = disp.run /\ disp'.batch = disp.batch /\ UNCHANGED calls
    BY <1>0, <1>4 DEF LoopStep, Outcome, DispRecords, callVars
  <2>2. ASSUME Solo', NEW k \in CallIds, Orphan(k)' PROVE OrphanInv(k)'
    <3>1. UnderWay(k) /\ ~calls[k].manual
      BY <2>1, <2>2 DEF Orphan, UnderWay
    <3>2. OrphanInv(k)
      BY <1>3, <2>2, <3>1
    <3> QED BY <1>0, <1>1, <2>1, <3>2 DEF OrphanInv, InHand
  <2> QED BY <1>1, <1>2, <2>1, <2>2, OrphanStep
<1>5. CASE /\ made < MaxCalls
           /\ calls' = [calls EXCEPT ![made + 1] =
                          [pc |-> "load", run |-> disp.run, manual |-> FALSE]]
           /\ LoopStep([disp EXCEPT !.pc = "waiting", !.call = made + 1])
  <2>1. made + 1 \in CallIds
    BY <1>0, <1>5 DEF CallIds
  <2>2. /\ calls'[made + 1].pc = "load" /\ calls'[made + 1].run = disp.run
        /\ \A k \in CallIds : k # made + 1 => calls'[k] = calls[k]
    BY <1>0, <1>5, <2>1
  <2>3. /\ disp'.pc = "waiting" /\ disp'.call = made + 1
        /\ disp'.run = disp.run /\ disp'.batch = disp.batch
    BY <1>0, <1>5 DEF LoopStep, DispRecords
  <2>4. ASSUME Solo', NEW k \in CallIds, UnderWay(k)
        PROVE  calls[k].run # disp.run
    <3>1. disp.run \in RunIds /\ ~runs[disp.run].manual
      BY <1>0 DEF SchedInv, LoopInv, InHand, OfPass, TypeOK, RunIds
    <3>2. calls[k].manual = runs[calls[k].run].manual
      BY <2>4, UnderWayCall
    <3>3. CASE calls[k].manual
      BY <3>1, <3>2, <3>3
    <3>4. CASE ~calls[k].manual
      BY <1>0, <1>3, <2>4, <3>4 DEF OrphanInv, InHand
    <3> QED BY <3>3, <3>4
  <2>5. ASSUME Solo' PROVE OneCall'
    <3> SUFFICES ASSUME NEW j \in CallIds, NEW k \in CallIds, UnderWay(j)', UnderWay(k)',
                        calls'[j].run = calls'[k].run
                 PROVE  j = k
      BY DEF OneCall
    <3>1. \A i \in CallIds : i # made + 1 /\ UnderWay(i)' => UnderWay(i) /\ calls'[i].run # disp.run
      BY <2>2, <2>4, <2>5 DEF UnderWay
    <3>2. CASE j # made + 1 /\ k # made + 1
      BY <1>2, <2>2, <2>5, <3>1, <3>2 DEF OnceInv, OneCall
    <3> QED BY <2>2, <3>1, <3>2
  <2>6. ASSUME Solo', NEW k \in CallIds, Orphan(k)' PROVE OrphanInv(k)'
    <3>1. k # made + 1
      BY <2>3, <2>6 DEF Orphan
    <3>2. UnderWay(k) /\ ~calls[k].manual /\ calls'[k] = calls[k]
      BY <2>2, <2>6, <3>1 DEF Orphan, UnderWay
    <3>3. OrphanInv(k)
      BY <1>3, <2>6, <3>2
    <3> QED BY <1>0, <1>1, <2>3, <3>2, <3>3 DEF OrphanInv, InHand
  <2>7. ASSUME Solo' PROVE FreshStart' /\ StartedOnce'
    BY <1>1, <1>2, <2>2, <2>7 DEF FreshStart, StartedOnce, OnceInv
  <2> QED BY <2>5, <2>6, <2>7 DEF OnceInv, Orphans
<1> QED BY <1>4, <1>5 DEF HandOff

LEMMA OnceRunNow ==
  ASSUME SchedInv, SchedInv', OnceInv, NEW s \in Schedules, RunNow(s)
  PROVE  OnceInv'
<1>0. /\ calls \in [CallIds -> CallRecords]
      /\ made \in 0..MaxCalls /\ MaxCalls \in Nat
      /\ minted \in 0..MaxRuns /\ MaxRuns \in Nat
  BY DispTyped, ConstantsTyped DEF SchedInv, TypeOK
<1>1. /\ UNCHANGED <<disp, turns, faults>> /\ made < MaxCalls
      /\ runs' = CreateRun(runs, s, now, TRUE)
      /\ calls' = [calls EXCEPT ![made + 1] =
                     [pc |-> "session", run |-> minted + 1, manual |-> TRUE]]
  BY DEF RunNow, execVars, loopVars
<1>2. Solo' => Solo
  BY <1>1 DEF Solo
<1>3. made + 1 \in CallIds /\ minted + 1 \notin 1..minted
  BY <1>0, <1>1 DEF CallIds
<1>4. /\ calls'[made + 1].pc = "session" /\ calls'[made + 1].run = minted + 1
      /\ calls'[made + 1].manual = TRUE
      /\ \A k \in CallIds : k # made + 1 => calls'[k] = calls[k]
  BY <1>0, <1>1, <1>3
<1>5. \A r \in 1..minted : runs'[r] = runs[r]
  <2>1. \A r \in 1..minted : r \in RunIds /\ r # minted + 1
    BY <1>0 DEF RunIds
  <2> QED BY <1>1, <2>1 DEF CreateRun, SchedInv, TypeOK
<1>6. \A i \in CallIds : i # made + 1 /\ UnderWay(i)' => UnderWay(i) /\ calls'[i].run # minted + 1
  BY <1>3, <1>4, UnderWayCall DEF UnderWay
<1>7. ASSUME Solo' PROVE OneCall'
  <2> SUFFICES ASSUME NEW j \in CallIds, NEW k \in CallIds, UnderWay(j)', UnderWay(k)',
                      calls'[j].run = calls'[k].run
               PROVE  j = k
    BY DEF OneCall
  <2>1. CASE j # made + 1 /\ k # made + 1
    BY <1>2, <1>4, <1>6, <1>7, <2>1 DEF OnceInv, OneCall
  <2> QED BY <1>4, <1>6, <2>1
<1>8. ASSUME Solo', NEW k \in CallIds, Orphan(k)' PROVE OrphanInv(k)'
  <2>1. k # made + 1
    BY <1>4, <1>8 DEF Orphan
  <2>2. UnderWay(k) /\ Orphan(k) /\ calls'[k] = calls[k]
    BY <1>1, <1>4, <1>8, <2>1 DEF Orphan, UnderWay
  <2>3. OrphanInv(k) /\ calls[k].run \in 1..minted
    BY <1>2, <1>8, <2>2, UnderWayCall DEF OnceInv, Orphans
  <2> QED BY <1>1, <1>5, <2>2, <2>3 DEF OrphanInv, InHand
<1>9. ASSUME Solo' PROVE FreshStart' /\ StartedOnce'
  BY <1>1, <1>2, <1>4, <1>9 DEF FreshStart, StartedOnce, OnceInv
<1> QED BY <1>7, <1>8, <1>9 DEF OnceInv, Orphans

LEMMA OnceCrash ==
  ASSUME SchedInv, SchedInv', OnceInv, ControllerCrash \/ ServerCrash
  PROVE  OnceInv'
<1> SUFFICES ASSUME Solo' PROVE OneCall' /\ Orphans' /\ FreshStart' /\ StartedOnce'
  BY DEF OnceInv
<1>1. faults' = faults + 1 /\ UNCHANGED turns
  BY DEF ControllerCrash, ServerCrash, Fault, execVars
<1>2. Solo /\ Standalone
  BY <1>1, SoloBack
<1>3. calls' = Killed
  BY <1>2 DEF ControllerCrash, ServerCrash
<1>4. \A k \in CallIds : ~UnderWay(k)' /\ calls'[k].pc # "start"
  <2> TAKE k \in CallIds
  <2>1. calls'[k].pc = IF UnderWay(k) THEN "dead" ELSE calls[k].pc
    BY <1>3, KilledCalls
  <2> QED BY <2>1 DEF UnderWay, Answers
<1> QED BY <1>1, <1>2, <1>4 DEF OneCall, Orphans, Orphan, FreshStart, StartedOnce, OnceInv

(* listTurns keeps a second hand-off of a run whose turn exists from       *)
(* starting another: the check and the start of one run do not interleave  *)
(* with those of another call of that run.                                 *)
LEMMA OnceServe ==
  ASSUME SchedInv, SchedInv', OnceInv, NEW k \in CallIds, ServeCall(k)
  PROVE  OnceInv'
<1>1. PICK at \in {"load", "session", "link", "check", "start", "mark"}, l \in CallPCs :
        /\ CallStep(k, at) /\ Goto(k, l) /\ (l = "mark" => calls[k].manual)
        /\ at = "check" => UNCHANGED turns /\ (l = "start" => ~(turns[calls[k].run] > 0))
        /\ at # "check" => l # "start"
        /\ UNCHANGED turns \/ (at = "start" /\ turns' = [turns EXCEPT ![calls[k].run] = @ + 1])
        /\ UNCHANGED <<disp, faults>>
  <2>1. {"404", "500", "ok", "session", "link", "check", "start", "mark"} \subseteq CallPCs
    BY DEF CallPCs, Answers
  <2> QED BY <2>1 DEF ServeCall, LoadItem, OpenSession, LinkSession, CheckTurns, StartTurn,
             MarkFailed, CallStep, Fails, execVars, loopVars
<1>2. at \in CallPCs \ (Answers \cup {"none"})
  BY DEF CallPCs, Answers
<1>3. /\ calls[k].run \in RunIds /\ calls[k].run \in 1..minted /\ SameCalls
      /\ calls'[k].pc = l /\ \A j \in CallIds : j # k => calls'[j] = calls[j]
  BY <1>1, <1>2, CallMoves
<1>4. UnderWay(k) /\ calls[k].pc = at
  BY <1>1, <1>2 DEF CallStep, UnderWay
<1>5. \A j \in CallIds : /\ UnderWay(j)' => UnderWay(j)
                         /\ calls'[j].run = calls[j].run /\ calls'[j].manual = calls[j].manual
  BY <1>3, <1>4 DEF UnderWay, SameCalls
<1>6. Solo' => Solo
  BY <1>1 DEF Solo
<1>7. \A r \in RunIds : runs'[r].status = "scheduled" => runs[r].status = "scheduled"
  <2>1. runs \in [RunIds -> Rows]
    BY DEF SchedInv, TypeOK
  <2>2. CASE LoadItem(k) \/ OpenSession(k) \/ CheckTurns(k) \/ StartTurn(k)
    BY <2>2 DEF LoadItem, OpenSession, CheckTurns, StartTurn
  <2>3. CASE LinkSession(k)
    BY <1>3, <2>1, <2>3 DEF LinkSession, Rows
  <2>4. CASE MarkFailed(k)
    BY <1>3, <2>1, <2>4 DEF MarkFailed, Rows
  <2> QED BY <2>2, <2>3, <2>4 DEF ServeCall
<1> SUFFICES ASSUME Solo' PROVE OneCall' /\ Orphans' /\ FreshStart' /\ StartedOnce'
  BY DEF OnceInv
<1>8. OneCall /\ Orphans /\ FreshStart /\ StartedOnce
  BY <1>6 DEF OnceInv
<1>9. OneCall'
  BY <1>5, <1>8 DEF OneCall
<1>10. Orphans'
  <2> SUFFICES ASSUME NEW j \in CallIds, Orphan(j)' PROVE OrphanInv(j)'
    BY DEF Orphans
  <2>1. Orphan(j) /\ UnderWay(j)
    BY <1>1, <1>5 DEF Orphan
  <2>2. OrphanInv(j) /\ calls[j].run \in RunIds
    BY <1>8, <2>1, UnderWayCall DEF Orphans
  <2> QED BY <1>1, <1>5, <1>7, <2>2 DEF OrphanInv, InHand
<1>11. turns \in [RunIds -> Nat]
  BY DEF SchedInv, TypeOK
<1>12. CASE UNCHANGED turns
  <2>1. FreshStart'
    <3> SUFFICES ASSUME NEW j \in CallIds, calls'[j].pc = "start" PROVE turns'[calls'[j].run] = 0
      BY DEF FreshStart
    <3>1. CASE j = k
      <4>1. l = "start" /\ at = "check"
        BY <1>1, <1>3, <3>1
      <4>2. ~(turns[calls[k].run] > 0) /\ turns[calls[k].run] \in Nat
        BY <1>1, <1>3, <1>11, <4>1
      <4> QED BY <1>5, <1>12, <3>1, <4>2
    <3>2. CASE j # k
      BY <1>3, <1>8, <1>12, <3>2 DEF FreshStart
    <3> QED BY <3>1, <3>2
  <2>2. StartedOnce'
    BY <1>8, <1>12 DEF StartedOnce
  <2> QED BY <1>9, <1>10, <2>1, <2>2
<1>13. CASE at = "start" /\ turns' = [turns EXCEPT ![calls[k].run] = @ + 1]
  <2>1. turns[calls[k].run] = 0
    BY <1>4, <1>8, <1>13 DEF FreshStart
  <2>2. /\ turns'[calls[k].run] = 1
        /\ \A r \in RunIds : r # calls[k].run => turns'[r] = turns[r]
    BY <1>3, <1>11, <1>13, <2>1
  <2>3. StartedOnce'
    BY <1>8, <2>2 DEF StartedOnce
  <2>4. FreshStart'
    <3> SUFFICES ASSUME NEW j \in CallIds, calls'[j].pc = "start" PROVE turns'[calls'[j].run] = 0
      BY DEF FreshStart
    <3>1. j # k
      BY <1>1, <1>3, <1>13
    <3>2. calls[j].pc = "start" /\ UnderWay(j)
      BY <1>3, <3>1 DEF UnderWay, Answers
    <3>3. calls[j].run # calls[k].run
      BY <1>4, <1>8, <3>1, <3>2 DEF OneCall
    <3>4. calls[j].run \in RunIds
      BY <3>2, UnderWayCall
    <3> QED BY <1>5, <1>8, <2>2, <3>2, <3>3, <3>4 DEF FreshStart
  <2> QED BY <1>9, <1>10, <2>3, <2>4
<1> QED BY <1>1, <1>12, <1>13

(* A client's write adds no pending run to the rows there are. *)
LEMMA ApiRows ==
  ASSUME SchedInv, NEW s \in Schedules,
         \/ \E c \in Crons, st \in {"active", "paused"}, from \in 0..now :
              CreateSchedule(s, c, st, from) \/ PutSchedule(s, c, st, from)
         \/ DeleteSchedule(s)
  PROVE  /\ UNCHANGED <<calls, made, turns, disp, faults>>
         /\ minted' = minted \/ minted' = minted + 1
         /\ \A r \in 1..minted : /\ r \in RunIds
                                 /\ runs'[r].manual = runs[r].manual
                                 /\ runs'[r].status \in {"absent", runs[r].status}
         /\ \A r \in RunIds : r \in 1..minted \/ (r > minted /\ runs'[r].status \in {"absent", "scheduled"})
<1>1. UNCHANGED <<calls, made, turns, disp, faults>>
  BY DEF CreateSchedule, PutSchedule, DeleteSchedule, execVars, callVars, loopVars
<1>2. ASSUME NEW rs \in SUBSET (1..minted), NEW due \in Nat, RowsWrite(rs, s, due, FALSE)
      PROVE  /\ minted' = minted \/ minted' = minted + 1
             /\ \A r \in 1..minted : /\ r \in RunIds
                                     /\ runs'[r].manual = runs[r].manual
                                     /\ runs'[r].status \in {"absent", runs[r].status}
             /\ \A r \in RunIds : r \in 1..minted \/ (r > minted /\ runs'[r].status \in {"absent", "scheduled"})
  <2>1. MintedStep /\ KeptRows(rs) /\ AddedRow(s, due, FALSE) /\ RowsBeyond
    BY <1>2, WriteRows
  <2>2. minted' = minted + 1 => runs'[minted + 1].status = "scheduled"
    BY <2>1 DEF AddedRow
  <2>3. ASSUME NEW r \in RunIds, r > minted' PROVE r > minted /\ runs'[r].status = "absent"
    BY <2>1, <2>3 DEF RowsBeyond, NoRow
  <2>4. minted \in Nat /\ minted' \in Nat
    BY <2>1 DEF MintedStep
  <2>5. ASSUME NEW r \in RunIds
        PROVE  r \in 1..minted \/ (r > minted /\ runs'[r].status \in {"absent", "scheduled"})
    <3>1. r \in Nat
      BY DEF RunIds
    <3>2. r > minted' \/ r \in 1..minted \/ (minted' = minted + 1 /\ r = minted + 1)
      BY <2>1, <2>4, <3>1 DEF RowsBeyond
    <3> QED BY <2>2, <2>3, <2>4, <3>2
  <2> QED BY <2>1, <2>5 DEF MintedStep, KeptRows
<1>3. CASE DeleteSchedule(s)
  <2>1. RowsOf(s) \in SUBSET (1..minted) /\ RowsWrite(RowsOf(s), s, 0, FALSE)
    BY <1>3, LiveRows DEF RowsWrite, DeleteSchedule
  <2> QED BY <1>1, <1>2, <2>1
<1>4. ASSUME NEW c \in Crons, NEW st \in {"active", "paused"}, NEW from \in 0..now,
             CreateSchedule(s, c, st, from) \/ PutSchedule(s, c, st, from)
      PROVE  /\ minted' = minted \/ minted' = minted + 1
             /\ \A r \in 1..minted : /\ r \in RunIds
                                     /\ runs'[r].manual = runs[r].manual
                                     /\ runs'[r].status \in {"absent", runs[r].status}
             /\ \A r \in RunIds : r \in 1..minted \/ (r > minted /\ runs'[r].status \in {"absent", "scheduled"})
  <2>1. HasNext(c, from) /\ from \in Nat
    <3>1. HasNext(c, from)
      BY <1>4 DEF CreateSchedule, PutSchedule
    <3> QED BY <3>1 DEF SchedInv, TypeOK
  <2>2. CASE SyncPendingRun(s, c, st, from)
    <3>1. Synced(s, c, st, from)
      BY <2>1, <2>2, SyncEffect DEF SchedInv
    <3>2. NextTriggerAfter(c, from) \in Nat /\ Pending(s) \in SUBSET (1..minted)
      BY <2>1, NextTriggerLater, LiveRows DEF SchedInv, TypeOK
    <3>3. RowsWrite(Pending(s), s, NextTriggerAfter(c, from), FALSE)
      BY <3>1 DEF Synced, RowsWrite, DropPending
    <3> QED BY <1>2, <3>2, <3>3
  <2>3. CASE UNCHANGED <<runs, minted>>
    <3>1. \A r \in RunIds : r > minted => runs[r].status = "absent"
      BY DEF SchedInv, RowInv, NoRow
    <3>2. \A r \in RunIds : r \in 1..minted \/ r > minted
      BY DEF RunIds, SchedInv, TypeOK
    <3>3. \A r \in 1..minted : r \in RunIds
      BY ConstantsTyped DEF RunIds, SchedInv, TypeOK
    <3> QED BY <2>3, <3>1, <3>2, <3>3
  <2> QED BY <1>4, <2>2, <2>3 DEF CreateSchedule, PutSchedule
<1> QED BY <1>1, <1>3, <1>4

LEMMA OnceStep == SchedInv /\ SchedInv' /\ OnceInv /\ [Next]_vars => OnceInv'
<1> SUFFICES ASSUME SchedInv, SchedInv', OnceInv, [Next]_vars PROVE OnceInv'
  OBVIOUS
<1>1. CASE Tick \/ UNCHANGED vars
  <2>1. UNCHANGED <<calls, turns, disp, faults, runs>>
    BY <1>1 DEF Tick, vars, execVars, loopVars, callVars
  <2> QED BY <2>1, OnceApi
<1>2. CASE Dispatch \/ Stop \/ HandOffTimesOut \/ FinishFails
  BY <1>2, OnceLoop, OnceHandOff, OnceFinish DEF Dispatch
<1>3. CASE \E s \in Schedules :
             \/ \E c \in Crons, status \in {"active", "paused"}, from \in 0..now :
                  \/ CreateSchedule(s, c, status, from)
                  \/ PutSchedule(s, c, status, from)
             \/ DeleteSchedule(s) \/ RunNow(s)
  <2>1. PICK s \in Schedules :
             \/ \E c \in Crons, status \in {"active", "paused"}, from \in 0..now :
                  \/ CreateSchedule(s, c, status, from)
                  \/ PutSchedule(s, c, status, from)
             \/ DeleteSchedule(s) \/ RunNow(s)
    BY <1>3
  <2>2. CASE RunNow(s)
    BY <2>2, OnceRunNow
  <2>3. CASE ~RunNow(s)
    <3>1. /\ UNCHANGED <<calls, turns, disp, faults>>
          /\ \A r \in 1..minted : runs'[r].status \in {"absent", runs[r].status}
      BY <2>1, <2>3, ApiRows
    <3> QED BY <3>1, OnceApi
  <2> QED BY <2>2, <2>3
<1>4. CASE \E k \in CallIds : ServeCall(k)
  BY <1>4, OnceServe
<1>5. CASE ControllerCrash \/ ServerCrash
  BY <1>5, OnceCrash
<1> QED BY <1>1, <1>2, <1>3, <1>4, <1>5 DEF Next

LEMMA OnceInit == Init => OnceInv
  BY DEF Init, OnceInv, OneCall, Orphans, Orphan, FreshStart, StartedOnce, UnderWay, NoCall

FaultsBounded == faults <= MaxFaults

LEMMA FaultBound == Spec => []FaultsBounded
<1>1. Init => FaultsBounded
  BY ScheduleAssumption DEF Init, FaultsBounded
<1>2. SchedInv /\ FaultsBounded /\ [Next]_vars => FaultsBounded'
  <2> SUFFICES ASSUME SchedInv, FaultsBounded, [Next]_vars PROVE FaultsBounded'
    OBVIOUS
  <2>1. faults' = faults \/ (faults < MaxFaults /\ faults' = faults + 1)
    <3>1. CASE \E s \in Schedules :
                 \/ \E c \in Crons, status \in {"active", "paused"}, from \in 0..now :
                      \/ CreateSchedule(s, c, status, from)
                      \/ PutSchedule(s, c, status, from)
                 \/ DeleteSchedule(s) \/ RunNow(s)
      <4>1. PICK s \in Schedules :
                 \/ \E c \in Crons, status \in {"active", "paused"}, from \in 0..now :
                      \/ CreateSchedule(s, c, status, from)
                      \/ PutSchedule(s, c, status, from)
                 \/ DeleteSchedule(s) \/ RunNow(s)
        BY <3>1
      <4>2. ~RunNow(s) => faults' = faults
        BY <4>1, ApiRows
      <4> QED BY <4>2 DEF RunNow
    <3> QED BY <3>1 DEF Next, vars, Tick, Dispatch, StartPass, TakeRun, EndPass,
       HandOff, TakeAnswer, FinishScheduledRun, Exit, Restart, Stop, LoopStep, ServeCall,
       LoadItem, OpenSession, LinkSession, CheckTurns, StartTurn, MarkFailed, CallStep,
       ControllerCrash, ServerCrash, HandOffTimesOut, FinishFails, Fault
  <2> QED BY <2>1, ScheduleAssumption DEF SchedInv, TypeOK, FaultsBounded
<1> QED BY <1>1, <1>2, SchedulesAgree, PTL DEF Spec

(* startScheduleRun starts at most one turn for a run: without faults in   *)
(* any deployment, and with one time-out, crash or failed transaction when *)
(* the controller and the server are one process.                          *)
THEOREM OneTurnPerRun ==
  ASSUME MaxFaults = 0 \/ (Standalone /\ MaxFaults <= 1)
  PROVE  Spec => []StartedOnce
<1>1. SchedInv /\ OnceInv /\ FaultsBounded => StartedOnce
  BY ScheduleAssumption DEF FaultsBounded, OnceInv, Solo, SchedInv, TypeOK
<1>2. Spec => []OnceInv
  <2>1. Init => OnceInv
    BY OnceInit
  <2>2. SchedInv /\ SchedInv' /\ OnceInv /\ [Next]_vars => OnceInv'
    BY OnceStep
  <2> QED BY <2>1, <2>2, SchedulesAgree, PTL DEF Spec
<1> QED BY <1>1, <1>2, SchedulesAgree, FaultBound, PTL
-----------------------------------------------------------------------------
(* The history.  Without faults the only cron hand-off under way is the    *)
(* one the pass waits for.                                                 *)
LEMMA NoOrphans ==
  ASSUME SchedInv, OnceInv, faults = 0
  PROVE  /\ OneCall /\ FreshStart /\ StartedOnce
         /\ \A k \in CallIds :
              UnderWay(k) /\ ~calls[k].manual =>
                disp.pc = "waiting" /\ disp.call = k /\ calls[k].run = disp.run
<1>1. OneCall /\ Orphans /\ FreshStart /\ StartedOnce
  BY DEF OnceInv, Solo
<1>2. \A k \in CallIds : ~Orphan(k)
  BY <1>1 DEF Orphans, OrphanInv
<1> QED BY <1>1, <1>2 DEF Orphan, SchedInv, CallInv

LEMMA HistApi ==
  ASSUME SchedInv, HistInv, UNCHANGED <<calls, turns, disp, faults>>,
         \A r \in 1..minted : /\ r \in RunIds
                              /\ runs'[r].manual = runs[r].manual
                              /\ runs'[r].status \in {"absent", runs[r].status},
         \A r \in RunIds : r \in 1..minted \/ (r > minted /\ runs'[r].status \in {"absent", "scheduled"})
  PROVE  HistInv'
<1> SUFFICES ASSUME faults = 0 PROVE LoopTurns' /\ CallTurns' /\ RowTurns'
  BY DEF HistInv
<1>1. LoopTurns /\ CallTurns /\ RowTurns
  BY DEF HistInv
<1>2. LoopTurns'
  BY <1>1 DEF LoopTurns
<1>3. CallTurns'
  <2> SUFFICES ASSUME NEW k \in CallIds
               PROVE  /\ calls[k].pc = "load" => ~calls[k].manual
                      /\ UnderWay(k) /\ calls[k].manual =>
                           turns[calls[k].run] = 0 /\ runs'[calls[k].run].status # "failed"
    BY DEF CallTurns, UnderWay
  <2>1. UnderWay(k) => runs'[calls[k].run].status \in {"absent", runs[calls[k].run].status}
    BY UnderWayCall
  <2> QED BY <1>1, <2>1 DEF CallTurns
<1>4. RowTurns'
  <2>1. ASSUME NEW r \in RunIds
        PROVE  /\ runs'[r].status = "scheduled" =>
                    turns[r] = 0 \/ (disp.pc \in {"waiting", "finishing"} /\ disp.run = r)
               /\ runs'[r].status = "failed" => turns[r] = 0
               /\ runs'[r].status = "triggered" =>
                    \/ turns[r] = 1
                    \/ runs'[r].manual /\ \E k \in CallIds : calls[k].run = r /\ UnderWay(k)
    <3>1. CASE r \in 1..minted
      BY <1>1, <3>1 DEF RowTurns
    <3>2. CASE r > minted /\ runs'[r].status \in {"absent", "scheduled"}
      BY <3>2 DEF SchedInv, RowInv
    <3> QED BY <3>1, <3>2
  <2> QED BY <2>1 DEF RowTurns, UnderWay
<1> QED BY <1>2, <1>3, <1>4

(* Steps of the loop on which the rows, the turns and the calls stay *)
LEMMA HistLoop ==
  ASSUME SchedInv, SchedInv', OnceInv, HistInv,
         StartPass \/ TakeRun \/ EndPass \/ TakeAnswer \/ Exit \/ Restart \/ Stop
  PROVE  HistInv'
<1>0. disp \in DispRecords
  BY DispTyped DEF SchedInv
<1>1. UNCHANGED <<calls, turns, runs, faults>>
  BY DEF StartPass, TakeRun, EndPass, TakeAnswer, Exit, Restart, Stop, LoopStep, execVars,
     callVars
<1> SUFFICES ASSUME faults = 0 PROVE LoopTurns' /\ CallTurns' /\ RowTurns'
  BY <1>1 DEF HistInv
<1>2. LoopTurns /\ CallTurns /\ RowTurns
  BY DEF HistInv
<1>3. CallTurns'
  BY <1>1, <1>2 DEF CallTurns, UnderWay
<1>4. CASE Stop
  <2>1. disp' = disp
    BY <1>4 DEF Stop
  <2> QED BY <1>1, <1>2, <1>3, <2>1 DEF LoopTurns, RowTurns, UnderWay
<1>5. ASSUME disp.pc \notin {"waiting", "finishing"}
      PROVE  RowTurns'
  BY <1>1, <1>2, <1>5 DEF RowTurns, UnderWay
<1>6. CASE StartPass
  <2>1. disp.pc = "idle" /\ disp'.pc = "pass" /\ disp'.batch \subseteq Due
    BY <1>6 DEF StartPass, IdleLoop
  <2>2. \A r \in disp'.batch : turns[r] = 0
    BY <1>2, <2>1 DEF RowTurns, Due
  <2> QED BY <1>1, <1>3, <1>5, <2>1, <2>2 DEF LoopTurns
<1>7. CASE TakeRun
  <2>1. disp.pc = "pass"
    BY <1>7 DEF TakeRun
  <2>2. PICK x \in disp.batch : disp'.run = x /\ disp'.batch = disp.batch \ {x}
                                /\ disp'.pc \in {"handing", "pass"}
    <3>1. PICK x \in disp.batch :
            disp' = [disp EXCEPT
              !.batch = @ \ {x}, !.run = x, !.tries = 0,
              !.pc = IF Exists(runs[x].schedule) THEN "handing" ELSE "pass"]
      BY <1>7 DEF TakeRun, LoopStep
    <3> QED BY <1>0, <3>1 DEF DispRecords
  <2> QED BY <1>1, <1>2, <1>3, <1>5, <2>1, <2>2 DEF LoopTurns
<1>8. CASE EndPass \/ Exit \/ Restart
  <2>1. disp.pc \notin {"waiting", "finishing"} /\ disp'.batch = {} /\ disp'.pc \in {"idle", "down"}
    BY <1>8 DEF EndPass, Exit, Restart, LoopStep, IdleLoop
  <2> QED BY <1>3, <1>5, <2>1 DEF LoopTurns
<1>9. CASE TakeAnswer
  <2>1. /\ disp.pc = "waiting"
        /\ disp'.batch = disp.batch /\ disp'.run = disp.run
        /\ \/ /\ calls[disp.call].pc = "ok" /\ disp'.pc = "finishing" /\ disp'.outcome = "triggered"
           \/ /\ calls[disp.call].pc # "ok" /\ disp'.pc = "finishing" /\ disp'.outcome = "failed"
           \/ /\ calls[disp.call].pc # "ok" /\ disp'.pc = "handing"
    BY <1>0, <1>9 DEF TakeAnswer, LoopStep, Outcome, DispRecords
  <2>2. LoopTurns'
    BY <1>1, <1>2, <2>1 DEF LoopTurns
  <2>3. RowTurns'
    <3>1. disp'.pc \notin {"waiting", "finishing"} => turns[disp.run] = 0
      BY <1>2, <2>1 DEF LoopTurns
    <3> QED BY <1>1, <1>2, <2>1, <3>1 DEF RowTurns, UnderWay
  <2> QED BY <1>3, <2>2, <2>3
<1> QED BY <1>4, <1>6, <1>7, <1>8, <1>9

LEMMA HistHandOff ==
  ASSUME SchedInv, SchedInv', OnceInv, HistInv, HandOff
  PROVE  HistInv'
<1>0. /\ disp \in DispRecords /\ calls \in [CallIds -> CallRecords] /\ disp.pc = "handing"
      /\ made \in 0..MaxCalls /\ MaxCalls \in Nat
  BY DispTyped, ConstantsTyped DEF SchedInv, HandOff, TypeOK
<1>1. UNCHANGED <<runs, turns, faults>>
  BY DEF HandOff, LoopStep, execVars
<1> SUFFICES ASSUME faults = 0 PROVE LoopTurns' /\ CallTurns' /\ RowTurns'
  BY <1>1 DEF HistInv
<1>2. LoopTurns /\ CallTurns /\ RowTurns
  BY DEF HistInv
<1>3. CASE LoopStep(Outcome("failed")) /\ UNCHANGED callVars
  <2>1. /\ disp'.run = disp.run /\ disp'.batch = disp.batch /\ UNCHANGED calls
        /\ disp'.pc = "finishing" /\ disp'.outcome = "failed"
    BY <1>0, <1>3 DEF LoopStep, Outcome, DispRecords, callVars
  <2>2. LoopTurns'
    BY <1>0, <1>1, <1>2, <2>1 DEF LoopTurns
  <2>3. CallTurns'
    BY <1>1, <1>2, <2>1 DEF CallTurns, UnderWay
  <2>4. RowTurns'
    BY <1>0, <1>1, <1>2, <2>1 DEF RowTurns, UnderWay
  <2> QED BY <2>2, <2>3, <2>4
<1>4. CASE /\ made < MaxCalls
           /\ calls' = [calls EXCEPT ![made + 1] =
                          [pc |-> "load", run |-> disp.run, manual |-> FALSE]]
           /\ LoopStep([disp EXCEPT !.pc = "waiting", !.call = made + 1])
  <2>1. made + 1 \in CallIds /\ made + 1 > made
    BY <1>0, <1>4 DEF CallIds
  <2>2. /\ calls'[made + 1].pc = "load" /\ calls'[made + 1].manual = FALSE
        /\ \A k \in CallIds : k # made + 1 => calls'[k] = calls[k]
    BY <1>0, <1>4, <2>1
  <2>3. /\ disp'.pc = "waiting" /\ disp'.call = made + 1
        /\ disp'.run = disp.run /\ disp'.batch = disp.batch
    BY <1>0, <1>4 DEF LoopStep, DispRecords
  <2>4. LoopTurns'
    BY <1>0, <1>1, <1>2, <2>2, <2>3 DEF LoopTurns
  <2>5. CallTurns'
    BY <1>1, <1>2, <2>2 DEF CallTurns, UnderWay
  <2>6. RowTurns'
    <3>1. ~UnderWay(made + 1)
      BY <2>1 DEF SchedInv, CallInv, NoCall, UnderWay
    <3>2. \A k \in CallIds : UnderWay(k) => UnderWay(k)' /\ calls'[k].run = calls[k].run
      BY <2>2, <3>1 DEF UnderWay
    <3> QED BY <1>0, <1>1, <1>2, <3>2 DEF RowTurns
  <2> QED BY <2>4, <2>5, <2>6
<1> QED BY <1>3, <1>4 DEF HandOff

LEMMA HistFinish ==
  ASSUME SchedInv, SchedInv', OnceInv, HistInv, FinishScheduledRun
  PROVE  HistInv'
<1>0. disp \in DispRecords
  BY DispTyped DEF SchedInv
<1>1. UNCHANGED <<turns, calls, faults>>
  BY DEF FinishScheduledRun, execVars, callVars
<1> SUFFICES ASSUME faults = 0 PROVE LoopTurns' /\ CallTurns' /\ RowTurns'
  BY <1>1 DEF HistInv
<1>2. LoopTurns /\ CallTurns /\ RowTurns
  BY DEF HistInv
<1>3. /\ disp.pc = "finishing" /\ disp'.pc = "pass" /\ disp'.batch = disp.batch
  BY <1>0 DEF FinishScheduledRun, DispRecords
<1>4. LoopTurns'
  BY <1>1, <1>2, <1>3 DEF LoopTurns
<1>5. CASE UNCHANGED <<runs, minted>> /\ runs[disp.run].status = "absent"
  <2>1. CallTurns'
    BY <1>1, <1>2, <1>5 DEF CallTurns, UnderWay
  <2>2. RowTurns'
    BY <1>1, <1>2, <1>5 DEF RowTurns, UnderWay
  <2> QED BY <1>4, <2>1, <2>2
<1>6. CASE Finished
  <2>1. FinishedRows
    BY <1>3, <1>6, FinishEffect
  <2>2. CallTurns'
    <3> SUFFICES ASSUME NEW k \in CallIds
                 PROVE  /\ calls[k].pc = "load" => ~calls[k].manual
                        /\ UnderWay(k) /\ calls[k].manual =>
                             turns[calls[k].run] = 0 /\ runs'[calls[k].run].status # "failed"
      BY <1>1 DEF CallTurns, UnderWay
    <3>1. ASSUME UnderWay(k), calls[k].manual PROVE runs'[calls[k].run] = runs[calls[k].run]
      <4>1. calls[k].run \in 1..minted /\ runs[calls[k].run].manual
        BY <3>1, UnderWayCall
      <4>2. calls[k].run # disp.run
        BY <1>3, <4>1, HeldRun DEF Held
      <4> QED BY <2>1, <4>1, <4>2 DEF FinishedRows
    <3> QED BY <1>2, <3>1 DEF CallTurns
  <2>3. RowTurns'
    <3> SUFFICES ASSUME NEW r \in RunIds
                 PROVE  /\ runs'[r].status = "scheduled" => turns[r] = 0
                        /\ runs'[r].status = "failed" => turns[r] = 0
                        /\ runs'[r].status = "triggered" =>
                             \/ turns[r] = 1
                             \/ runs'[r].manual /\ \E k \in CallIds : calls[k].run = r /\ UnderWay(k)
      BY <1>1 DEF RowTurns, UnderWay
    <3>1. CASE r = disp.run
      <4>1. runs'[r].status = disp.outcome /\ disp.outcome \in Settled
        BY <1>3, <2>1, <3>1, HeldRun DEF FinishedRows
      <4>2. turns[r] = IF disp.outcome = "triggered" THEN 1 ELSE 0
        BY <1>2, <1>3, <3>1 DEF LoopTurns
      <4> QED BY <4>1, <4>2 DEF Settled
    <3>2. CASE r # disp.run /\ r \in 1..minted
      <4>1. runs'[r] = runs[r]
        BY <2>1, <3>2 DEF FinishedRows
      <4> QED BY <1>2, <3>2, <4>1 DEF RowTurns
    <3>3. CASE Advances /\ r = minted + 1
      <4>1. runs'[r].status = "scheduled" /\ r > minted
        BY <2>1, <3>3 DEF FinishedRows, SchedInv, TypeOK
      <4> QED BY <4>1 DEF SchedInv, RowInv
    <3>4. CASE r > minted' /\ r > minted /\ runs'[r] = NoRow
      BY <3>4 DEF NoRow
    <3> QED BY <2>1, <3>1, <3>2, <3>3, <3>4 DEF FinishedRows
  <2> QED BY <1>4, <2>2, <2>3
<1> QED BY <1>3, <1>5, <1>6, HeldRun DEF FinishScheduledRun, Finished, Held

LEMMA HistRunNow ==
  ASSUME SchedInv, SchedInv', OnceInv, HistInv, NEW s \in Schedules, RunNow(s)
  PROVE  HistInv'
<1>0. /\ calls \in [CallIds -> CallRecords] /\ runs \in [RunIds -> Rows]
      /\ made \in 0..MaxCalls /\ MaxCalls \in Nat
      /\ minted \in 0..MaxRuns /\ MaxRuns \in Nat /\ now \in Nat
  BY DispTyped, ConstantsTyped DEF SchedInv, TypeOK
<1>1. /\ UNCHANGED <<disp, turns, faults>> /\ made < MaxCalls /\ minted < MaxRuns
      /\ runs' = CreateRun(runs, s, now, TRUE)
      /\ calls' = [calls EXCEPT ![made + 1] =
                     [pc |-> "session", run |-> minted + 1, manual |-> TRUE]]
  BY DEF RunNow, execVars, loopVars
<1> SUFFICES ASSUME faults = 0 PROVE LoopTurns' /\ CallTurns' /\ RowTurns'
  BY <1>1 DEF HistInv
<1>2. LoopTurns /\ CallTurns /\ RowTurns
  BY DEF HistInv
<1>3. made + 1 \in CallIds /\ made + 1 > made /\ minted + 1 \notin 1..minted /\ minted + 1 > minted
  BY <1>0, <1>1 DEF CallIds
<1>4. /\ calls'[made + 1].pc = "session" /\ calls'[made + 1].run = minted + 1
      /\ \A k \in CallIds : k # made + 1 => calls'[k] = calls[k]
  BY <1>0, <1>1, <1>3
<1>5. /\ minted + 1 \in RunIds
      /\ runs'[minted + 1].status = "triggered" /\ runs'[minted + 1].manual = TRUE
      /\ \A r \in RunIds : r # minted + 1 => runs'[r] = runs[r]
  <2>1. minted + 1 \in RunIds
    BY <1>0, <1>1 DEF RunIds
  <2> QED BY <1>0, <1>1, <2>1 DEF CreateRun
<1>6. turns[minted + 1] = 0
  BY <1>3, <1>5 DEF SchedInv, RowInv
<1>7. ~UnderWay(made + 1) /\ \A k \in CallIds : UnderWay(k) => calls[k].run \in RunIds /\ calls[k].run # minted + 1
  <2>1. ~UnderWay(made + 1)
    BY <1>3 DEF SchedInv, CallInv, NoCall, UnderWay
  <2> QED BY <1>3, <2>1, UnderWayCall
<1>8. LoopTurns'
  <2>1. disp.pc = "waiting" => disp.call \in CallIds /\ disp.call # made + 1
    <3>1. disp.pc = "waiting" => disp.call \in 1..made
      BY DEF SchedInv, CallInv
    <3>2. \A k \in 1..made : k \in CallIds /\ k # made + 1
      BY <1>0 DEF CallIds
    <3> QED BY <3>1, <3>2
  <2> QED BY <1>1, <1>2, <1>4, <2>1 DEF LoopTurns
<1>9. CallTurns'
  <2> SUFFICES ASSUME NEW k \in CallIds
               PROVE  /\ calls'[k].pc = "load" => ~calls'[k].manual
                      /\ UnderWay(k)' /\ calls'[k].manual =>
                           turns[calls'[k].run] = 0 /\ runs'[calls'[k].run].status # "failed"
    BY <1>1 DEF CallTurns, UnderWay
  <2>1. CASE k = made + 1
    BY <1>4, <1>5, <1>6, <2>1
  <2>2. CASE k # made + 1
    <3>1. calls'[k] = calls[k] /\ (UnderWay(k)' => UnderWay(k))
      BY <1>4, <2>2 DEF UnderWay
    <3> QED BY <1>2, <1>5, <1>7, <3>1 DEF CallTurns
  <2> QED BY <2>1, <2>2
<1>10. RowTurns'
  <2>1. \A k \in CallIds : UnderWay(k) => UnderWay(k)' /\ calls'[k].run = calls[k].run
    BY <1>4, <1>7 DEF UnderWay
  <2>2. \A k \in CallIds : k = made + 1 => UnderWay(k)'
    BY <1>4 DEF UnderWay, Answers
  <2> SUFFICES ASSUME NEW r \in RunIds
               PROVE  /\ runs'[r].status = "scheduled" =>
                           turns[r] = 0 \/ (disp.pc \in {"waiting", "finishing"} /\ disp.run = r)
                      /\ runs'[r].status = "failed" => turns[r] = 0
                      /\ runs'[r].status = "triggered" =>
                           \/ turns[r] = 1
                           \/ runs'[r].manual /\ \E k \in CallIds : calls'[k].run = r /\ UnderWay(k)'
    BY <1>1 DEF RowTurns
  <2>3. CASE r = minted + 1
    BY <1>3, <1>4, <1>5, <2>2, <2>3
  <2>4. CASE r # minted + 1
    BY <1>2, <1>5, <2>1, <2>4 DEF RowTurns
  <2> QED BY <2>3, <2>4
<1> QED BY <1>8, <1>9, <1>10

LEMMA WaitedCall ==
  ASSUME SchedInv, disp.pc = "waiting"
  PROVE  disp.call \in CallIds /\ calls[disp.call].run = disp.run
<1>1. disp.call \in 1..made /\ calls[disp.call].run = disp.run
  BY DEF SchedInv, CallInv
<1> QED BY <1>1, ConstantsTyped DEF SchedInv, TypeOK, CallIds

(* A call under way has not started its turn. *)
LEMMA Unstarted ==
  ASSUME SchedInv, OnceInv, HistInv, faults = 0, NEW k \in CallIds, UnderWay(k)
  PROVE  turns[calls[k].run] = 0
<1>1. LoopTurns /\ CallTurns
  BY DEF HistInv
<1>2. CASE calls[k].manual
  BY <1>1, <1>2 DEF CallTurns
<1>3. CASE ~calls[k].manual
  <2>1. disp.pc = "waiting" /\ disp.call = k /\ calls[k].run = disp.run
    BY <1>3, NoOrphans
  <2>2. calls[k].pc # "ok"
    BY DEF UnderWay, Answers
  <2> QED BY <1>1, <2>1, <2>2 DEF LoopTurns
<1> QED BY <1>2, <1>3

(* The call moves on without a turn; run-now does not answer yet. *)
LEMMA HistQuiet ==
  ASSUME SchedInv, OnceInv, HistInv, NEW k \in CallIds, UnderWay(k), SameCalls,
         calls'[k].pc \notin {"ok", "load"}, calls[k].manual => UnderWay(k)',
         \A j \in CallIds : j # k => calls'[j] = calls[j],
         UNCHANGED <<disp, turns, faults>>,
         \A r \in RunIds : runs'[r].status = runs[r].status /\ runs'[r].manual = runs[r].manual
  PROVE  HistInv'
<1> SUFFICES ASSUME faults = 0 PROVE LoopTurns' /\ CallTurns' /\ RowTurns'
  BY DEF HistInv
<1>1. LoopTurns /\ CallTurns /\ RowTurns
  BY DEF HistInv
<1>2. calls[k].pc # "ok"
  BY DEF UnderWay, Answers
<1>3. LoopTurns'
  BY <1>1, <1>2, WaitedCall DEF LoopTurns
<1>4. \A j \in CallIds : /\ calls'[j].run = calls[j].run /\ calls'[j].manual = calls[j].manual
                         /\ UnderWay(j)' => UnderWay(j)
                         /\ UnderWay(j) /\ calls[j].manual => UnderWay(j)'
  BY DEF SameCalls, UnderWay
<1>5. CallTurns'
  <2>1. \A j \in CallIds : UnderWay(j) => calls[j].run \in RunIds
    BY UnderWayCall
  <2> QED BY <1>1, <1>4, <2>1 DEF CallTurns
<1>6. RowTurns'
  <2>1. ASSUME NEW r \in RunIds, runs[r].manual, NEW j \in CallIds, calls[j].run = r, UnderWay(j)
        PROVE  UnderWay(j)' /\ calls'[j].run = r
    BY <1>4, <2>1, UnderWayCall
  <2> QED BY <1>1, <2>1 DEF RowTurns
<1> QED BY <1>3, <1>5, <1>6

LEMMA HistServe ==
  ASSUME SchedInv, SchedInv', OnceInv, HistInv, NEW k \in CallIds, ServeCall(k)
  PROVE  HistInv'
<1> DEFINE r0 == calls[k].run
<1>1. UNCHANGED <<disp, faults>>
  BY DEF ServeCall, LoadItem, OpenSession, LinkSession, CheckTurns, StartTurn, MarkFailed,
     CallStep, loopVars
<1> SUFFICES ASSUME faults = 0 PROVE HistInv'
  BY <1>1 DEF HistInv
<1>2. LoopTurns /\ CallTurns /\ RowTurns /\ OneCall
  BY NoOrphans DEF HistInv
<1>3. /\ runs \in [RunIds -> Rows] /\ turns \in [RunIds -> Nat]
      /\ {"404", "500", "ok", "session", "link", "check", "start", "mark"} \subseteq CallPCs
  BY DEF SchedInv, TypeOK, CallPCs, Answers
<1>4. \A at \in {"load", "session", "link", "check", "start", "mark"} :
        at \in CallPCs \ (Answers \cup {"none"})
  BY DEF CallPCs, Answers
<1>5. ASSUME NEW at \in {"load", "session", "link", "check", "start", "mark"}, CallStep(k, at)
      PROVE  UnderWay(k) /\ turns[r0] = 0 /\ r0 \in RunIds /\ r0 \in 1..minted
             /\ calls[k].manual = runs[r0].manual
  <2>1. UnderWay(k)
    BY <1>4, <1>5 DEF CallStep, UnderWay
  <2> QED BY <2>1, Unstarted, UnderWayCall
<1>6. ASSUME NEW at \in {"load", "session", "link", "check", "start", "mark"}, CallStep(k, at),
             NEW l \in {"404", "500", "session", "link", "check", "start", "mark"}, Goto(k, l),
             l = "mark" => calls[k].manual, calls[k].manual => l \notin {"404", "500"},
             UNCHANGED turns,
             \A r \in RunIds : runs'[r].status = runs[r].status /\ runs'[r].manual = runs[r].manual
      PROVE  HistInv'
  <2>1. SameCalls /\ calls'[k].pc = l /\ \A j \in CallIds : j # k => calls'[j] = calls[j]
    BY <1>3, <1>4, <1>6, CallMoves
  <2>2. calls[k].manual => UnderWay(k)'
    BY <1>6, <2>1 DEF UnderWay, Answers
  <2>3. UnderWay(k)
    BY <1>5, <1>6
  <2> QED BY <1>1, <1>6, <2>1, <2>2, <2>3, HistQuiet
<1>7. CASE LoadItem(k)
  <2>1. PICK l \in {"404", "session"} : CallStep(k, "load") /\ Goto(k, l)
    BY <1>7 DEF LoadItem
  <2>2. ~calls[k].manual
    BY <1>2, <2>1 DEF CallTurns, CallStep
  <2>3. UNCHANGED <<runs, turns>>
    BY <1>7 DEF LoadItem, execVars
  <2> QED BY <1>6, <2>1, <2>2, <2>3
<1>8. CASE OpenSession(k)
  <2>1. PICK l \in {"404", "link", "mark"} :
          /\ CallStep(k, "session") /\ Goto(k, l)
          /\ l = "404" => ~calls[k].manual
          /\ l = "mark" => calls[k].manual
    BY <1>8 DEF OpenSession, Fails
  <2>2. UNCHANGED <<runs, turns>>
    BY <1>8 DEF OpenSession
  <2> QED BY <1>6, <2>1, <2>2
<1>9. CASE LinkSession(k)
  <2>1. CallStep(k, "link") /\ Goto(k, "check") /\ UNCHANGED turns
    BY <1>9 DEF LinkSession, execVars
  <2>2. \A r \in RunIds : runs'[r].status = runs[r].status /\ runs'[r].manual = runs[r].manual
    BY <1>3, <1>9 DEF LinkSession, Rows
  <2> QED BY <1>6, <2>1, <2>2
<1>10. CASE CheckTurns(k)
  <2>1. CallStep(k, "check") /\ UNCHANGED <<runs, turns>>
        /\ Goto(k, IF turns[r0] > 0 THEN "ok" ELSE "start")
    BY <1>10 DEF CheckTurns, execVars
  <2>2. turns[r0] = 0
    BY <1>5, <2>1
  <2>3. Goto(k, "start")
    BY <2>1, <2>2
  <2> QED BY <1>6, <2>1, <2>3
<1>11. CASE StartTurn(k) /\ UNCHANGED turns
  <2>1. CallStep(k, "start") /\ UNCHANGED runs
    BY <1>11 DEF StartTurn
  <2>2. r0 \in RunIds
    BY <1>5, <2>1
  <2>3. turns # [turns EXCEPT ![r0] = @ + 1]
    BY <1>3, <2>2
  <2>4. PICK l \in {"500", "mark"} :
          /\ Goto(k, l)
          /\ l = "500" => ~calls[k].manual
          /\ l = "mark" => calls[k].manual
    BY <1>11, <2>3 DEF StartTurn, Fails
  <2> QED BY <1>6, <1>11, <2>1, <2>4
<1>12. CASE StartTurn(k) /\ ~UNCHANGED turns
  <2>1. /\ CallStep(k, "start") /\ UNCHANGED runs /\ Goto(k, "ok")
        /\ turns' = [turns EXCEPT ![r0] = @ + 1]
    BY <1>12 DEF StartTurn
  <2>2. /\ UnderWay(k) /\ turns[r0] = 0 /\ r0 \in RunIds /\ r0 \in 1..minted
        /\ calls[k].manual = runs[r0].manual
    BY <1>5, <2>1
  <2>3. turns'[r0] = 1 /\ \A r \in RunIds : r # r0 => turns'[r] = turns[r]
    BY <1>3, <2>1, <2>2
  <2>4. SameCalls /\ calls'[k].pc = "ok" /\ \A j \in CallIds : j # k => calls'[j] = calls[j]
    BY <1>3, <1>4, <2>1, CallMoves
  <2>5. ~UnderWay(k)' /\ \A j \in CallIds : j # k => (UnderWay(j)' <=> UnderWay(j))
    BY <2>4 DEF UnderWay, Answers
  <2>6. ASSUME ~calls[k].manual PROVE disp.pc = "waiting" /\ disp.call = k /\ r0 = disp.run
    BY <2>2, <2>6, NoOrphans
  <2>7. LoopTurns'
    <3>1. ASSUME NEW r, OfPass(r) PROVE calls[k].manual => r # r0
      BY <2>2, <3>1 DEF OfPass
    <3>2. ASSUME NEW r \in disp.batch PROVE turns'[r] = 0
      <4>1. OfPass(r) /\ r \in RunIds
        BY DEF SchedInv, LoopInv, TypeOK
      <4>2. r # r0
        BY <2>6, <3>1, <4>1 DEF SchedInv, LoopInv, InHand
      <4> QED BY <1>2, <2>3, <4>1, <4>2 DEF LoopTurns
    <3>3. ASSUME InHand, calls[k].manual PROVE turns'[disp.run] = turns[disp.run]
      <4>1. OfPass(disp.run)
        BY <3>3 DEF SchedInv, LoopInv
      <4>2. disp.run # r0 /\ disp.run \in 1..minted
        BY <3>1, <3>3, <4>1 DEF OfPass
      <4>3. disp.run \in RunIds
        BY <4>2, ConstantsTyped DEF SchedInv, TypeOK, RunIds
      <4> QED BY <2>3, <4>2, <4>3
    <3>4. CASE calls[k].manual
      <4>1. disp.pc = "waiting" => calls'[disp.call].pc = calls[disp.call].pc
        <5>1. disp.pc = "waiting" => disp.call \in CallIds /\ calls[disp.call].run = disp.run
          BY WaitedCall
        <5>2. disp.pc = "waiting" => disp.run # r0
          BY <3>1, <3>4 DEF SchedInv, LoopInv, InHand
        <5> QED BY <2>4, <5>1, <5>2
      <4> QED BY <1>1, <1>2, <3>2, <3>3, <3>4, <4>1 DEF LoopTurns, InHand
    <3>5. CASE ~calls[k].manual
      BY <1>1, <2>3, <2>4, <2>6, <3>2, <3>5 DEF LoopTurns
    <3> QED BY <3>4, <3>5
  <2>8. CallTurns'
    <3> SUFFICES ASSUME NEW j \in CallIds
                 PROVE  /\ calls'[j].pc = "load" => ~calls'[j].manual
                        /\ UnderWay(j)' /\ calls'[j].manual =>
                             turns'[calls'[j].run] = 0 /\ runs'[calls'[j].run].status # "failed"
      BY DEF CallTurns
    <3>1. CASE j = k
      BY <2>4, <2>5, <3>1
    <3>2. CASE j # k
      <4>1. UnderWay(j) => calls[j].run # r0 /\ calls[j].run \in RunIds
        BY <1>2, <2>2, <3>2, UnderWayCall DEF OneCall
      <4> QED BY <1>2, <2>1, <2>3, <2>4, <2>5, <3>2, <4>1 DEF CallTurns
    <3> QED BY <3>1, <3>2
  <2>9. RowTurns'
    <3> SUFFICES ASSUME NEW r \in RunIds
                 PROVE  /\ runs[r].status = "scheduled" =>
                             turns'[r] = 0 \/ (disp.pc \in {"waiting", "finishing"} /\ disp.run = r)
                        /\ runs[r].status = "failed" => turns'[r] = 0
                        /\ runs[r].status = "triggered" =>
                             \/ turns'[r] = 1
                             \/ runs[r].manual /\ \E j \in CallIds : calls'[j].run = r /\ UnderWay(j)'
      BY <1>1, <2>1 DEF RowTurns
    <3>1. CASE r = r0
      <4>1. CASE calls[k].manual
        BY <1>2, <2>2, <2>3, <3>1, <4>1 DEF CallTurns, SchedInv, RowInv
      <4>2. CASE ~calls[k].manual
        <5>1. runs[r].status \in {"scheduled", "absent"}
          BY <2>6, <3>1, <4>2 DEF SchedInv, LoopInv, InHand, OfPass
        <5> QED BY <2>6, <3>1, <4>2, <5>1
      <4> QED BY <4>1, <4>2
    <3>2. CASE r # r0
      <4>1. \A j \in CallIds : UnderWay(j) /\ calls[j].run = r => UnderWay(j)' /\ calls'[j].run = r
        BY <2>4, <2>5, <3>2
      <4> QED BY <1>2, <2>3, <3>2, <4>1 DEF RowTurns
    <3> QED BY <3>1, <3>2
  <2> QED BY <2>7, <2>8, <2>9 DEF HistInv
<1>13. CASE MarkFailed(k)
  <2>1. CallStep(k, "mark") /\ Goto(k, "500") /\ UNCHANGED turns
        /\ runs' = [runs EXCEPT ![r0].status = IF @ = "absent" THEN @ ELSE "failed"]
    BY <1>13 DEF MarkFailed, execVars
  <2>2. /\ UnderWay(k) /\ turns[r0] = 0 /\ r0 \in RunIds
    BY <1>5, <2>1
  <2>3. SameCalls /\ calls'[k].pc = "500" /\ \A j \in CallIds : j # k => calls'[j] = calls[j]
    BY <1>3, <1>4, <2>1, CallMoves
  <2>4. ~UnderWay(k)' /\ \A j \in CallIds : j # k => (UnderWay(j)' <=> UnderWay(j))
    BY <2>3 DEF UnderWay, Answers
  <2>5. /\ runs'[r0].status \in {"absent", "failed"}
        /\ \A r \in RunIds : r # r0 => runs'[r] = runs[r]
    BY <1>3, <2>1, <2>2 DEF Rows
  <2>6. calls[k].pc # "ok"
    BY <2>1 DEF CallStep
  <2>7. LoopTurns'
    BY <1>1, <1>2, <2>1, <2>3, <2>6, WaitedCall DEF LoopTurns
  <2>8. CallTurns'
    <3> SUFFICES ASSUME NEW j \in CallIds
                 PROVE  /\ calls'[j].pc = "load" => ~calls'[j].manual
                        /\ UnderWay(j)' /\ calls'[j].manual =>
                             turns'[calls'[j].run] = 0 /\ runs'[calls'[j].run].status # "failed"
      BY DEF CallTurns
    <3>1. CASE j = k
      BY <2>3, <2>4, <3>1
    <3>2. CASE j # k
      <4>1. UnderWay(j) => calls[j].run # r0 /\ calls[j].run \in RunIds
        BY <1>2, <2>2, <3>2, UnderWayCall DEF OneCall
      <4> QED BY <1>2, <2>1, <2>3, <2>4, <2>5, <3>2, <4>1 DEF CallTurns
    <3> QED BY <3>1, <3>2
  <2>9. RowTurns'
    <3> SUFFICES ASSUME NEW r \in RunIds
                 PROVE  /\ runs'[r].status = "scheduled" =>
                             turns[r] = 0 \/ (disp.pc \in {"waiting", "finishing"} /\ disp.run = r)
                        /\ runs'[r].status = "failed" => turns[r] = 0
                        /\ runs'[r].status = "triggered" =>
                             \/ turns[r] = 1
                             \/ runs'[r].manual /\ \E j \in CallIds : calls'[j].run = r /\ UnderWay(j)'
      BY <1>1, <2>1 DEF RowTurns
    <3>1. CASE r = r0
      BY <2>2, <2>5, <3>1
    <3>2. CASE r # r0
      <4>1. \A j \in CallIds : UnderWay(j) /\ calls[j].run = r => UnderWay(j)' /\ calls'[j].run = r
        BY <2>3, <2>4, <3>2
      <4> QED BY <1>2, <2>5, <3>2, <4>1 DEF RowTurns
    <3> QED BY <3>1, <3>2
  <2> QED BY <2>7, <2>8, <2>9 DEF HistInv
<1> QED BY <1>7, <1>8, <1>9, <1>10, <1>11, <1>12, <1>13 DEF ServeCall

LEMMA HistStep ==
  SchedInv /\ SchedInv' /\ OnceInv /\ HistInv /\ [Next]_vars => HistInv'
<1> SUFFICES ASSUME SchedInv, SchedInv', OnceInv, HistInv, [Next]_vars PROVE HistInv'
  OBVIOUS
<1>1. CASE Tick \/ UNCHANGED vars
  <2>1. UNCHANGED <<calls, turns, disp, faults, runs>>
    BY <1>1 DEF Tick, vars, execVars, loopVars, callVars
  <2> QED BY <2>1 DEF HistInv, LoopTurns, CallTurns, RowTurns, UnderWay
<1>2. CASE Dispatch \/ Stop
  BY <1>2, HistLoop, HistHandOff, HistFinish DEF Dispatch
<1>3. CASE \E s \in Schedules :
             \/ \E c \in Crons, status \in {"active", "paused"}, from \in 0..now :
                  \/ CreateSchedule(s, c, status, from)
                  \/ PutSchedule(s, c, status, from)
             \/ DeleteSchedule(s) \/ RunNow(s)
  <2>1. PICK s \in Schedules :
             \/ \E c \in Crons, status \in {"active", "paused"}, from \in 0..now :
                  \/ CreateSchedule(s, c, status, from)
                  \/ PutSchedule(s, c, status, from)
             \/ DeleteSchedule(s) \/ RunNow(s)
    BY <1>3
  <2>2. CASE RunNow(s)
    BY <2>2, HistRunNow
  <2>3. CASE ~RunNow(s)
    <3>1. /\ UNCHANGED <<calls, turns, disp, faults>>
          /\ \A r \in 1..minted : /\ r \in RunIds
                                  /\ runs'[r].manual = runs[r].manual
                                  /\ runs'[r].status \in {"absent", runs[r].status}
          /\ \A r \in RunIds : r \in 1..minted \/ (r > minted /\ runs'[r].status \in {"absent", "scheduled"})
      BY <2>1, <2>3, ApiRows
    <3> QED BY <3>1, HistApi
  <2> QED BY <2>2, <2>3
<1>4. CASE \E k \in CallIds : ServeCall(k)
  BY <1>4, HistServe
<1>5. CASE ControllerCrash \/ ServerCrash \/ HandOffTimesOut \/ FinishFails
  <2>1. faults' # 0
    BY <1>5 DEF ControllerCrash, ServerCrash, HandOffTimesOut, FinishFails, Fault, SchedInv, TypeOK
  <2> QED BY <2>1 DEF HistInv
<1> QED BY <1>1, <1>2, <1>3, <1>4, <1>5 DEF Next

(* The run history a user reads is exact as long as nothing has crashed,   *)
(* timed out or been rolled back: dispatch and run-now record "failed"     *)
(* only for a run without a turn, and "triggered" for one with its turn,   *)
(* or for a run-now that is still under way.                               *)
THEOREM RunHistoryExact == Spec => []HistoryExact
<1>1. Init => OnceInv /\ HistInv
  <2>1. Init => HistInv
    BY DEF Init, HistInv, LoopTurns, CallTurns, RowTurns, UnderWay, NoCall, IdleLoop, NoRow
  <2> QED BY <2>1, OnceInit
<1>2. SchedInv /\ SchedInv' /\ OnceInv /\ HistInv /\ [Next]_vars => OnceInv' /\ HistInv'
  BY OnceStep, HistStep
<1>3. HistInv => HistoryExact
  BY DEF HistInv, HistoryExact, RowTurns
<1> QED BY <1>1, <1>2, <1>3, SchedulesAgree, PTL DEF Spec
=============================================================================
