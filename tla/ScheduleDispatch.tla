--------------------------- MODULE ScheduleDispatch ---------------------------
(***************************************************************************)
(* Schedules and their runs: the schedule API, the dispatch loop of the    *)
(* controller, the HTTP hand-off to the server that executes a run, and    *)
(* run-now.  A schedule has at most one pending ("scheduled") run.         *)
(* Dispatch hands a due run to the server and, in one transaction, records *)
(* it and adds the schedule's next run.                                    *)
(*                                                                         *)
(* Run ids and hand-off calls are numbered as they are minted.  A deleted  *)
(* row keeps its schedule and its time, which a dispatch pass that read it *)
(* before still holds.  A session is keyed by the run's id (external_id)   *)
(* and outlives the row.                                                   *)
(***************************************************************************)
EXTENDS Integers, FiniteSets, FiniteSetsExt

CONSTANTS Schedules,
          Crons,       \* cron expressions, with their timezone
          Triggers,    \* Triggers[c]: the trigger times of c
          BatchLimit,  \* DISPATCH_BATCH_LIMIT
          MaxRetries,  \* retries of the HTTP client on a 5xx
          Standalone,  \* controller and server are one process
          MayRunNow,   \* clients trigger runs by hand
          MaxTime,     \* bound on the clock
          MaxWrites,   \* bound on schedule writes by clients
          MaxRuns,     \* bound on run rows
          MaxCalls,    \* bound on hand-offs
          MaxStops,    \* bound on graceful stops of the controller
          MaxFaults    \* bound on crashes, time-outs and failed transactions

ASSUME ScheduleAssumption ==
  /\ Triggers \in [Crons -> SUBSET Nat]
  /\ {MaxRetries, MaxTime, MaxWrites, MaxRuns, MaxCalls, MaxStops,
      MaxFaults} \subseteq Nat
  /\ BatchLimit \in Nat \ {0}
  /\ {Standalone, MayRunNow} \subseteq BOOLEAN

VARIABLES now,
          sched,     \* schedule rows
          runs,      \* schedule_run rows
          minted,    \* run ids used so far
          sessions,  \* runs whose session exists
          turns,     \* turns in the session of a run
          disp,      \* the dispatch loop
          calls,     \* hand-offs, as the server handles them
          made,      \* hand-offs so far
          stopping,  \* Controller.stop was called
          writes, stops, faults

vars == <<now, sched, runs, minted, sessions, turns, disp, calls, made,
          stopping, writes, stops, faults>>
apiVars == <<sched, writes>>
loopVars == <<disp, stopping, stops>>
callVars == <<calls, made>>
execVars == <<sessions, turns>>

RunIds == 1..MaxRuns
CallIds == 1..MaxCalls
NoCron == "none"
NoSchedule == "none"

NoRow == [schedule |-> NoSchedule, due |-> 0, manual |-> FALSE,
          status |-> "absent", session |-> FALSE]
NoCall == [pc |-> "none", run |-> 0, manual |-> FALSE]
IdleLoop == [pc |-> "idle", clock |-> 0, batch |-> {}, run |-> 0,
             call |-> 0, tries |-> 0, outcome |-> "none"]

(* A call is under way, or has answered: "ok" is 204, "404" and "500" are  *)
(* what the client throws on, "dead" a connection that was lost.           *)
Answers == {"ok", "404", "500", "dead"}
CallPCs == {"none", "load", "session", "link", "check", "start", "mark"}
             \cup Answers
LoopPCs == {"idle", "pass", "handing", "waiting", "finishing", "down"}

Exists(s) == sched[s].status \in {"active", "paused"}
RowsOf(s) == {r \in RunIds : runs[r].status # "absent" /\ runs[r].schedule = s}
Pending(s) == {r \in RowsOf(s) : runs[r].status = "scheduled"}
Due == {r \in RunIds : runs[r].status = "scheduled" /\ runs[r].due <= now}
UnderWay(k) == calls[k].pc \notin Answers \cup {"none"}

-----------------------------------------------------------------------------
Later_Inclusive(c, from) == {t \in Triggers[c] : t >= from}

(* nextTriggerAfter: strictly later than from; InvalidCronError otherwise. *)
Later(c, from) == {t \in Triggers[c] : t > from}
HasNext(c, from) == Later(c, from) # {}
NextTriggerAfter(c, from) == Min(Later(c, from))

(* The unique indexes schedule_run_name_idx (a cron run is named after its *)
(* trigger time) and schedule_run_pending_uq reject an insert among rows.  *)
Rejected(rows, s, due) ==
  \E r \in RunIds :
    /\ rows[r].schedule = s /\ rows[r].status # "absent" /\ ~rows[r].manual
    /\ rows[r].due = due \/ rows[r].status = "scheduled"

(* createRun *)
CreateRun(rows, s, due, manual) ==
  [rows EXCEPT ![minted + 1] =
     [schedule |-> s, due |-> due, manual |-> manual, session |-> FALSE,
      status |-> IF manual THEN "triggered" ELSE "scheduled"]]

(* The rows left when those of rs are deleted *)
Without(rs) ==
  [r \in RunIds |-> IF r \in rs THEN [runs[r] EXCEPT !.status = "absent"]
                                ELSE runs[r]]

(* The rows left when the pending run of s is deleted *)
DropPending(s) == Without(Pending(s))

(* syncPendingRun: clear the pending run; an active schedule gets a fresh  *)
(* one, for the first trigger after the handler's clock.  When an index    *)
(* rejects it the write is rolled back and the client told to retry (409). *)
SyncPendingRun(s, c, status, from) ==
  LET rows == DropPending(s)
      due  == NextTriggerAfter(c, from)
  IN  \/ status = "paused" /\ runs' = rows /\ UNCHANGED minted
      \/ /\ status = "active"
         /\ minted < MaxRuns /\ ~Rejected(rows, s, due)
         /\ runs' = CreateRun(rows, s, due, FALSE)
         /\ minted' = minted + 1

-----------------------------------------------------------------------------
(* The schedule API *)
ClientWrite == writes < MaxWrites /\ writes' = writes + 1

(* createHandler: validateManifest, then createScheduleAndRun.  The clock  *)
(* (runFrom) is read before the transaction's queries: from is that time.  *)
CreateSchedule(s, c, status, from) ==
  /\ ClientWrite
  /\ sched[s].status = "absent"
  /\ HasNext(c, from)
  /\ sched' = [sched EXCEPT ![s] =
                 [status |-> status, cron |-> c, since |-> now]]
  /\ SyncPendingRun(s, c, status, from)
  /\ UNCHANGED <<now, loopVars, callVars, execVars, faults>>

ShouldSync_CronOnly(old, new) == old.cron # new.cron

(* shouldSyncPendingRun *)
ShouldSync(old, new) == old.status # new.status \/ old.cron # new.cron

(* putHandler and updateScheduleAndRun: pause, resume, change the cron.    *)
(* The handler reads its clock (from) and then waits for the row's lock,   *)
(* behind a dispatch that may record the very run it is about to add.      *)
PutSchedule(s, c, status, from) ==
  LET new == [status |-> status, cron |-> c, since |-> sched[s].since] IN
  /\ ClientWrite
  /\ Exists(s)
  /\ from \in sched[s].since..now
  /\ HasNext(c, from)
  /\ sched' = [sched EXCEPT ![s] = new]
  /\ \/ ShouldSync(sched[s], new) /\ SyncPendingRun(s, c, status, from)
     \/ ~ShouldSync(sched[s], new) /\ UNCHANGED <<runs, minted>>
  /\ UNCHANGED <<now, execVars, loopVars, callVars, faults>>

(* deleteHandler: the run rows go with the schedule. *)
DeleteSchedule(s) ==
  /\ ClientWrite
  /\ Exists(s)
  /\ sched' = [sched EXCEPT ![s].status = "deleted", ![s].cron = NoCron]
  /\ runs' = Without(RowsOf(s))
  /\ UNCHANGED <<now, minted, loopVars, callVars, execVars, faults>>

(* createScheduleRunHandler: record a triggered run, then execute it here. *)
RunNow(s) ==
  /\ MayRunNow
  /\ ClientWrite
  /\ Exists(s)
  /\ minted < MaxRuns /\ made < MaxCalls
  /\ runs' = CreateRun(runs, s, now, TRUE)
  /\ minted' = minted + 1
  /\ calls' = [calls EXCEPT ![made + 1] =
                 [pc |-> "session", run |-> minted + 1, manual |-> TRUE]]
  /\ made' = made + 1
  /\ UNCHANGED <<now, sched, loopVars, execVars, faults>>

-----------------------------------------------------------------------------
(* The dispatch loop.  One clock per pass selects the due runs, oldest     *)
(* first and at most BatchLimit; an empty pass changes nothing.            *)
StartPass ==
  /\ disp.pc = "idle" /\ ~stopping
  /\ Due # {}
  /\ \E b \in SUBSET Due :
       /\ Cardinality(b) = Min({BatchLimit, Cardinality(Due)})
       /\ \A r \in b, q \in Due \ b : runs[r].due <= runs[q].due
       /\ disp' = [IdleLoop EXCEPT !.pc = "pass", !.clock = now, !.batch = b]
  /\ UNCHANGED <<now, apiVars, runs, minted, execVars, callVars, stopping,
                 stops, faults>>

LoopStep(d) ==
  /\ disp' = d
  /\ UNCHANGED <<now, apiVars, runs, minted, execVars, stopping, stops, faults>>

(* dispatchScheduledRuns takes the next run and re-reads its schedule: the *)
(* run of a deleted schedule is skipped, a paused one's is not.            *)
TakeRun ==
  /\ disp.pc = "pass" /\ ~stopping
  /\ \E r \in disp.batch :
       /\ \A q \in disp.batch : runs[r].due <= runs[q].due
       /\ LoopStep([disp EXCEPT
            !.batch = @ \ {r}, !.run = r, !.tries = 0,
            !.pc = IF Exists(runs[r].schedule) THEN "handing" ELSE "pass"])
  /\ UNCHANGED callVars

(* The pass is over, or the abort signal breaks the loop. *)
EndPass ==
  /\ disp.pc = "pass"
  /\ disp.batch = {} \/ stopping
  /\ LoopStep(IdleLoop)
  /\ UNCHANGED callVars

Outcome(status) == [disp EXCEPT !.pc = "finishing", !.outcome = status]

(* executeScheduleRun: POST to the server.  A standalone server that is    *)
(* shutting down no longer accepts connections.                            *)
HandOff ==
  /\ disp.pc = "handing"
  /\ \/ /\ ~(Standalone /\ stopping)
        /\ made < MaxCalls
        /\ calls' = [calls EXCEPT ![made + 1] =
                       [pc |-> "load", run |-> disp.run, manual |-> FALSE]]
        /\ made' = made + 1
        /\ LoopStep([disp EXCEPT !.pc = "waiting", !.call = made + 1])
     \/ /\ Standalone /\ stopping
        /\ LoopStep(Outcome("failed"))
        /\ UNCHANGED callVars

(* The answer arrives.  requestWithRetries repeats the request on a 5xx;   *)
(* any other error makes the hand-off throw.                               *)
TakeAnswer ==
  LET answer == calls[disp.call].pc
      again  == answer = "500" /\ disp.tries < MaxRetries
  IN
  /\ disp.pc = "waiting"
  /\ answer \in Answers
  /\ LoopStep(IF answer = "ok" THEN Outcome("triggered")
              ELSE IF again
                   THEN [disp EXCEPT !.pc = "handing", !.tries = @ + 1]
                   ELSE Outcome("failed"))
  /\ UNCHANGED callVars

(* The run's row with the outcome recorded *)
Recorded == [runs EXCEPT ![disp.run].status = disp.outcome]

(* Whether the finish transaction adds a run, and for when: the schedule   *)
(* is re-read inside it, and the clock of the pass anchors the cron.       *)
AdvanceFrom == Max({runs[disp.run].due, disp.clock})
Advances ==
  LET s == sched[runs[disp.run].schedule]
  IN  s.status = "active" /\ HasNext(s.cron, AdvanceFrom)
NextDue == NextTriggerAfter(sched[runs[disp.run].schedule].cron, AdvanceFrom)

(* finishScheduledRun: record the outcome and add the next run, or nothing *)
(* when the row is gone.  A rejected insert would roll both back: there is *)
(* none, see OnlyStaleWritesRejected.                                      *)
FinishScheduledRun ==
  LET s == runs[disp.run].schedule IN
  /\ disp.pc = "finishing"
  /\ \/ /\ runs[disp.run].status = "absent"
        /\ UNCHANGED <<runs, minted>>
     \/ /\ runs[disp.run].status # "absent" /\ ~Advances
        /\ runs' = Recorded
        /\ UNCHANGED minted
     \/ /\ runs[disp.run].status # "absent" /\ Advances
        /\ ~Rejected(Recorded, s, NextDue)
        /\ minted < MaxRuns
        /\ runs' = CreateRun(Recorded, s, NextDue, FALSE)
        /\ minted' = minted + 1
  /\ disp' = [disp EXCEPT !.pc = "pass"]
  /\ UNCHANGED <<now, apiVars, execVars, callVars, stopping, stops, faults>>

(* Controller.stop aborts the signal and waits for the pass; then the      *)
(* process exits.                                                          *)
Stop ==
  /\ ~stopping /\ disp.pc # "down"
  /\ stops < MaxStops /\ stops' = stops + 1
  /\ stopping' = TRUE
  /\ UNCHANGED <<now, apiVars, runs, minted, execVars, callVars, disp, faults>>

Exit ==
  /\ stopping /\ disp.pc = "idle"
  /\ LoopStep([IdleLoop EXCEPT !.pc = "down"])
  /\ UNCHANGED callVars

Restart_KeepsSignal ==
  /\ disp.pc = "down"
  /\ disp' = IdleLoop
  /\ UNCHANGED <<now, apiVars, runs, minted, execVars, callVars, stopping,
                 stops, faults>>

(* Controller.start: an immediate first pass of a new process. *)
Restart ==
  /\ disp.pc = "down"
  /\ disp' = IdleLoop
  /\ stopping' = FALSE
  /\ UNCHANGED <<now, apiVars, runs, minted, execVars, callVars, stops, faults>>

-----------------------------------------------------------------------------
(* The server's side of a hand-off *)
Goto(k, l) == calls' = [calls EXCEPT ![k].pc = l]
CallStep(k, at) ==
  /\ calls[k].pc = at
  /\ UNCHANGED <<now, apiVars, minted, made, loopVars, faults>>

(* loadScheduleDispatchItem *)
LoadItem(k) ==
  /\ CallStep(k, "load")
  /\ Goto(k, IF runs[calls[k].run].status = "absent" THEN "404" ELSE "session")
  /\ UNCHANGED <<runs, execVars>>

(* A failure: run-now records it on its own run before it answers. *)
Fails(k, answer) == Goto(k, IF calls[k].manual THEN "mark" ELSE answer)

(* startScheduleRun: the agent, then getOrCreateByExternalId. *)
OpenSession(k) ==
  /\ CallStep(k, "session")
  /\ \/ /\ sessions' = sessions \cup {calls[k].run}
        /\ Goto(k, "link")
     \/ Fails(k, "404") /\ UNCHANGED sessions
  /\ UNCHANGED <<runs, turns>>

(* updateRun with the session's id; a deleted row is not there to update. *)
LinkSession(k) ==
  /\ CallStep(k, "link")
  /\ runs' = [runs EXCEPT ![calls[k].run].session =
                IF runs[calls[k].run].status = "absent" THEN @ ELSE TRUE]
  /\ Goto(k, "check")
  /\ UNCHANGED execVars

CheckTurns_Skipped(k) ==
  /\ CallStep(k, "check")
  /\ Goto(k, "start")
  /\ UNCHANGED <<runs, execVars>>

(* The idempotency check: listTurns *)
CheckTurns(k) ==
  /\ CallStep(k, "check")
  /\ Goto(k, IF turns[calls[k].run] > 0 THEN "ok" ELSE "start")
  /\ UNCHANGED <<runs, execVars>>

(* startTurnInProcess: creates the turn, or throws before it is durable. *)
StartTurn(k) ==
  /\ CallStep(k, "start")
  /\ \/ /\ turns' = [turns EXCEPT ![calls[k].run] = @ + 1]
        /\ Goto(k, "ok")
     \/ Fails(k, "500") /\ UNCHANGED turns
  /\ UNCHANGED <<runs, sessions>>

MarkFailed_Skipped(k) ==
  /\ CallStep(k, "mark")
  /\ Goto(k, "500")
  /\ UNCHANGED <<runs, execVars>>

(* createScheduleRunHandler's catch: updateRun with status failed *)
MarkFailed(k) ==
  /\ CallStep(k, "mark")
  /\ runs' = [runs EXCEPT ![calls[k].run].status =
                IF @ = "absent" THEN @ ELSE "failed"]
  /\ Goto(k, "500")
  /\ UNCHANGED execVars

ServeCall(k) ==
  \/ LoadItem(k) \/ OpenSession(k) \/ LinkSession(k) \/ CheckTurns(k)
  \/ StartTurn(k) \/ MarkFailed(k)

-----------------------------------------------------------------------------
(* Faults *)
Fault == faults < MaxFaults /\ faults' = faults + 1
Killed == [k \in CallIds |-> IF UnderWay(k) THEN [calls[k] EXCEPT !.pc = "dead"]
                                            ELSE calls[k]]

(* The controller's process dies, in standalone mode with the server. *)
ControllerCrash ==
  /\ Fault
  /\ disp.pc # "down"
  /\ disp' = [IdleLoop EXCEPT !.pc = "down"]
  /\ calls' = IF Standalone THEN Killed ELSE calls
  /\ UNCHANGED <<now, apiVars, runs, minted, execVars, made, stopping, stops>>

(* A server replica dies with the requests it was serving. *)
ServerCrash ==
  /\ Fault
  /\ ~Standalone
  /\ Killed # calls /\ calls' = Killed
  /\ UNCHANGED <<now, apiVars, runs, minted, execVars, made, loopVars>>

(* timeoutInSeconds of the client; the server goes on with the request. *)
HandOffTimesOut ==
  /\ Fault
  /\ disp.pc = "waiting" /\ UnderWay(disp.call)
  /\ disp' = Outcome("failed")
  /\ UNCHANGED <<now, apiVars, runs, minted, execVars, callVars, stopping, stops>>

(* The finish transaction fails; the pass logs it and goes on. *)
FinishFails ==
  /\ Fault
  /\ disp.pc = "finishing"
  /\ disp' = [disp EXCEPT !.pc = "pass"]
  /\ UNCHANGED <<now, apiVars, runs, minted, execVars, callVars, stopping, stops>>

Tick ==
  /\ now < MaxTime
  /\ now' = now + 1
  /\ UNCHANGED <<apiVars, runs, minted, execVars, loopVars, callVars, faults>>

-----------------------------------------------------------------------------
Init ==
  /\ now = 0
  /\ sched = [s \in Schedules |-> [status |-> "absent", cron |-> NoCron, since |-> 0]]
  /\ runs = [r \in RunIds |-> NoRow]
  /\ minted = 0
  /\ sessions = {}
  /\ turns = [r \in RunIds |-> 0]
  /\ disp = IdleLoop
  /\ calls = [k \in CallIds |-> NoCall]
  /\ made = 0
  /\ stopping = FALSE
  /\ writes = 0 /\ stops = 0 /\ faults = 0

Dispatch ==
  \/ StartPass \/ TakeRun \/ EndPass \/ HandOff \/ TakeAnswer
  \/ FinishScheduledRun \/ Exit \/ Restart

Next ==
  \/ Tick \/ Dispatch \/ Stop
  \/ \E s \in Schedules :
       \/ \E c \in Crons, status \in {"active", "paused"}, from \in 0..now :
            \/ CreateSchedule(s, c, status, from)
            \/ PutSchedule(s, c, status, from)
       \/ DeleteSchedule(s) \/ RunNow(s)
  \/ \E k \in CallIds : ServeCall(k)
  \/ ControllerCrash \/ ServerCrash \/ HandOffTimesOut \/ FinishFails

Spec == Init /\ [][Next]_vars

(* The loop's timer fires, a process that went down is started again, the  *)
(* server serves what it accepted.                                         *)
FairSpec ==
  /\ Spec
  /\ WF_vars(Dispatch)
  /\ \A k \in CallIds : WF_vars(ServeCall(k))

-----------------------------------------------------------------------------
Rows == [schedule : Schedules \cup {NoSchedule}, due : Nat, manual : BOOLEAN,
         status : {"absent", "scheduled", "triggered", "failed"},
         session : BOOLEAN]

(* Type invariant: schedule and run rows, the loop and the hand-offs. *)
TypeOK ==
  /\ now \in Nat /\ minted \in 0..MaxRuns /\ made \in 0..MaxCalls
  /\ sched \in [Schedules -> [status : {"absent", "active", "paused", "deleted"},
                              cron : Crons \cup {NoCron}, since : Nat]]
  /\ runs \in [RunIds -> Rows]
  /\ sessions \subseteq RunIds
  /\ turns \in [RunIds -> Nat]
  /\ disp \in [pc : LoopPCs, clock : Nat, batch : SUBSET RunIds,
               run : 0..MaxRuns, call : 0..MaxCalls, tries : Nat,
               outcome : {"none", "triggered", "failed"}]
  /\ calls \in [CallIds -> [pc : CallPCs, run : 0..MaxRuns, manual : BOOLEAN]]
  /\ stopping \in BOOLEAN
  /\ writes \in Nat /\ stops \in Nat /\ faults \in Nat

(* An active schedule has its one pending run, whatever pauses, resumes,   *)
(* cron changes and dispatch do to it in between: it never goes silent and *)
(* never doubles.  A schedule that is not active has none.                 *)
PendingMatchesStatus ==
  \A s \in Schedules :
    IF sched[s].status = "active"
    THEN /\ Cardinality(Pending(s)) <= 1
         /\ HasNext(sched[s].cron, now) => Pending(s) # {}
    ELSE Pending(s) = {}

(* The unique indexes never reject dispatch's next run, so no outcome of a *)
(* hand-off is rolled back with it.  A client's write is rejected only     *)
(* when the trigger it computed passed while it waited for the lock: the   *)
(* retry that the 409 asks for, with a fresh clock, is accepted.           *)
OnlyStaleWritesRejected ==
  /\ disp.pc = "finishing" /\ runs[disp.run].status # "absent" /\ Advances =>
       ~Rejected(Recorded, runs[disp.run].schedule, NextDue)
  /\ \A s \in Schedules, c \in Crons, from \in 0..now :
       HasNext(c, from) /\ Rejected(DropPending(s), s, NextTriggerAfter(c, from))
         => NextTriggerAfter(c, from) <= now

(* startScheduleRun: idempotent on retry, so a run starts one turn. *)
StartedOnce == \A r \in RunIds : turns[r] <= 1

(* Without faults the history is exact: a run-now that is no longer under  *)
(* way has started a turn or says failed, and a failed run has not run.    *)
HistoryExact ==
  faults = 0 => \A r \in RunIds :
    /\ runs[r].status = "failed" => turns[r] = 0
    /\ runs[r].status = "triggered" =>
         turns[r] = 1 \/ \E k \in CallIds : calls[k].run = r /\ UnderWay(k)

(* A due run is dispatched, marked failed or deleted: it is not forgotten, *)
(* whatever stops, crashes and failed transactions delay it.               *)
DueRunsSettle ==
  \A r \in RunIds :
    runs[r].status = "scheduled" /\ runs[r].due <= now
      ~> runs[r].status # "scheduled"
=============================================================================
