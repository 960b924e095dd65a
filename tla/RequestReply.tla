---------------------------- MODULE RequestReply ----------------------------
(***************************************************************************)
(* The Redis request-reply transport between executors: one serving        *)
(* executor (RequestReplyExecutor), callers (redisRequest), and the Redis  *)
(* keys and channel between them.                                          *)
(*                                                                         *)
(* Time is discrete. A Redis round trip takes less than a unit: no unit    *)
(* passes while a heartbeat SET is in flight or a caller is between two of *)
(* its awaits. Message delivery, subscribing and handlers take any time.   *)
(* Executor ids are random per process, so a dead one never comes back.    *)
(***************************************************************************)
EXTENDS Naturals, FiniteSets

CONSTANTS Calls,        \* requests
          Statuses,     \* what a handler may answer
          Interval,     \* heartbeatIntervalMs
          Poll,         \* pollIntervalMs
          FirstWait,    \* the sleep before the first poll
          Timeout,      \* replyTimeoutMs
          ReplyTTL,     \* replyTtlMs
          MaxSetups,    \* bound on concurrent setupSubscriber calls
          MaxFaults     \* bound on drops, failed commands and crashes

\* Names that are not statuses: a status is a number on the wire.
Labels == {"none", "no", "new", "waiting", "failed", "refused", "noResponder",
           "timeout", "idle", "sleep", "publish", "poll", "recheck", "deadline"}

ASSUME TransportAssumption ==
  /\ {Interval, Poll, FirstWait, Timeout, ReplyTTL, MaxSetups} \subseteq Nat \ {0}
  /\ MaxFaults \in Nat
  /\ Statuses \cap Labels = {}

VARIABLES phase,       \* "up", "closing", "draining", "exited", "crashed"
          conn,        \* the subscriber connection: "up", "lost", "ended"
          setups,      \* setupSubscriber calls awaiting their SUBSCRIBE
          listeners,   \* listeners the client library holds for the channel
          subscribed,  \* Redis delivers the channel to this connection
          beating,     \* heartbeatTimer is set
          beatIn,      \* units until it fires
          setting,     \* a heartbeat SET is in flight
          hb,          \* remaining life of the heartbeat key, 0: absent
          message,     \* the published message: "none", "flying", "taken", "lost"
          running,     \* promises in runningRequests still in their handler
          writing,     \* the status of the reply SET in flight
          awaited,     \* requests drain() waits for
          handled,     \* the status the handler produced
          reply, replyLife,  \* the reply key and its remaining life
          caller,      \* where redisRequest stands
          wake, waited,      \* units until its sleep ends, units since publish
          sound,       \* nothing has gone wrong with the executor during the call
          deadFor,     \* units since the process ended
          faults

execVars == <<phase, conn, setups, listeners, subscribed, awaited>>
beatVars == <<beating, beatIn, setting, hb>>
workVars == <<message, running, writing, handled, reply, replyLife>>
callVars == <<caller, wake, waited>>
vars == <<execVars, beatVars, workVars, callVars, sound, deadFor, faults>>

HeartbeatTTL_Interval == Interval
\* Math.ceil(heartbeatIntervalMs * 1.5)
HeartbeatTTL == (3 * Interval + 1) \div 2

Asleep == {"idle", "sleep"}
Over == Statuses \cup {"refused", "noResponder", "timeout"}
Alive == phase \notin {"exited", "crashed"}
Closed == phase # "up"
Fault == faults < MaxFaults /\ faults' = faults + 1
\* Pub/sub messages die with the connection they are on.
Lost == [c \in Calls |-> IF message[c] = "flying" THEN "lost" ELSE message[c]]
Disturbed == sound' = [c \in Calls |-> FALSE]

\* main.ts connects the subscriber, then awaits init().
Init ==
  /\ phase = "up" /\ conn = "up" /\ setups = 1
  /\ listeners = 0 /\ subscribed = FALSE
  /\ beating = FALSE /\ beatIn = 0 /\ setting = FALSE /\ hb = 0
  /\ message = [c \in Calls |-> "none"]
  /\ running = [c \in Calls |-> 0]
  /\ writing = [c \in Calls |-> "none"]
  /\ awaited = {}
  /\ handled = [c \in Calls |-> "no"]
  /\ reply = [c \in Calls |-> "none"] /\ replyLife = [c \in Calls |-> 0]
  /\ caller = [c \in Calls |-> "idle"]
  /\ wake = [c \in Calls |-> 0] /\ waited = [c \in Calls |-> 0]
  /\ sound = [c \in Calls |-> FALSE]
  /\ deadFor = 0 /\ faults = 0

(***************************************************************************)
(* The executor: subscription and heartbeat.                               *)
(***************************************************************************)

StopHeartbeat == beating' = FALSE /\ beatIn' = 0

\* startHeartbeat beats at once, then every interval.
StartHeartbeat ==
  IF Closed THEN StopHeartbeat /\ UNCHANGED setting
  ELSE beating' = TRUE /\ beatIn' = Interval /\ setting' = TRUE

Subscribe_NewListener == listeners' = listeners + 1
\* node-redis keeps one entry per listener reference; subscribeListener is one.
Subscribe == listeners' = 1

SetupDone ==
  /\ Alive /\ setups > 0 /\ conn = "up"
  /\ setups' = setups - 1
  /\ Subscribe
  /\ subscribed' = TRUE
  /\ StartHeartbeat
  /\ UNCHANGED <<phase, conn, awaited, hb, workVars, callVars, sound, deadFor, faults>>

SetupFails ==
  /\ Alive /\ setups > 0
  /\ Fault
  /\ setups' = setups - 1
  /\ StopHeartbeat
  /\ Disturbed
  /\ UNCHANGED <<phase, conn, listeners, subscribed, awaited, setting, hb,
                 workVars, callVars, deadFor>>

BeatFires ==
  /\ Alive /\ beating /\ beatIn = 0
  /\ beatIn' = Interval /\ setting' = TRUE
  /\ UNCHANGED <<beating, hb, execVars, workVars, callVars, sound, deadFor, faults>>

BeatLands ==
  /\ setting
  /\ setting' = FALSE /\ hb' = HeartbeatTTL
  /\ UNCHANGED <<beating, beatIn, execVars, workVars, callVars, sound, deadFor, faults>>

\* A failed beat is logged; the next one comes an interval later.
BeatFails ==
  /\ setting
  /\ Fault
  /\ setting' = FALSE
  /\ Disturbed
  /\ UNCHANGED <<beating, beatIn, hb, execVars, workVars, callVars, deadFor>>

\* The subscriber connection drops ('error'): the heartbeat goes on.
ConnectionDrops ==
  /\ Alive /\ conn = "up"
  /\ Fault
  /\ conn' = "lost" /\ subscribed' = FALSE
  /\ message' = Lost
  /\ Disturbed
  /\ UNCHANGED <<phase, setups, listeners, awaited, beatVars, running, writing,
                 handled, reply, replyLife, callVars, deadFor>>

\* 'ready': the library resubscribes what it holds, setupSubscriber runs again.
Reconnect ==
  /\ Alive /\ conn = "lost"
  /\ conn' = "up"
  /\ subscribed' = (listeners > 0)
  /\ setups' = IF Closed \/ setups = MaxSetups THEN setups ELSE setups + 1
  /\ UNCHANGED <<phase, listeners, awaited, beatVars, workVars, callVars, sound,
                 deadFor, faults>>

\* 'end': the client has stopped reconnecting.
ConnectionEnds ==
  /\ Alive /\ conn = "lost"
  /\ conn' = "ended"
  /\ StopHeartbeat
  /\ UNCHANGED <<phase, setups, listeners, subscribed, awaited, setting, hb,
                 workVars, callVars, sound, deadFor, faults>>

(***************************************************************************)
(* The executor: requests.                                                 *)
(***************************************************************************)

OnMessage_WhenClosed(c) ==
  /\ Alive /\ message[c] = "flying"
  /\ message' = [message EXCEPT ![c] = "taken"]
  /\ running' = [running EXCEPT ![c] = listeners]
  /\ UNCHANGED <<writing, handled, reply, replyLife, execVars, beatVars, callVars,
                 sound, deadFor, faults>>

\* One delivery per listener; a closed executor drops the message.
OnMessage(c) ==
  /\ Alive /\ message[c] = "flying"
  /\ message' = [message EXCEPT ![c] = IF Closed THEN "lost" ELSE "taken"]
  /\ running' = [running EXCEPT ![c] = IF Closed THEN 0 ELSE listeners]
  /\ UNCHANGED <<writing, handled, reply, replyLife, execVars, beatVars, callVars,
                 sound, deadFor, faults>>

\* The handler returns, or its error is turned into a status.
HandlerReturns(c, status) ==
  /\ Alive /\ running[c] > 0 /\ writing[c] = "none"
  /\ running' = [running EXCEPT ![c] = @ - 1]
  /\ handled' = [handled EXCEPT ![c] = status]
  /\ writing' = [writing EXCEPT ![c] = status]
  /\ UNCHANGED <<message, reply, replyLife, execVars, beatVars, callVars, sound,
                 deadFor, faults>>

ReplyLands(c) ==
  /\ writing[c] # "none"
  /\ writing' = [writing EXCEPT ![c] = "none"]
  /\ reply' = [reply EXCEPT ![c] = writing[c]]
  /\ replyLife' = [replyLife EXCEPT ![c] = ReplyTTL]
  /\ UNCHANGED <<message, running, handled, execVars, beatVars, callVars, sound,
                 deadFor, faults>>

ReplyFails(c) ==
  /\ writing[c] # "none"
  /\ Fault
  /\ writing' = [writing EXCEPT ![c] = "none"]
  /\ UNCHANGED <<message, running, handled, reply, replyLife, execVars, beatVars,
                 callVars, sound, deadFor>>

(***************************************************************************)
(* The executor: close and drain (main.ts, on SIGTERM), crash.             *)
(***************************************************************************)

InFlight(c) == running[c] > 0 \/ writing[c] # "none"

CloseStarts ==
  /\ phase = "up"
  /\ phase' = "closing"
  /\ Disturbed
  /\ UNCHANGED <<conn, setups, listeners, subscribed, awaited, beatVars, workVars,
                 callVars, deadFor, faults>>

\* UNSUBSCRIBE answered or failed; then the timer stops and drain() looks at
\* runningRequests.
CloseEnds ==
  /\ phase = "closing"
  /\ phase' = "draining"
  /\ listeners' = 0 /\ subscribed' = FALSE
  /\ StopHeartbeat
  /\ awaited' = {c \in Calls : InFlight(c)}
  /\ UNCHANGED <<conn, setups, setting, hb, workVars, callVars, sound, deadFor,
                 faults>>

\* Every awaited request has settled: the Redis clients close, the process exits.
DrainEnds ==
  /\ phase = "draining"
  /\ \A c \in awaited : ~InFlight(c)
  /\ phase' = "exited"
  /\ subscribed' = FALSE
  /\ message' = Lost
  /\ UNCHANGED <<conn, setups, listeners, awaited, beatVars, running, writing,
                 handled, reply, replyLife, callVars, sound, deadFor, faults>>

Crash ==
  /\ Alive
  /\ Fault
  /\ phase' = "crashed"
  /\ subscribed' = FALSE
  /\ StopHeartbeat
  /\ message' = Lost
  /\ running' = [c \in Calls |-> 0]
  /\ Disturbed
  /\ UNCHANGED <<conn, setups, listeners, awaited, setting, hb, writing, handled,
                 reply, replyLife, callVars, deadFor>>

(***************************************************************************)
(* The caller: redisRequest.                                               *)
(***************************************************************************)

\* Serving, and its last beat has landed: the key is as old as the timer.
Healthy ==
  /\ phase = "up" /\ conn = "up" /\ subscribed
  /\ beating /\ hb > 0 /\ hb + Interval = beatIn + HeartbeatTTL

CallerTo(c, where) == caller' = [caller EXCEPT ![c] = where]
CallerOnly == UNCHANGED <<execVars, beatVars, workVars, wake, waited, sound,
                          deadFor, faults>>

CheckAlive(c) ==
  /\ caller[c] = "idle"
  /\ CallerTo(c, IF hb = 0 THEN "refused" ELSE "publish")
  /\ sound' = [sound EXCEPT ![c] = Healthy]
  /\ UNCHANGED <<execVars, beatVars, workVars, wake, waited, deadFor, faults>>

\* PUBLISH returns the number of subscribers; then the first sleep.
Publish(c) ==
  /\ caller[c] = "publish"
  /\ \/ /\ subscribed
        /\ CallerTo(c, "sleep")
        /\ message' = [message EXCEPT ![c] = "flying"]
        /\ wake' = [wake EXCEPT ![c] = FirstWait]
     \/ /\ ~subscribed
        /\ CallerTo(c, "refused")
        /\ UNCHANGED <<message, wake>>
  /\ UNCHANGED <<execVars, beatVars, running, writing, handled, reply, replyLife,
                 waited, sound, deadFor, faults>>

WakeUp(c) ==
  /\ caller[c] = "sleep" /\ wake[c] = 0
  /\ CallerTo(c, "poll")
  /\ CallerOnly

GetDelReply(c) ==
  /\ caller[c] = "poll"
  /\ CallerTo(c, IF reply[c] = "none" THEN "recheck" ELSE reply[c])
  /\ reply' = [reply EXCEPT ![c] = "none"]
  /\ replyLife' = [replyLife EXCEPT ![c] = 0]
  /\ UNCHANGED <<message, running, writing, handled, execVars, beatVars, wake,
                 waited, sound, deadFor, faults>>

Recheck_Skipped(c) ==
  /\ caller[c] = "recheck"
  /\ CallerTo(c, "deadline")
  /\ CallerOnly

Recheck(c) ==
  /\ caller[c] = "recheck"
  /\ CallerTo(c, IF hb = 0 THEN "noResponder" ELSE "deadline")
  /\ CallerOnly

Deadline_Never(c) ==
  /\ caller[c] = "deadline"
  /\ CallerTo(c, "sleep")
  /\ wake' = [wake EXCEPT ![c] = Poll]
  /\ UNCHANGED <<execVars, beatVars, workVars, waited, sound, deadFor, faults>>

Deadline(c) ==
  /\ caller[c] = "deadline"
  /\ IF waited[c] >= Timeout
     THEN CallerTo(c, "timeout") /\ UNCHANGED wake
     ELSE CallerTo(c, "sleep") /\ wake' = [wake EXCEPT ![c] = Poll]
  /\ UNCHANGED <<execVars, beatVars, workVars, waited, sound, deadFor, faults>>

(***************************************************************************)
(* Time.                                                                   *)
(***************************************************************************)

Less(n) == IF n = 0 THEN 0 ELSE n - 1
Capped(n, bound) == IF n < bound THEN n + 1 ELSE bound

Tick ==
  /\ ~setting
  /\ beating => beatIn > 0
  /\ \A c \in Calls : caller[c] \in Asleep \cup Over /\ (caller[c] = "sleep" => wake[c] > 0)
  /\ beatIn' = Less(beatIn)
  /\ hb' = Less(hb)
  /\ wake' = [c \in Calls |-> Less(wake[c])]
  /\ waited' = [c \in Calls |->
       IF caller[c] = "sleep" THEN Capped(waited[c], Timeout) ELSE waited[c]]
  /\ replyLife' = [c \in Calls |-> Less(replyLife[c])]
  /\ reply' = [c \in Calls |-> IF replyLife[c] <= 1 THEN "none" ELSE reply[c]]
  /\ deadFor' = IF Alive THEN 0 ELSE Capped(deadFor, HeartbeatTTL + Poll + 1)
  /\ UNCHANGED <<execVars, beating, setting, message, running, writing, handled,
                 caller, sound, faults>>

ExecutorStep ==
  \/ SetupDone \/ SetupFails \/ BeatFires \/ BeatLands \/ BeatFails
  \/ ConnectionDrops \/ Reconnect \/ ConnectionEnds
  \/ CloseStarts \/ CloseEnds \/ DrainEnds \/ Crash
  \/ \E c \in Calls : OnMessage(c) \/ ReplyLands(c) \/ ReplyFails(c)
  \/ \E c \in Calls, status \in Statuses : HandlerReturns(c, status)

CallerStep(c) ==
  \/ Publish(c) \/ WakeUp(c) \/ GetDelReply(c) \/ Recheck(c) \/ Deadline(c)

Next == ExecutorStep \/ Tick \/ \E c \in Calls : CheckAlive(c) \/ CallerStep(c)

Spec == Init /\ [][Next]_vars

\* Time passes, timers fire, commands settle, a caller's own steps run. Nothing
\* is assumed of messages, handlers, reply writes or the connection.
FairSpec ==
  /\ Spec
  /\ WF_vars(Tick) /\ WF_vars(BeatFires) /\ WF_vars(BeatLands \/ BeatFails)
  /\ \A c \in Calls : WF_vars(CallerStep(c))

(***************************************************************************)
(* Properties.                                                             *)
(***************************************************************************)

FlagsOK ==
  /\ subscribed \in BOOLEAN /\ beating \in BOOLEAN /\ setting \in BOOLEAN
  /\ sound \in [Calls -> BOOLEAN]

ExecTypeOK ==
  /\ phase \in {"up", "closing", "draining", "exited", "crashed"}
  /\ conn \in {"up", "lost", "ended"}
  /\ setups \in 0..MaxSetups
  /\ listeners \in 0..1
  /\ awaited \subseteq Calls

BeatTypeOK ==
  /\ beatIn \in 0..Interval
  /\ hb \in 0..HeartbeatTTL

WorkTypeOK ==
  /\ message \in [Calls -> {"none", "flying", "taken", "lost"}]
  /\ running \in [Calls -> 0..1]
  /\ writing \in [Calls -> Statuses \cup {"none"}]
  /\ handled \in [Calls -> Statuses \cup {"no"}]
  /\ reply \in [Calls -> Statuses \cup {"none"}]
  /\ replyLife \in [Calls -> 0..ReplyTTL]

CallTypeOK ==
  /\ caller \in [Calls -> Over \cup Asleep \cup {"publish", "poll", "recheck", "deadline"}]
  /\ waited \in [Calls -> 0..Timeout]

\* Type correctness: one listener and one handler per request among it.
TypeOK ==
  /\ FlagsOK /\ ExecTypeOK /\ BeatTypeOK /\ WorkTypeOK /\ CallTypeOK
  /\ faults \in 0..MaxFaults

\* A caller is turned away (heartbeat gone, nobody subscribed) only when
\* something has happened to the executor during the call: the heartbeat of an
\* undisturbed one never lapses between two beats.
HealthyNeverRefused ==
  \A c \in Calls : caller[c] \in {"refused", "noResponder"} => ~sound[c]

\* "Recheck here so we fail soon instead of waiting until the timeout": nobody
\* waits for a dead process longer than its heartbeat key can live plus a poll.
DeadDetectedSoon ==
  deadFor > HeartbeatTTL + Poll =>
    \A c \in Calls : caller[c] \in {"idle"} \cup Over

\* A graceful exit leaves no request half served: what was taken from the
\* channel has been answered, and what arrives during close() is not taken.
DrainAnswersAll ==
  phase = "exited" => \A c \in Calls : ~InFlight(c)

\* Once close() has returned no timer keeps the heartbeat alive, also when a
\* SUBSCRIBE was in flight: callers of a closed executor fail fast.
ClosedGoesQuiet == phase \in {"draining", "exited"} => ~beating

\* A call as the cancel endpoint sees it.
CallOf(where) ==
  CASE where \in {"idle", "publish"}        -> "new"
    [] where \in {"noResponder", "timeout"} -> "failed"
    [] where \in Statuses \cup {"refused"}  -> where
    [] OTHER                                -> "waiting"
Channel == INSTANCE PeerCall WITH call <- [c \in Calls |-> CallOf(caller[c])]

\* The transport is the channel the cancel endpoint assumes: handled at most
\* once, answered by its handler, never handled when refused.
ImplementsPeerCall == Channel!Spec

\* Every request ends, whatever the executor does.
CallsEnd == \A c \in Calls : caller[c] = "sleep" ~> caller[c] \in Over
=============================================================================
