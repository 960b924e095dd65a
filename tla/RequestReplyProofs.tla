------------------------- MODULE RequestReplyProofs -------------------------
(***************************************************************************)
(* Theorems about RequestReply, for any timing parameters and any number   *)
(* of requests. The inductive invariant IInv adds to the properties what   *)
(* keeps the heartbeat ahead of its expiry and where a request can be.     *)
(***************************************************************************)
EXTENDS RequestReply, TLAPS

\* No unit passes while a beat is being written, so the timer still stands at
\* the interval when it lands.
BeatFresh == setting /\ beating => beatIn = Interval

\* The key of an undisturbed executor is as old as its timer, or is just being
\* renewed; either way it exists.
Ahead ==
  \A c \in Calls : sound[c] =>
    /\ phase = "up" /\ conn = "up" /\ subscribed /\ beating /\ hb > 0
    /\ setting \/ hb + Interval = beatIn + HeartbeatTTL

\* A request is published once, then handled at most once, and what is written
\* or read as its reply is what the handler returned.
Unsent == {"idle", "publish", "refused"}
RequestInv(c) ==
  /\ message[c] = "none" <=> caller[c] \in Unsent
  /\ message[c] \in {"none", "flying", "lost"} => running[c] = 0 /\ handled[c] = "no"
  /\ running[c] > 0 => handled[c] = "no"
  /\ handled[c] = "no" => writing[c] = "none" /\ reply[c] = "none"
  /\ writing[c] # "none" => writing[c] = handled[c]
  /\ reply[c] # "none" => reply[c] = handled[c]
  /\ caller[c] \in Statuses => handled[c] # "no"
Requests == \A c \in Calls : RequestInv(c)

\* drain() waits for everything in flight.
Awaits == phase = "draining" => \A c \in Calls : InFlight(c) => c \in awaited

IInv ==
  /\ TypeOK /\ BeatFresh /\ Ahead /\ Requests /\ Awaits
  /\ HealthyNeverRefused /\ ClosedGoesQuiet /\ DrainAnswersAll

(***************************************************************************)
(* Arithmetic of the heartbeat.                                            *)
(***************************************************************************)

\* ceil(1.5 * interval) is longer than the interval.
LEMMA TTLFact == HeartbeatTTL \in Nat /\ HeartbeatTTL > Interval
  BY TransportAssumption DEF HeartbeatTTL

(***************************************************************************)
(* Type correctness, part by part.                                         *)
(***************************************************************************)

\* The flags stay Boolean.
LEMMA FlagsStep ==
  FlagsOK /\ [Next]_vars => FlagsOK'
<1> SUFFICES ASSUME FlagsOK, [Next]_vars PROVE FlagsOK'
  OBVIOUS
<1> USE TransportAssumption, TTLFact DEF FlagsOK, execVars, beatVars, Disturbed, StopHeartbeat, StartHeartbeat, CallerOnly, Healthy
<1>1. CASE SetupDone
  BY <1>1 DEF SetupDone
<1>2. CASE SetupFails
  BY <1>2 DEF SetupFails
<1>3. CASE BeatFires
  BY <1>3 DEF BeatFires
<1>4. CASE BeatLands
  BY <1>4 DEF BeatLands
<1>5. CASE BeatFails
  BY <1>5 DEF BeatFails
<1>6. CASE ConnectionDrops
  BY <1>6 DEF ConnectionDrops
<1>7. CASE Reconnect
  BY <1>7 DEF Reconnect
<1>8. CASE ConnectionEnds
  BY <1>8 DEF ConnectionEnds
<1>9. CASE CloseStarts
  BY <1>9 DEF CloseStarts
<1>10. CASE CloseEnds
  BY <1>10 DEF CloseEnds
<1>11. CASE DrainEnds
  BY <1>11 DEF DrainEnds
<1>12. CASE Crash
  BY <1>12 DEF Crash
<1>13. CASE Tick
  BY <1>13 DEF Tick
<1>14. ASSUME NEW c \in Calls, OnMessage(c) PROVE FlagsOK'
  BY <1>14 DEF OnMessage
<1>15. ASSUME NEW c \in Calls, ReplyLands(c) PROVE FlagsOK'
  BY <1>15 DEF ReplyLands
<1>16. ASSUME NEW c \in Calls, ReplyFails(c) PROVE FlagsOK'
  BY <1>16 DEF ReplyFails
<1>17. ASSUME NEW c \in Calls, CheckAlive(c) PROVE FlagsOK'
  BY <1>17 DEF CheckAlive
<1>18. ASSUME NEW c \in Calls, Publish(c) PROVE FlagsOK'
  BY <1>18 DEF Publish
<1>19. ASSUME NEW c \in Calls, WakeUp(c) PROVE FlagsOK'
  BY <1>19 DEF WakeUp
<1>20. ASSUME NEW c \in Calls, GetDelReply(c) PROVE FlagsOK'
  BY <1>20 DEF GetDelReply
<1>21. ASSUME NEW c \in Calls, Recheck(c) PROVE FlagsOK'
  BY <1>21 DEF Recheck
<1>22. ASSUME NEW c \in Calls, Deadline(c) PROVE FlagsOK'
  BY <1>22 DEF Deadline
<1>23. ASSUME NEW c \in Calls, NEW s \in Statuses, HandlerReturns(c, s)
       PROVE FlagsOK'
  BY <1>23 DEF HandlerReturns
<1>24. CASE UNCHANGED vars
  BY <1>24 DEF vars
<1> QED
  BY <1>1, <1>2, <1>3, <1>4, <1>5, <1>6, <1>7, <1>8, <1>9, <1>10, <1>11, <1>12, <1>13,
     <1>14, <1>15, <1>16, <1>17, <1>18, <1>19, <1>20, <1>21, <1>22, <1>23, <1>24
     DEF Next, ExecutorStep, CallerStep

\* The executor stays in its states, with one listener however often it
\* subscribes.
LEMMA ExecTypeStep ==
  ExecTypeOK /\ [Next]_vars => ExecTypeOK'
<1> SUFFICES ASSUME ExecTypeOK, [Next]_vars PROVE ExecTypeOK'
  OBVIOUS
<1> USE TransportAssumption, TTLFact DEF ExecTypeOK, execVars, CallerOnly, Subscribe
<1>1. CASE SetupDone
  BY <1>1 DEF SetupDone
<1>2. CASE SetupFails
  BY <1>2 DEF SetupFails
<1>3. CASE BeatFires
  BY <1>3 DEF BeatFires
<1>4. CASE BeatLands
  BY <1>4 DEF BeatLands
<1>5. CASE BeatFails
  BY <1>5 DEF BeatFails
<1>6. CASE ConnectionDrops
  BY <1>6 DEF ConnectionDrops
<1>7. CASE Reconnect
  BY <1>7 DEF Reconnect
<1>8. CASE ConnectionEnds
  BY <1>8 DEF ConnectionEnds
<1>9. CASE CloseStarts
  BY <1>9 DEF CloseStarts
<1>10. CASE CloseEnds
  BY <1>10 DEF CloseEnds
<1>11. CASE DrainEnds
  BY <1>11 DEF DrainEnds
<1>12. CASE Crash
  BY <1>12 DEF Crash
<1>13. CASE Tick
  BY <1>13 DEF Tick
<1>14. ASSUME NEW c \in Calls, OnMessage(c) PROVE ExecTypeOK'
  BY <1>14 DEF OnMessage
<1>15. ASSUME NEW c \in Calls, ReplyLands(c) PROVE ExecTypeOK'
  BY <1>15 DEF ReplyLands
<1>16. ASSUME NEW c \in Calls, ReplyFails(c) PROVE ExecTypeOK'
  BY <1>16 DEF ReplyFails
<1>17. ASSUME NEW c \in Calls, CheckAlive(c) PROVE ExecTypeOK'
  BY <1>17 DEF CheckAlive
<1>18. ASSUME NEW c \in Calls, Publish(c) PROVE ExecTypeOK'
  BY <1>18 DEF Publish
<1>19. ASSUME NEW c \in Calls, WakeUp(c) PROVE ExecTypeOK'
  BY <1>19 DEF WakeUp
<1>20. ASSUME NEW c \in Calls, GetDelReply(c) PROVE ExecTypeOK'
  BY <1>20 DEF GetDelReply
<1>21. ASSUME NEW c \in Calls, Recheck(c) PROVE ExecTypeOK'
  BY <1>21 DEF Recheck
<1>22. ASSUME NEW c \in Calls, Deadline(c) PROVE ExecTypeOK'
  BY <1>22 DEF Deadline
<1>23. ASSUME NEW c \in Calls, NEW s \in Statuses, HandlerReturns(c, s)
       PROVE ExecTypeOK'
  BY <1>23 DEF HandlerReturns
<1>24. CASE UNCHANGED vars
  BY <1>24 DEF vars
<1> QED
  BY <1>1, <1>2, <1>3, <1>4, <1>5, <1>6, <1>7, <1>8, <1>9, <1>10, <1>11, <1>12, <1>13,
     <1>14, <1>15, <1>16, <1>17, <1>18, <1>19, <1>20, <1>21, <1>22, <1>23, <1>24
     DEF Next, ExecutorStep, CallerStep

\* The timer and the key stay within the interval and the TTL.
LEMMA BeatTypeStep ==
  BeatTypeOK /\ [Next]_vars => BeatTypeOK'
<1> SUFFICES ASSUME BeatTypeOK, [Next]_vars PROVE BeatTypeOK'
  OBVIOUS
<1> USE TransportAssumption, TTLFact DEF BeatTypeOK, beatVars, CallerOnly, StopHeartbeat, StartHeartbeat, Less
<1>1. CASE SetupDone
  BY <1>1 DEF SetupDone
<1>2. CASE SetupFails
  BY <1>2 DEF SetupFails
<1>3. CASE BeatFires
  BY <1>3 DEF BeatFires
<1>4. CASE BeatLands
  BY <1>4 DEF BeatLands
<1>5. CASE BeatFails
  BY <1>5 DEF BeatFails
<1>6. CASE ConnectionDrops
  BY <1>6 DEF ConnectionDrops
<1>7. CASE Reconnect
  BY <1>7 DEF Reconnect
<1>8. CASE ConnectionEnds
  BY <1>8 DEF ConnectionEnds
<1>9. CASE CloseStarts
  BY <1>9 DEF CloseStarts
<1>10. CASE CloseEnds
  BY <1>10 DEF CloseEnds
<1>11. CASE DrainEnds
  BY <1>11 DEF DrainEnds
<1>12. CASE Crash
  BY <1>12 DEF Crash
<1>13. CASE Tick
  BY <1>13 DEF Tick
<1>14. ASSUME NEW c \in Calls, OnMessage(c) PROVE BeatTypeOK'
  BY <1>14 DEF OnMessage
<1>15. ASSUME NEW c \in Calls, ReplyLands(c) PROVE BeatTypeOK'
  BY <1>15 DEF ReplyLands
<1>16. ASSUME NEW c \in Calls, ReplyFails(c) PROVE BeatTypeOK'
  BY <1>16 DEF ReplyFails
<1>17. ASSUME NEW c \in Calls, CheckAlive(c) PROVE BeatTypeOK'
  BY <1>17 DEF CheckAlive
<1>18. ASSUME NEW c \in Calls, Publish(c) PROVE BeatTypeOK'
  BY <1>18 DEF Publish
<1>19. ASSUME NEW c \in Calls, WakeUp(c) PROVE BeatTypeOK'
  BY <1>19 DEF WakeUp
<1>20. ASSUME NEW c \in Calls, GetDelReply(c) PROVE BeatTypeOK'
  BY <1>20 DEF GetDelReply
<1>21. ASSUME NEW c \in Calls, Recheck(c) PROVE BeatTypeOK'
  BY <1>21 DEF Recheck
<1>22. ASSUME NEW c \in Calls, Deadline(c) PROVE BeatTypeOK'
  BY <1>22 DEF Deadline
<1>23. ASSUME NEW c \in Calls, NEW s \in Statuses, HandlerReturns(c, s)
       PROVE BeatTypeOK'
  BY <1>23 DEF HandlerReturns
<1>24. CASE UNCHANGED vars
  BY <1>24 DEF vars
<1> QED
  BY <1>1, <1>2, <1>3, <1>4, <1>5, <1>6, <1>7, <1>8, <1>9, <1>10, <1>11, <1>12, <1>13,
     <1>14, <1>15, <1>16, <1>17, <1>18, <1>19, <1>20, <1>21, <1>22, <1>23, <1>24
     DEF Next, ExecutorStep, CallerStep

\* A request has at most one handler.
LEMMA WorkTypeStep ==
  WorkTypeOK /\ ExecTypeOK /\ [Next]_vars => WorkTypeOK'
<1> SUFFICES ASSUME WorkTypeOK /\ ExecTypeOK, [Next]_vars PROVE WorkTypeOK'
  OBVIOUS
<1> USE TransportAssumption, TTLFact DEF WorkTypeOK, ExecTypeOK, workVars, CallerOnly, Less, Lost
<1>1. CASE SetupDone
  BY <1>1 DEF SetupDone
<1>2. CASE SetupFails
  BY <1>2 DEF SetupFails
<1>3. CASE BeatFires
  BY <1>3 DEF BeatFires
<1>4. CASE BeatLands
  BY <1>4 DEF BeatLands
<1>5. CASE BeatFails
  BY <1>5 DEF BeatFails
<1>6. CASE ConnectionDrops
  BY <1>6 DEF ConnectionDrops
<1>7. CASE Reconnect
  BY <1>7 DEF Reconnect
<1>8. CASE ConnectionEnds
  BY <1>8 DEF ConnectionEnds
<1>9. CASE CloseStarts
  BY <1>9 DEF CloseStarts
<1>10. CASE CloseEnds
  BY <1>10 DEF CloseEnds
<1>11. CASE DrainEnds
  BY <1>11 DEF DrainEnds
<1>12. CASE Crash
  BY <1>12 DEF Crash
<1>13. CASE Tick
  BY <1>13 DEF Tick
<1>14. ASSUME NEW c \in Calls, OnMessage(c) PROVE WorkTypeOK'
  BY <1>14 DEF OnMessage
<1>15. ASSUME NEW c \in Calls, ReplyLands(c) PROVE WorkTypeOK'
  BY <1>15 DEF ReplyLands
<1>16. ASSUME NEW c \in Calls, ReplyFails(c) PROVE WorkTypeOK'
  BY <1>16 DEF ReplyFails
<1>17. ASSUME NEW c \in Calls, CheckAlive(c) PROVE WorkTypeOK'
  BY <1>17 DEF CheckAlive
<1>18. ASSUME NEW c \in Calls, Publish(c) PROVE WorkTypeOK'
  BY <1>18 DEF Publish
<1>19. ASSUME NEW c \in Calls, WakeUp(c) PROVE WorkTypeOK'
  BY <1>19 DEF WakeUp
<1>20. ASSUME NEW c \in Calls, GetDelReply(c) PROVE WorkTypeOK'
  BY <1>20 DEF GetDelReply
<1>21. ASSUME NEW c \in Calls, Recheck(c) PROVE WorkTypeOK'
  BY <1>21 DEF Recheck
<1>22. ASSUME NEW c \in Calls, Deadline(c) PROVE WorkTypeOK'
  BY <1>22 DEF Deadline
<1>23. ASSUME NEW c \in Calls, NEW s \in Statuses, HandlerReturns(c, s)
       PROVE WorkTypeOK'
  BY <1>23 DEF HandlerReturns
<1>24. CASE UNCHANGED vars
  BY <1>24 DEF vars
<1> QED
  BY <1>1, <1>2, <1>3, <1>4, <1>5, <1>6, <1>7, <1>8, <1>9, <1>10, <1>11, <1>12, <1>13,
     <1>14, <1>15, <1>16, <1>17, <1>18, <1>19, <1>20, <1>21, <1>22, <1>23, <1>24
     DEF Next, ExecutorStep, CallerStep

\* A caller stays in its states and counts no further than the time-out.
LEMMA CallTypeStep ==
  CallTypeOK /\ WorkTypeOK /\ [Next]_vars => CallTypeOK'
<1> SUFFICES ASSUME CallTypeOK /\ WorkTypeOK, [Next]_vars PROVE CallTypeOK'
  OBVIOUS
<1> USE TransportAssumption, TTLFact DEF CallTypeOK, WorkTypeOK, callVars, CallerOnly, CallerTo, Over, Asleep, Capped
<1>1. CASE SetupDone
  BY <1>1 DEF SetupDone
<1>2. CASE SetupFails
  BY <1>2 DEF SetupFails
<1>3. CASE BeatFires
  BY <1>3 DEF BeatFires
<1>4. CASE BeatLands
  BY <1>4 DEF BeatLands
<1>5. CASE BeatFails
  BY <1>5 DEF BeatFails
<1>6. CASE ConnectionDrops
  BY <1>6 DEF ConnectionDrops
<1>7. CASE Reconnect
  BY <1>7 DEF Reconnect
<1>8. CASE ConnectionEnds
  BY <1>8 DEF ConnectionEnds
<1>9. CASE CloseStarts
  BY <1>9 DEF CloseStarts
<1>10. CASE CloseEnds
  BY <1>10 DEF CloseEnds
<1>11. CASE DrainEnds
  BY <1>11 DEF DrainEnds
<1>12. CASE Crash
  BY <1>12 DEF Crash
<1>13. CASE Tick
  BY <1>13 DEF Tick
<1>14. ASSUME NEW c \in Calls, OnMessage(c) PROVE CallTypeOK'
  BY <1>14 DEF OnMessage
<1>15. ASSUME NEW c \in Calls, ReplyLands(c) PROVE CallTypeOK'
  BY <1>15 DEF ReplyLands
<1>16. ASSUME NEW c \in Calls, ReplyFails(c) PROVE CallTypeOK'
  BY <1>16 DEF ReplyFails
<1>17. ASSUME NEW c \in Calls, CheckAlive(c) PROVE CallTypeOK'
  BY <1>17 DEF CheckAlive
<1>18. ASSUME NEW c \in Calls, Publish(c) PROVE CallTypeOK'
  BY <1>18 DEF Publish
<1>19. ASSUME NEW c \in Calls, WakeUp(c) PROVE CallTypeOK'
  BY <1>19 DEF WakeUp
<1>20. ASSUME NEW c \in Calls, GetDelReply(c) PROVE CallTypeOK'
  BY <1>20 DEF GetDelReply
<1>21. ASSUME NEW c \in Calls, Recheck(c) PROVE CallTypeOK'
  BY <1>21 DEF Recheck
<1>22. ASSUME NEW c \in Calls, Deadline(c) PROVE CallTypeOK'
  BY <1>22 DEF Deadline
<1>23. ASSUME NEW c \in Calls, NEW s \in Statuses, HandlerReturns(c, s)
       PROVE CallTypeOK'
  BY <1>23 DEF HandlerReturns
<1>24. CASE UNCHANGED vars
  BY <1>24 DEF vars
<1> QED
  BY <1>1, <1>2, <1>3, <1>4, <1>5, <1>6, <1>7, <1>8, <1>9, <1>10, <1>11, <1>12, <1>13,
     <1>14, <1>15, <1>16, <1>17, <1>18, <1>19, <1>20, <1>21, <1>22, <1>23, <1>24
     DEF Next, ExecutorStep, CallerStep

\* Faults stay within their bound.
LEMMA FaultsStep ==
  faults \in 0..MaxFaults /\ [Next]_vars => (faults \in 0..MaxFaults)'
<1> SUFFICES ASSUME faults \in 0..MaxFaults, [Next]_vars PROVE (faults \in 0..MaxFaults)'
  OBVIOUS
<1> USE TransportAssumption, TTLFact DEF Fault, CallerOnly
<1>1. CASE SetupDone
  BY <1>1 DEF SetupDone
<1>2. CASE SetupFails
  BY <1>2 DEF SetupFails
<1>3. CASE BeatFires
  BY <1>3 DEF BeatFires
<1>4. CASE BeatLands
  BY <1>4 DEF BeatLands
<1>5. CASE BeatFails
  BY <1>5 DEF BeatFails
<1>6. CASE ConnectionDrops
  BY <1>6 DEF ConnectionDrops
<1>7. CASE Reconnect
  BY <1>7 DEF Reconnect
<1>8. CASE ConnectionEnds
  BY <1>8 DEF ConnectionEnds
<1>9. CASE CloseStarts
  BY <1>9 DEF CloseStarts
<1>10. CASE CloseEnds
  BY <1>10 DEF CloseEnds
<1>11. CASE DrainEnds
  BY <1>11 DEF DrainEnds
<1>12. CASE Crash
  BY <1>12 DEF Crash
<1>13. CASE Tick
  BY <1>13 DEF Tick
<1>14. ASSUME NEW c \in Calls, OnMessage(c) PROVE (faults \in 0..MaxFaults)'
  BY <1>14 DEF OnMessage
<1>15. ASSUME NEW c \in Calls, ReplyLands(c) PROVE (faults \in 0..MaxFaults)'
  BY <1>15 DEF ReplyLands
<1>16. ASSUME NEW c \in Calls, ReplyFails(c) PROVE (faults \in 0..MaxFaults)'
  BY <1>16 DEF ReplyFails
<1>17. ASSUME NEW c \in Calls, CheckAlive(c) PROVE (faults \in 0..MaxFaults)'
  BY <1>17 DEF CheckAlive
<1>18. ASSUME NEW c \in Calls, Publish(c) PROVE (faults \in 0..MaxFaults)'
  BY <1>18 DEF Publish
<1>19. ASSUME NEW c \in Calls, WakeUp(c) PROVE (faults \in 0..MaxFaults)'
  BY <1>19 DEF WakeUp
<1>20. ASSUME NEW c \in Calls, GetDelReply(c) PROVE (faults \in 0..MaxFaults)'
  BY <1>20 DEF GetDelReply
<1>21. ASSUME NEW c \in Calls, Recheck(c) PROVE (faults \in 0..MaxFaults)'
  BY <1>21 DEF Recheck
<1>22. ASSUME NEW c \in Calls, Deadline(c) PROVE (faults \in 0..MaxFaults)'
  BY <1>22 DEF Deadline
<1>23. ASSUME NEW c \in Calls, NEW s \in Statuses, HandlerReturns(c, s)
       PROVE (faults \in 0..MaxFaults)'
  BY <1>23 DEF HandlerReturns
<1>24. CASE UNCHANGED vars
  BY <1>24 DEF vars
<1> QED
  BY <1>1, <1>2, <1>3, <1>4, <1>5, <1>6, <1>7, <1>8, <1>9, <1>10, <1>11, <1>12, <1>13,
     <1>14, <1>15, <1>16, <1>17, <1>18, <1>19, <1>20, <1>21, <1>22, <1>23, <1>24
     DEF Next, ExecutorStep, CallerStep

\* The initial state is typed.
LEMMA TypeInit == Init => TypeOK
<1> SUFFICES ASSUME Init PROVE TypeOK
  OBVIOUS
<1>1. FlagsOK
  BY DEF Init, FlagsOK
<1>2. ExecTypeOK /\ BeatTypeOK /\ faults \in 0..MaxFaults
  BY TransportAssumption, TTLFact DEF Init, ExecTypeOK, BeatTypeOK
<1>3. WorkTypeOK /\ CallTypeOK
  BY TransportAssumption DEF Init, WorkTypeOK, CallTypeOK, Asleep
<1> QED BY <1>1, <1>2, <1>3 DEF TypeOK

\* Every step preserves TypeOK.
LEMMA TypeStep == TypeOK /\ [Next]_vars => TypeOK'
  BY FlagsStep, ExecTypeStep, BeatTypeStep, WorkTypeStep, CallTypeStep, FaultsStep
     DEF TypeOK

\* Type correctness of the transport: one listener per channel, one handler per
\* request, for any parameters (executor.ts, client.ts).
THEOREM TransportTypeCorrect == Spec => []TypeOK
  BY TypeInit, TypeStep, PTL DEF Spec

(***************************************************************************)
(* The heartbeat.                                                          *)
(***************************************************************************)

\* A beat in flight leaves the timer at the interval.
LEMMA BeatFreshStep ==
  BeatFresh /\ BeatTypeOK /\ [Next]_vars => BeatFresh'
<1> SUFFICES ASSUME BeatFresh /\ BeatTypeOK, [Next]_vars PROVE BeatFresh'
  OBVIOUS
<1> USE TransportAssumption, TTLFact DEF BeatFresh, BeatTypeOK, beatVars, CallerOnly, StopHeartbeat, StartHeartbeat, Less, Closed
<1>1. CASE SetupDone
  BY <1>1 DEF SetupDone
<1>2. CASE SetupFails
  BY <1>2 DEF SetupFails
<1>3. CASE BeatFires
  BY <1>3 DEF BeatFires
<1>4. CASE BeatLands
  BY <1>4 DEF BeatLands
<1>5. CASE BeatFails
  BY <1>5 DEF BeatFails
<1>6. CASE ConnectionDrops
  BY <1>6 DEF ConnectionDrops
<1>7. CASE Reconnect
  BY <1>7 DEF Reconnect
<1>8. CASE ConnectionEnds
  BY <1>8 DEF ConnectionEnds
<1>9. CASE CloseStarts
  BY <1>9 DEF CloseStarts
<1>10. CASE CloseEnds
  BY <1>10 DEF CloseEnds
<1>11. CASE DrainEnds
  BY <1>11 DEF DrainEnds
<1>12. CASE Crash
  BY <1>12 DEF Crash
<1>13. CASE Tick
  BY <1>13 DEF Tick
<1>14. ASSUME NEW c \in Calls, OnMessage(c) PROVE BeatFresh'
  BY <1>14 DEF OnMessage
<1>15. ASSUME NEW c \in Calls, ReplyLands(c) PROVE BeatFresh'
  BY <1>15 DEF ReplyLands
<1>16. ASSUME NEW c \in Calls, ReplyFails(c) PROVE BeatFresh'
  BY <1>16 DEF ReplyFails
<1>17. ASSUME NEW c \in Calls, CheckAlive(c) PROVE BeatFresh'
  BY <1>17 DEF CheckAlive
<1>18. ASSUME NEW c \in Calls, Publish(c) PROVE BeatFresh'
  BY <1>18 DEF Publish
<1>19. ASSUME NEW c \in Calls, WakeUp(c) PROVE BeatFresh'
  BY <1>19 DEF WakeUp
<1>20. ASSUME NEW c \in Calls, GetDelReply(c) PROVE BeatFresh'
  BY <1>20 DEF GetDelReply
<1>21. ASSUME NEW c \in Calls, Recheck(c) PROVE BeatFresh'
  BY <1>21 DEF Recheck
<1>22. ASSUME NEW c \in Calls, Deadline(c) PROVE BeatFresh'
  BY <1>22 DEF Deadline
<1>23. ASSUME NEW c \in Calls, NEW s \in Statuses, HandlerReturns(c, s)
       PROVE BeatFresh'
  BY <1>23 DEF HandlerReturns
<1>24. CASE UNCHANGED vars
  BY <1>24 DEF vars
<1> QED
  BY <1>1, <1>2, <1>3, <1>4, <1>5, <1>6, <1>7, <1>8, <1>9, <1>10, <1>11, <1>12, <1>13,
     <1>14, <1>15, <1>16, <1>17, <1>18, <1>19, <1>20, <1>21, <1>22, <1>23, <1>24
     DEF Next, ExecutorStep, CallerStep

\* Nothing but a disturbance lets the key of a healthy executor expire.
LEMMA AheadStep ==
  Ahead /\ BeatFresh /\ BeatTypeOK /\ sound \in [Calls -> BOOLEAN] /\ [Next]_vars => Ahead'
<1> SUFFICES ASSUME Ahead /\ BeatFresh /\ BeatTypeOK /\ sound \in [Calls -> BOOLEAN], [Next]_vars PROVE Ahead'
  OBVIOUS
<1> USE TransportAssumption, TTLFact DEF Ahead, BeatFresh, BeatTypeOK, beatVars, execVars, CallerOnly, StopHeartbeat, StartHeartbeat, Less, Closed, Disturbed, Healthy, Alive
<1>1. CASE SetupDone
  BY <1>1 DEF SetupDone
<1>2. CASE SetupFails
  BY <1>2 DEF SetupFails
<1>3. CASE BeatFires
  BY <1>3 DEF BeatFires
<1>4. CASE BeatLands
  BY <1>4 DEF BeatLands
<1>5. CASE BeatFails
  BY <1>5 DEF BeatFails
<1>6. CASE ConnectionDrops
  BY <1>6 DEF ConnectionDrops
<1>7. CASE Reconnect
  BY <1>7 DEF Reconnect
<1>8. CASE ConnectionEnds
  BY <1>8 DEF ConnectionEnds
<1>9. CASE CloseStarts
  BY <1>9 DEF CloseStarts
<1>10. CASE CloseEnds
  BY <1>10 DEF CloseEnds
<1>11. CASE DrainEnds
  BY <1>11 DEF DrainEnds
<1>12. CASE Crash
  BY <1>12 DEF Crash
<1>13. CASE Tick
  BY <1>13 DEF Tick
<1>14. ASSUME NEW c \in Calls, OnMessage(c) PROVE Ahead'
  BY <1>14 DEF OnMessage
<1>15. ASSUME NEW c \in Calls, ReplyLands(c) PROVE Ahead'
  BY <1>15 DEF ReplyLands
<1>16. ASSUME NEW c \in Calls, ReplyFails(c) PROVE Ahead'
  BY <1>16 DEF ReplyFails
<1>17. ASSUME NEW c \in Calls, CheckAlive(c) PROVE Ahead'
  BY <1>17 DEF CheckAlive
<1>18. ASSUME NEW c \in Calls, Publish(c) PROVE Ahead'
  BY <1>18 DEF Publish
<1>19. ASSUME NEW c \in Calls, WakeUp(c) PROVE Ahead'
  BY <1>19 DEF WakeUp
<1>20. ASSUME NEW c \in Calls, GetDelReply(c) PROVE Ahead'
  BY <1>20 DEF GetDelReply
<1>21. ASSUME NEW c \in Calls, Recheck(c) PROVE Ahead'
  BY <1>21 DEF Recheck
<1>22. ASSUME NEW c \in Calls, Deadline(c) PROVE Ahead'
  BY <1>22 DEF Deadline
<1>23. ASSUME NEW c \in Calls, NEW s \in Statuses, HandlerReturns(c, s)
       PROVE Ahead'
  BY <1>23 DEF HandlerReturns
<1>24. CASE UNCHANGED vars
  BY <1>24 DEF vars
<1> QED
  BY <1>1, <1>2, <1>3, <1>4, <1>5, <1>6, <1>7, <1>8, <1>9, <1>10, <1>11, <1>12, <1>13,
     <1>14, <1>15, <1>16, <1>17, <1>18, <1>19, <1>20, <1>21, <1>22, <1>23, <1>24
     DEF Next, ExecutorStep, CallerStep

\* Only a disturbed call is refused.
LEMMA RefusedStep ==
  HealthyNeverRefused /\ Ahead /\ CallTypeOK /\ WorkTypeOK /\ sound \in [Calls -> BOOLEAN] /\ [Next]_vars => HealthyNeverRefused'
<1> SUFFICES ASSUME HealthyNeverRefused /\ Ahead /\ CallTypeOK /\ WorkTypeOK /\ sound \in [Calls -> BOOLEAN], [Next]_vars PROVE HealthyNeverRefused'
  OBVIOUS
<1> USE TransportAssumption, TTLFact DEF HealthyNeverRefused, Ahead, CallTypeOK, WorkTypeOK, callVars, CallerOnly, CallerTo, Disturbed, Healthy, Over, Asleep, Labels
<1>1. CASE SetupDone
  BY <1>1 DEF SetupDone
<1>2. CASE SetupFails
  BY <1>2 DEF SetupFails
<1>3. CASE BeatFires
  BY <1>3 DEF BeatFires
<1>4. CASE BeatLands
  BY <1>4 DEF BeatLands
<1>5. CASE BeatFails
  BY <1>5 DEF BeatFails
<1>6. CASE ConnectionDrops
  BY <1>6 DEF ConnectionDrops
<1>7. CASE Reconnect
  BY <1>7 DEF Reconnect
<1>8. CASE ConnectionEnds
  BY <1>8 DEF ConnectionEnds
<1>9. CASE CloseStarts
  BY <1>9 DEF CloseStarts
<1>10. CASE CloseEnds
  BY <1>10 DEF CloseEnds
<1>11. CASE DrainEnds
  BY <1>11 DEF DrainEnds
<1>12. CASE Crash
  BY <1>12 DEF Crash
<1>13. CASE Tick
  BY <1>13 DEF Tick
<1>14. ASSUME NEW c \in Calls, OnMessage(c) PROVE HealthyNeverRefused'
  BY <1>14 DEF OnMessage
<1>15. ASSUME NEW c \in Calls, ReplyLands(c) PROVE HealthyNeverRefused'
  BY <1>15 DEF ReplyLands
<1>16. ASSUME NEW c \in Calls, ReplyFails(c) PROVE HealthyNeverRefused'
  BY <1>16 DEF ReplyFails
<1>17. ASSUME NEW c \in Calls, CheckAlive(c) PROVE HealthyNeverRefused'
  BY <1>17 DEF CheckAlive
<1>18. ASSUME NEW c \in Calls, Publish(c) PROVE HealthyNeverRefused'
  BY <1>18 DEF Publish
<1>19. ASSUME NEW c \in Calls, WakeUp(c) PROVE HealthyNeverRefused'
  BY <1>19 DEF WakeUp
<1>20. ASSUME NEW c \in Calls, GetDelReply(c) PROVE HealthyNeverRefused'
  BY <1>20 DEF GetDelReply
<1>21. ASSUME NEW c \in Calls, Recheck(c) PROVE HealthyNeverRefused'
  BY <1>21 DEF Recheck
<1>22. ASSUME NEW c \in Calls, Deadline(c) PROVE HealthyNeverRefused'
  BY <1>22 DEF Deadline
<1>23. ASSUME NEW c \in Calls, NEW s \in Statuses, HandlerReturns(c, s)
       PROVE HealthyNeverRefused'
  BY <1>23 DEF HandlerReturns
<1>24. CASE UNCHANGED vars
  BY <1>24 DEF vars
<1> QED
  BY <1>1, <1>2, <1>3, <1>4, <1>5, <1>6, <1>7, <1>8, <1>9, <1>10, <1>11, <1>12, <1>13,
     <1>14, <1>15, <1>16, <1>17, <1>18, <1>19, <1>20, <1>21, <1>22, <1>23, <1>24
     DEF Next, ExecutorStep, CallerStep

\* No timer after close().
LEMMA QuietStep ==
  ClosedGoesQuiet /\ [Next]_vars => ClosedGoesQuiet'
<1> SUFFICES ASSUME ClosedGoesQuiet, [Next]_vars PROVE ClosedGoesQuiet'
  OBVIOUS
<1> USE TransportAssumption, TTLFact DEF ClosedGoesQuiet, beatVars, execVars, CallerOnly, StopHeartbeat, StartHeartbeat, Closed, Alive
<1>1. CASE SetupDone
  BY <1>1 DEF SetupDone
<1>2. CASE SetupFails
  BY <1>2 DEF SetupFails
<1>3. CASE BeatFires
  BY <1>3 DEF BeatFires
<1>4. CASE BeatLands
  BY <1>4 DEF BeatLands
<1>5. CASE BeatFails
  BY <1>5 DEF BeatFails
<1>6. CASE ConnectionDrops
  BY <1>6 DEF ConnectionDrops
<1>7. CASE Reconnect
  BY <1>7 DEF Reconnect
<1>8. CASE ConnectionEnds
  BY <1>8 DEF ConnectionEnds
<1>9. CASE CloseStarts
  BY <1>9 DEF CloseStarts
<1>10. CASE CloseEnds
  BY <1>10 DEF CloseEnds
<1>11. CASE DrainEnds
  BY <1>11 DEF DrainEnds
<1>12. CASE Crash
  BY <1>12 DEF Crash
<1>13. CASE Tick
  BY <1>13 DEF Tick
<1>14. ASSUME NEW c \in Calls, OnMessage(c) PROVE ClosedGoesQuiet'
  BY <1>14 DEF OnMessage
<1>15. ASSUME NEW c \in Calls, ReplyLands(c) PROVE ClosedGoesQuiet'
  BY <1>15 DEF ReplyLands
<1>16. ASSUME NEW c \in Calls, ReplyFails(c) PROVE ClosedGoesQuiet'
  BY <1>16 DEF ReplyFails
<1>17. ASSUME NEW c \in Calls, CheckAlive(c) PROVE ClosedGoesQuiet'
  BY <1>17 DEF CheckAlive
<1>18. ASSUME NEW c \in Calls, Publish(c) PROVE ClosedGoesQuiet'
  BY <1>18 DEF Publish
<1>19. ASSUME NEW c \in Calls, WakeUp(c) PROVE ClosedGoesQuiet'
  BY <1>19 DEF WakeUp
<1>20. ASSUME NEW c \in Calls, GetDelReply(c) PROVE ClosedGoesQuiet'
  BY <1>20 DEF GetDelReply
<1>21. ASSUME NEW c \in Calls, Recheck(c) PROVE ClosedGoesQuiet'
  BY <1>21 DEF Recheck
<1>22. ASSUME NEW c \in Calls, Deadline(c) PROVE ClosedGoesQuiet'
  BY <1>22 DEF Deadline
<1>23. ASSUME NEW c \in Calls, NEW s \in Statuses, HandlerReturns(c, s)
       PROVE ClosedGoesQuiet'
  BY <1>23 DEF HandlerReturns
<1>24. CASE UNCHANGED vars
  BY <1>24 DEF vars
<1> QED
  BY <1>1, <1>2, <1>3, <1>4, <1>5, <1>6, <1>7, <1>8, <1>9, <1>10, <1>11, <1>12, <1>13,
     <1>14, <1>15, <1>16, <1>17, <1>18, <1>19, <1>20, <1>21, <1>22, <1>23, <1>24
     DEF Next, ExecutorStep, CallerStep

(***************************************************************************)
(* Requests.                                                               *)
(***************************************************************************)

\* A request keeps its one place.
LEMMA RequestsStep ==
  Requests /\ ExecTypeOK /\ WorkTypeOK /\ CallTypeOK /\ [Next]_vars => Requests'
<1> SUFFICES ASSUME Requests /\ ExecTypeOK /\ WorkTypeOK /\ CallTypeOK, [Next]_vars PROVE Requests'
  OBVIOUS
<1> USE TransportAssumption, TTLFact DEF Requests, RequestInv, Unsent, ExecTypeOK, WorkTypeOK, CallTypeOK, workVars, callVars, CallerOnly, CallerTo, Lost, Less, Over, Asleep, Labels
<1>1. CASE SetupDone
  BY <1>1 DEF SetupDone
<1>2. CASE SetupFails
  BY <1>2 DEF SetupFails
<1>3. CASE BeatFires
  BY <1>3 DEF BeatFires
<1>4. CASE BeatLands
  BY <1>4 DEF BeatLands
<1>5. CASE BeatFails
  BY <1>5 DEF BeatFails
<1>6. CASE ConnectionDrops
  BY <1>6 DEF ConnectionDrops
<1>7. CASE Reconnect
  BY <1>7 DEF Reconnect
<1>8. CASE ConnectionEnds
  BY <1>8 DEF ConnectionEnds
<1>9. CASE CloseStarts
  BY <1>9 DEF CloseStarts
<1>10. CASE CloseEnds
  BY <1>10 DEF CloseEnds
<1>11. CASE DrainEnds
  BY <1>11 DEF DrainEnds
<1>12. CASE Crash
  BY <1>12 DEF Crash
<1>13. CASE Tick
  BY <1>13 DEF Tick
<1>14. ASSUME NEW d \in Calls, OnMessage(d) PROVE Requests'
  BY <1>14 DEF OnMessage
<1>15. ASSUME NEW d \in Calls, ReplyLands(d) PROVE Requests'
  BY <1>15 DEF ReplyLands
<1>16. ASSUME NEW d \in Calls, ReplyFails(d) PROVE Requests'
  BY <1>16 DEF ReplyFails
<1>17. ASSUME NEW d \in Calls, CheckAlive(d) PROVE Requests'
  BY <1>17 DEF CheckAlive
<1>18. ASSUME NEW d \in Calls, Publish(d) PROVE Requests'
  BY <1>18 DEF Publish
<1>19. ASSUME NEW d \in Calls, WakeUp(d) PROVE Requests'
  BY <1>19 DEF WakeUp
<1>20. ASSUME NEW d \in Calls, GetDelReply(d) PROVE Requests'
  BY <1>20 DEF GetDelReply
<1>21. ASSUME NEW d \in Calls, Recheck(d) PROVE Requests'
  BY <1>21 DEF Recheck
<1>22. ASSUME NEW d \in Calls, Deadline(d) PROVE Requests'
  BY <1>22 DEF Deadline
<1>23. ASSUME NEW d \in Calls, NEW s \in Statuses, HandlerReturns(d, s)
       PROVE Requests'
  BY <1>23 DEF HandlerReturns
<1>24. CASE UNCHANGED vars
  BY <1>24 DEF vars
<1> QED
  BY <1>1, <1>2, <1>3, <1>4, <1>5, <1>6, <1>7, <1>8, <1>9, <1>10, <1>11, <1>12, <1>13,
     <1>14, <1>15, <1>16, <1>17, <1>18, <1>19, <1>20, <1>21, <1>22, <1>23, <1>24
     DEF Next, ExecutorStep, CallerStep

\* What is in flight when close() ends is awaited, and nothing is added.
LEMMA AwaitsStep ==
  Awaits /\ WorkTypeOK /\ [Next]_vars => Awaits'
<1> SUFFICES ASSUME Awaits /\ WorkTypeOK, [Next]_vars PROVE Awaits'
  OBVIOUS
<1> USE TransportAssumption, TTLFact DEF Awaits, InFlight, WorkTypeOK, workVars, execVars, CallerOnly, Closed
<1>1. CASE SetupDone
  BY <1>1 DEF SetupDone
<1>2. CASE SetupFails
  BY <1>2 DEF SetupFails
<1>3. CASE BeatFires
  BY <1>3 DEF BeatFires
<1>4. CASE BeatLands
  BY <1>4 DEF BeatLands
<1>5. CASE BeatFails
  BY <1>5 DEF BeatFails
<1>6. CASE ConnectionDrops
  BY <1>6 DEF ConnectionDrops
<1>7. CASE Reconnect
  BY <1>7 DEF Reconnect
<1>8. CASE ConnectionEnds
  BY <1>8 DEF ConnectionEnds
<1>9. CASE CloseStarts
  BY <1>9 DEF CloseStarts
<1>10. CASE CloseEnds
  BY <1>10 DEF CloseEnds
<1>11. CASE DrainEnds
  BY <1>11 DEF DrainEnds
<1>12. CASE Crash
  BY <1>12 DEF Crash
<1>13. CASE Tick
  BY <1>13 DEF Tick
<1>14. ASSUME NEW d \in Calls, OnMessage(d) PROVE Awaits'
  BY <1>14 DEF OnMessage
<1>15. ASSUME NEW d \in Calls, ReplyLands(d) PROVE Awaits'
  BY <1>15 DEF ReplyLands
<1>16. ASSUME NEW d \in Calls, ReplyFails(d) PROVE Awaits'
  BY <1>16 DEF ReplyFails
<1>17. ASSUME NEW d \in Calls, CheckAlive(d) PROVE Awaits'
  BY <1>17 DEF CheckAlive
<1>18. ASSUME NEW d \in Calls, Publish(d) PROVE Awaits'
  BY <1>18 DEF Publish
<1>19. ASSUME NEW d \in Calls, WakeUp(d) PROVE Awaits'
  BY <1>19 DEF WakeUp
<1>20. ASSUME NEW d \in Calls, GetDelReply(d) PROVE Awaits'
  BY <1>20 DEF GetDelReply
<1>21. ASSUME NEW d \in Calls, Recheck(d) PROVE Awaits'
  BY <1>21 DEF Recheck
<1>22. ASSUME NEW d \in Calls, Deadline(d) PROVE Awaits'
  BY <1>22 DEF Deadline
<1>23. ASSUME NEW d \in Calls, NEW s \in Statuses, HandlerReturns(d, s)
       PROVE Awaits'
  BY <1>23 DEF HandlerReturns
<1>24. CASE UNCHANGED vars
  BY <1>24 DEF vars
<1> QED
  BY <1>1, <1>2, <1>3, <1>4, <1>5, <1>6, <1>7, <1>8, <1>9, <1>10, <1>11, <1>12, <1>13,
     <1>14, <1>15, <1>16, <1>17, <1>18, <1>19, <1>20, <1>21, <1>22, <1>23, <1>24
     DEF Next, ExecutorStep, CallerStep

\* drain() returns when nothing is in flight.
LEMMA DrainStep ==
  DrainAnswersAll /\ Awaits /\ WorkTypeOK /\ [Next]_vars => DrainAnswersAll'
<1> SUFFICES ASSUME DrainAnswersAll /\ Awaits /\ WorkTypeOK, [Next]_vars PROVE DrainAnswersAll'
  OBVIOUS
<1> USE TransportAssumption, TTLFact DEF DrainAnswersAll, Awaits, InFlight, WorkTypeOK, workVars, execVars, CallerOnly, Closed, Alive
<1>1. CASE SetupDone
  BY <1>1 DEF SetupDone
<1>2. CASE SetupFails
  BY <1>2 DEF SetupFails
<1>3. CASE BeatFires
  BY <1>3 DEF BeatFires
<1>4. CASE BeatLands
  BY <1>4 DEF BeatLands
<1>5. CASE BeatFails
  BY <1>5 DEF BeatFails
<1>6. CASE ConnectionDrops
  BY <1>6 DEF ConnectionDrops
<1>7. CASE Reconnect
  BY <1>7 DEF Reconnect
<1>8. CASE ConnectionEnds
  BY <1>8 DEF ConnectionEnds
<1>9. CASE CloseStarts
  BY <1>9 DEF CloseStarts
<1>10. CASE CloseEnds
  BY <1>10 DEF CloseEnds
<1>11. CASE DrainEnds
  BY <1>11 DEF DrainEnds
<1>12. CASE Crash
  BY <1>12 DEF Crash
<1>13. CASE Tick
  BY <1>13 DEF Tick
<1>14. ASSUME NEW d \in Calls, OnMessage(d) PROVE DrainAnswersAll'
  BY <1>14 DEF OnMessage
<1>15. ASSUME NEW d \in Calls, ReplyLands(d) PROVE DrainAnswersAll'
  BY <1>15 DEF ReplyLands
<1>16. ASSUME NEW d \in Calls, ReplyFails(d) PROVE DrainAnswersAll'
  BY <1>16 DEF ReplyFails
<1>17. ASSUME NEW d \in Calls, CheckAlive(d) PROVE DrainAnswersAll'
  BY <1>17 DEF CheckAlive
<1>18. ASSUME NEW d \in Calls, Publish(d) PROVE DrainAnswersAll'
  BY <1>18 DEF Publish
<1>19. ASSUME NEW d \in Calls, WakeUp(d) PROVE DrainAnswersAll'
  BY <1>19 DEF WakeUp
<1>20. ASSUME NEW d \in Calls, GetDelReply(d) PROVE DrainAnswersAll'
  BY <1>20 DEF GetDelReply
<1>21. ASSUME NEW d \in Calls, Recheck(d) PROVE DrainAnswersAll'
  BY <1>21 DEF Recheck
<1>22. ASSUME NEW d \in Calls, Deadline(d) PROVE DrainAnswersAll'
  BY <1>22 DEF Deadline
<1>23. ASSUME NEW d \in Calls, NEW s \in Statuses, HandlerReturns(d, s)
       PROVE DrainAnswersAll'
  BY <1>23 DEF HandlerReturns
<1>24. CASE UNCHANGED vars
  BY <1>24 DEF vars
<1> QED
  BY <1>1, <1>2, <1>3, <1>4, <1>5, <1>6, <1>7, <1>8, <1>9, <1>10, <1>11, <1>12, <1>13,
     <1>14, <1>15, <1>16, <1>17, <1>18, <1>19, <1>20, <1>21, <1>22, <1>23, <1>24
     DEF Next, ExecutorStep, CallerStep

\* The initial state satisfies the inductive invariant.
LEMMA IInvInit == Init => IInv
<1> SUFFICES ASSUME Init PROVE IInv
  OBVIOUS
<1>1. TypeOK
  BY TypeInit
<1>2. BeatFresh /\ Ahead /\ Awaits
  BY DEF Init, BeatFresh, Ahead, Awaits
<1>3. Requests
  BY TransportAssumption DEF Init, Requests, RequestInv, Unsent, Labels
<1>4. HealthyNeverRefused /\ ClosedGoesQuiet /\ DrainAnswersAll
  BY DEF Init, HealthyNeverRefused, ClosedGoesQuiet, DrainAnswersAll
<1> QED BY <1>1, <1>2, <1>3, <1>4 DEF IInv

\* Every step preserves it.
LEMMA IInvStep == IInv /\ [Next]_vars => IInv'
  BY TypeStep, BeatFreshStep, AheadStep, RefusedStep, QuietStep, RequestsStep,
     AwaitsStep, DrainStep
     DEF IInv, TypeOK, FlagsOK

\* The inductive invariant holds throughout.
THEOREM TransportInvariant == Spec => []IInv
  BY IInvInit, IInvStep, PTL DEF Spec

\* The heartbeat of an executor to which nothing happens never lapses, for any
\* interval: ceil(1.5 * interval) bridges two beats (executor.ts, client.ts).
THEOREM HealthyNeverRefusedAlways == Spec => []HealthyNeverRefused
  BY TransportInvariant, PTL DEF IInv

\* close() stops the heartbeat for good, whatever subscribe was in flight.
THEOREM ClosedGoesQuietAlways == Spec => []ClosedGoesQuiet
  BY TransportInvariant, PTL DEF IInv

\* drain() leaves no request half served, however many are in flight.
THEOREM DrainAnswersAllAlways == Spec => []DrainAnswersAll
  BY TransportInvariant, PTL DEF IInv

(***************************************************************************)
(* The refinement: every step is a step of PeerCall or a stutter.          *)
(***************************************************************************)

\* What CallOf makes of each place.
LEMMA CallOfFacts ==
  /\ CallOf("idle") = "new" /\ CallOf("publish") = "new"
  /\ CallOf("refused") = "refused"
  /\ CallOf("noResponder") = "failed" /\ CallOf("timeout") = "failed"
  /\ \A p \in {"sleep", "poll", "recheck", "deadline"} : CallOf(p) = "waiting"
  /\ \A s \in Statuses : CallOf(s) = s
  BY TransportAssumption DEF CallOf, Labels

\* A step in which one caller moves and handled stays is the abstract step of
\* that caller.
LEMMA MoveFact ==
  ASSUME NEW c \in Calls, NEW where, CallTypeOK, CallerTo(c, where)
  PROVE  [d \in Calls |-> CallOf(caller[d])]' =
           [[d \in Calls |-> CallOf(caller[d])] EXCEPT ![c] = CallOf(where)]
  BY DEF CallTypeOK, CallerTo

\* Every step maps to a step or a stutter.
LEMMA ChannelStep ==
  IInv /\ [Next]_vars => [Channel!Next]_<<[c \in Calls |-> CallOf(caller[c])], handled>>
<1> SUFFICES ASSUME IInv, [Next]_vars
             PROVE  [Channel!Next]_<<[c \in Calls |-> CallOf(caller[c])], handled>>
  OBVIOUS
<1> DEFINE call == [c \in Calls |-> CallOf(caller[c])]
<1> USE CallOfFacts DEF IInv, TypeOK
<1>1. ASSUME UNCHANGED <<caller, handled>>
      PROVE  UNCHANGED <<call, handled>>
  BY <1>1
<1>2. ASSUME NEW c \in Calls, CheckAlive(c)
      PROVE  Channel!Next \/ UNCHANGED <<call, handled>>
  <2>1. CASE hb = 0
    <3>1. Channel!Refuse(c)
      BY <1>2, <2>1, MoveFact DEF CheckAlive, workVars, Channel!Refuse
    <3> QED BY <3>1 DEF Channel!Next
  <2>2. CASE hb # 0
    <3>1. call' = [call EXCEPT ![c] = "new"]
      BY <1>2, <2>2, MoveFact DEF CheckAlive
    <3>2. call[c] = "new"
      BY <1>2 DEF CheckAlive
    <3> QED BY <1>2, <3>1, <3>2 DEF CheckAlive, workVars
  <2> QED BY <2>1, <2>2
<1>3. ASSUME NEW c \in Calls, Publish(c)
      PROVE  Channel!Next
  <2>1. CASE subscribed
    <3>1. Channel!Send(c)
      BY <1>3, <2>1, MoveFact DEF Publish, Channel!Send
    <3> QED BY <3>1 DEF Channel!Next
  <2>2. CASE ~subscribed
    <3>1. Channel!Refuse(c)
      BY <1>3, <2>2, MoveFact DEF Publish, Channel!Refuse
    <3> QED BY <3>1 DEF Channel!Next
  <2> QED BY <2>1, <2>2
<1>4. ASSUME NEW c \in Calls, GetDelReply(c)
      PROVE  Channel!Next \/ UNCHANGED <<call, handled>>
  <2>1. CASE reply[c] = "none"
    <3>1. call' = [call EXCEPT ![c] = "waiting"] /\ call[c] = "waiting"
      BY <1>4, <2>1, MoveFact DEF GetDelReply
    <3> QED BY <1>4, <3>1 DEF GetDelReply
  <2>2. CASE reply[c] # "none"
    <3>1. reply[c] \in Statuses /\ reply[c] = handled[c] /\ handled[c] # "no"
      BY <2>2, TransportAssumption DEF WorkTypeOK, Requests, RequestInv, Labels
    <3>2. Channel!Answer(c)
      BY <1>4, <2>2, <3>1, MoveFact DEF GetDelReply, Channel!Answer
    <3> QED BY <3>2 DEF Channel!Next
  <2> QED BY <2>1, <2>2
<1>5. ASSUME NEW c \in Calls, Recheck(c) \/ Deadline(c) \/ WakeUp(c)
      PROVE  Channel!Next \/ UNCHANGED <<call, handled>>
  <2>1. call[c] = "waiting" /\ UNCHANGED handled
    BY <1>5 DEF Recheck, Deadline, WakeUp, CallerOnly, workVars
  <2>2. \/ CallerTo(c, "noResponder") \/ CallerTo(c, "timeout")
        \/ CallerTo(c, "deadline") \/ CallerTo(c, "sleep") \/ CallerTo(c, "poll")
    BY <1>5 DEF Recheck, Deadline, WakeUp
  <2>3. \/ call' = [call EXCEPT ![c] = "failed"]
        \/ call' = [call EXCEPT ![c] = "waiting"]
    <3>1. ASSUME NEW p \in {"noResponder", "timeout"}, CallerTo(c, p)
          PROVE  call' = [call EXCEPT ![c] = "failed"]
      BY <3>1, MoveFact
    <3>2. ASSUME NEW p \in {"deadline", "sleep", "poll"}, CallerTo(c, p)
          PROVE  call' = [call EXCEPT ![c] = "waiting"]
      BY <3>2, MoveFact
    <3> QED BY <2>2, <3>1, <3>2
  <2>4. CASE call' = [call EXCEPT ![c] = "failed"]
    BY <2>1, <2>4 DEF Channel!Next, Channel!GiveUp
  <2>5. CASE call' = [call EXCEPT ![c] = "waiting"]
    BY <2>1, <2>5
  <2> QED BY <2>3, <2>4, <2>5
<1>6. ASSUME NEW c \in Calls, NEW s \in Statuses, HandlerReturns(c, s)
      PROVE  Channel!Next
  <2>1. handled[c] = "no" /\ message[c] = "taken" /\ UNCHANGED call
    BY <1>6 DEF HandlerReturns, callVars, Requests, RequestInv, WorkTypeOK
  <2>2. caller[c] \notin Unsent /\ caller[c] \notin Statuses
    BY <2>1 DEF Requests, RequestInv
  <2>3. call[c] \in {"waiting", "failed"}
    BY <2>2 DEF CallTypeOK, Over, Asleep, Unsent
  <2>4. Channel!Handle(c, s)
    BY <1>6, <2>1, <2>3 DEF HandlerReturns, Channel!Handle
  <2> QED BY <2>4 DEF Channel!Next
<1>7. ASSUME \/ SetupDone \/ SetupFails \/ BeatFires \/ BeatLands \/ BeatFails
             \/ ConnectionDrops \/ Reconnect \/ ConnectionEnds \/ CloseStarts
             \/ CloseEnds \/ DrainEnds \/ Crash \/ Tick \/ UNCHANGED vars
             \/ \E c \in Calls : OnMessage(c) \/ ReplyLands(c) \/ ReplyFails(c)
      PROVE  UNCHANGED <<caller, handled>>
  BY <1>7 DEF SetupDone, SetupFails, BeatFires, BeatLands, BeatFails,
       ConnectionDrops, Reconnect, ConnectionEnds, CloseStarts, CloseEnds,
       DrainEnds, Crash, Tick, OnMessage, ReplyLands, ReplyFails, vars, workVars,
       callVars
<1> QED
  BY <1>1, <1>2, <1>3, <1>4, <1>5, <1>6, <1>7 DEF Next, ExecutorStep, CallerStep

\* The transport implements the channel the cancel endpoint assumes, for any
\* number of requests and any timing (executor.ts, client.ts).
THEOREM TransportImplementsPeerCall == Spec => ImplementsPeerCall
<1>1. Init => Channel!Init
  BY CallOfFacts DEF Init, Channel!Init
<1> QED BY <1>1, ChannelStep, TransportInvariant, PTL
        DEF Spec, ImplementsPeerCall, Channel!Spec

(***************************************************************************)
(* How long a caller can wait for a dead process.                          *)
(***************************************************************************)

\* A dead process no longer beats and its key runs out; a sleep begins only
\* while the key lives, so it ends within a poll of the key's end.
Bound == HeartbeatTTL + Poll
DeadInv ==
  /\ deadFor \in 0..Bound + 1
  /\ Alive => deadFor = 0
  /\ ~Alive => /\ ~beating /\ ~subscribed
               /\ setting => deadFor = 0
               /\ hb > 0 => hb + deadFor <= HeartbeatTTL
  /\ \A c \in Calls :
       /\ wake[c] \in Nat
       /\ caller[c] = "deadline" => hb > 0
       /\ caller[c] = "sleep" => deadFor + wake[c] <= Bound
       /\ caller[c] \in {"publish", "poll", "recheck", "deadline"} => deadFor <= Bound

\* The bound is a number.
LEMMA BoundFact == Bound \in Nat /\ Bound = HeartbeatTTL + Poll
  BY TransportAssumption, TTLFact DEF Bound

\* Every step keeps a caller within the bound.
LEMMA DeadStep ==
  FirstWait <= Bound /\ DeadInv /\ wake \in [Calls -> Nat] /\ BeatTypeOK /\ CallTypeOK /\ WorkTypeOK /\ ClosedGoesQuiet /\ [Next]_vars => (DeadInv /\ wake \in [Calls -> Nat])'
<1> SUFFICES ASSUME FirstWait <= Bound /\ DeadInv /\ wake \in [Calls -> Nat] /\ BeatTypeOK /\ CallTypeOK /\ WorkTypeOK /\ ClosedGoesQuiet, [Next]_vars PROVE (DeadInv /\ wake \in [Calls -> Nat])'
  OBVIOUS
<1> USE TransportAssumption, TTLFact, BoundFact DEF DeadInv, BeatTypeOK, CallTypeOK, WorkTypeOK, ClosedGoesQuiet, beatVars, execVars, callVars, CallerOnly, CallerTo, StopHeartbeat, StartHeartbeat, Closed, Alive, Less, Capped, Over, Asleep, Labels
<1>1. CASE SetupDone
  BY <1>1 DEF SetupDone
<1>2. CASE SetupFails
  BY <1>2 DEF SetupFails
<1>3. CASE BeatFires
  BY <1>3 DEF BeatFires
<1>4. CASE BeatLands
  BY <1>4 DEF BeatLands
<1>5. CASE BeatFails
  BY <1>5 DEF BeatFails
<1>6. CASE ConnectionDrops
  BY <1>6 DEF ConnectionDrops
<1>7. CASE Reconnect
  BY <1>7 DEF Reconnect
<1>8. CASE ConnectionEnds
  BY <1>8 DEF ConnectionEnds
<1>9. CASE CloseStarts
  BY <1>9 DEF CloseStarts
<1>10. CASE CloseEnds
  BY <1>10 DEF CloseEnds
<1>11. CASE DrainEnds
  BY <1>11 DEF DrainEnds
<1>12. CASE Crash
  BY <1>12 DEF Crash
<1>13. CASE Tick
  <2>1. deadFor' \in 0..Bound + 1 /\ (Alive => deadFor' = 0) /\ deadFor' <= deadFor + 1
    BY <1>13 DEF Tick
  <2>2. (Alive <=> Alive') /\ hb' = Less(hb) /\ UNCHANGED <<beating, subscribed, setting>>
    BY <1>13 DEF Tick
  <2>3. ~Alive => (hb' > 0 => hb' + deadFor' <= HeartbeatTTL)
    <3>1. hb \in Nat /\ deadFor \in Nat /\ deadFor' \in Nat
      BY <2>1
    <3>2. ~Alive /\ hb > 0 => hb + deadFor <= HeartbeatTTL
      OBVIOUS
    <3>3. hb > 0 => hb' = hb - 1
      BY <2>2, <3>1 DEF Less
    <3>4. hb = 0 => hb' = 0
      BY <2>2 DEF Less
    <3> HIDE DEF DeadInv, Alive
    <3> QED BY <2>1, <3>1, <3>2, <3>3, <3>4
  <2>4. wake' \in [Calls -> Nat]
    BY <1>13 DEF Tick
  <2>5. ASSUME NEW c \in Calls PROVE caller'[c] = "sleep" => deadFor' + wake'[c] <= Bound
    <3>1. caller[c] = caller'[c] /\ (caller[c] = "sleep" => wake[c] > 0 /\ wake'[c] = wake[c] - 1)
      BY <1>13 DEF Tick
    <3>2. wake[c] \in Nat /\ wake'[c] \in Nat /\ deadFor \in Nat
      BY <2>4
    <3> QED BY <2>1, <3>1, <3>2
  <2>6. ASSUME NEW c \in Calls
        PROVE  caller'[c] \notin {"publish", "poll", "recheck", "deadline"}
    BY <1>13 DEF Tick
  <2> QED BY <1>13, <2>1, <2>2, <2>3, <2>4, <2>5, <2>6 DEF Tick
<1>14. ASSUME NEW d \in Calls, OnMessage(d) PROVE (DeadInv /\ wake \in [Calls -> Nat])'
  BY <1>14 DEF OnMessage
<1>15. ASSUME NEW d \in Calls, ReplyLands(d) PROVE (DeadInv /\ wake \in [Calls -> Nat])'
  BY <1>15 DEF ReplyLands
<1>16. ASSUME NEW d \in Calls, ReplyFails(d) PROVE (DeadInv /\ wake \in [Calls -> Nat])'
  BY <1>16 DEF ReplyFails
<1>17. ASSUME NEW d \in Calls, CheckAlive(d) PROVE (DeadInv /\ wake \in [Calls -> Nat])'
  BY <1>17 DEF CheckAlive
<1>18. ASSUME NEW d \in Calls, Publish(d) PROVE (DeadInv /\ wake \in [Calls -> Nat])'
  BY <1>18 DEF Publish
<1>19. ASSUME NEW d \in Calls, WakeUp(d) PROVE (DeadInv /\ wake \in [Calls -> Nat])'
  BY <1>19 DEF WakeUp
<1>20. ASSUME NEW d \in Calls, GetDelReply(d) PROVE (DeadInv /\ wake \in [Calls -> Nat])'
  BY <1>20 DEF GetDelReply
<1>21. ASSUME NEW d \in Calls, Recheck(d) PROVE (DeadInv /\ wake \in [Calls -> Nat])'
  BY <1>21 DEF Recheck
<1>22. ASSUME NEW d \in Calls, Deadline(d) PROVE (DeadInv /\ wake \in [Calls -> Nat])'
  BY <1>22 DEF Deadline
<1>23. ASSUME NEW d \in Calls, NEW s \in Statuses, HandlerReturns(d, s)
       PROVE (DeadInv /\ wake \in [Calls -> Nat])'
  BY <1>23 DEF HandlerReturns
<1>24. CASE UNCHANGED vars
  BY <1>24 DEF vars
<1> QED
  BY <1>1, <1>2, <1>3, <1>4, <1>5, <1>6, <1>7, <1>8, <1>9, <1>10, <1>11, <1>12, <1>13,
     <1>14, <1>15, <1>16, <1>17, <1>18, <1>19, <1>20, <1>21, <1>22, <1>23, <1>24
     DEF Next, ExecutorStep, CallerStep

\* No caller waits for a dead process longer than its heartbeat key can live
\* plus one poll, for any parameters with a first sleep within that bound.
THEOREM DeadDetectedSoonAlways ==
  FirstWait <= HeartbeatTTL + Poll => (Spec => []DeadDetectedSoon)
<1> SUFFICES ASSUME FirstWait <= Bound PROVE Spec => []DeadDetectedSoon
  BY BoundFact
<1>1. Init => DeadInv /\ wake \in [Calls -> Nat]
  BY TransportAssumption, TTLFact, BoundFact DEF Init, DeadInv, Alive
<1>2. IInv /\ DeadInv /\ wake \in [Calls -> Nat] /\ [Next]_vars
        => (DeadInv /\ wake \in [Calls -> Nat])'
  BY DeadStep DEF IInv, TypeOK
<1>3. DeadInv /\ IInv => DeadDetectedSoon
  BY BoundFact, TTLFact, TransportAssumption
     DEF DeadInv, DeadDetectedSoon, IInv, TypeOK, CallTypeOK, Over, Asleep
<1> QED BY <1>1, <1>2, <1>3, TransportInvariant, PTL DEF Spec

=============================================================================
