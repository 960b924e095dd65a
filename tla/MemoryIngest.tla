---------------------------- MODULE MemoryIngest ----------------------------
(***************************************************************************)
(* The memory-ingest control loop for one session: finished exchanges of   *)
(* the active path go to a memory provider in order, with a checkpoint     *)
(* (cursor) after each, while the user adds turns, answers, edits and      *)
(* branches.                                                               *)
(*                                                                         *)
(* Turns are numbered in the order of their creation, so a path is a set   *)
(* read in increasing order. The provider is known by what                 *)
(* ZepMemoryProvider makes of its answers. Time is counted in intervals of *)
(* the loop: no unit passes without a pass.                                *)
(***************************************************************************)
EXTENDS Naturals, Sequences, FiniteSets, FiniteSetsExt

CONSTANTS MaxTurns,       \* bound on turns
          MaxExchanges,   \* maxExchangesPerSession
          Lookback,       \* lookbackMs
          PauseTimeout,   \* pauseTimeoutMs
          ExecTime,       \* the execution time-out of a turn
          MaxFaults       \* bound on provider errors, lost writes, crashes

ASSUME IngestAssumption ==
  /\ {MaxTurns, MaxExchanges, Lookback, PauseTimeout} \subseteq Nat \ {0}
  /\ {ExecTime, MaxFaults} \subseteq Nat

VARIABLES prev, input, state,  \* turn rows: previous_turn_id, input, state
          tip,       \* last_turn_details.id, 0: no turn yet
          age, idle, \* units since the tip was created, since it finished
          cursor,    \* the checkpoint row: last turn, thread, last_error
          pass,      \* "off", "turns", "send", "save", "fail"
          seen,      \* the candidate row of this pass: its tip
          waited,    \* its pause time-out is over by the clock of the pass
          queue,     \* exchanges of this pass still to send
          local,     \* what the pass will write: last turn, thread, hint
          ran,       \* a pass has ended in this unit
          times,     \* how often the messages of a turn have been stored
          sent,      \* turns in stored exchanges
          newest,    \* last_turn_id of the newest exchange in the thread
          made,      \* threads created
          covered,   \* turns in exchanges that were accepted or had no messages
          faults,
          excused,   \* a checkpoint was lost, the user went back to a branch that had
                     \* been left, or branched while an attempt was unclear
          grown      \* the user went on with a paused exchange whose attempt was unclear

turnVars == <<prev, input, state, tip>>
timeVars == <<age, idle>>
passVars == <<pass, seen, waited, queue, local>>
provVars == <<times, sent, newest, made, covered>>
histVars == <<excused, grown>>
vars == <<turnVars, timeVars, cursor, passVars, ran, provVars, faults, histVars>>

Turns == DOMAIN prev
\* A user message, an answer to a question, or neither (approval, resume).
Inputs == {"message", "answer", "resume"}
NoCursor == [turn |-> 0, thread |-> 0, error |-> FALSE]
NoLocal == [turn |-> 0, thread |-> 0, hint |-> FALSE]

Init ==
  /\ prev = <<>> /\ input = <<>> /\ state = <<>>
  /\ tip = 0 /\ age = 0 /\ idle = 0
  /\ cursor = NoCursor
  /\ pass = "off" /\ seen = 0 /\ waited = FALSE /\ queue = <<>> /\ local = NoLocal
  /\ ran = FALSE
  /\ times = <<>> /\ sent = {} /\ newest = 0 /\ made = 0 /\ covered = {}
  /\ faults = 0 /\ excused = FALSE /\ grown = FALSE

Fault == faults < MaxFaults /\ faults' = faults + 1

(***************************************************************************)
(* Paths and exchanges (memory/exchanges.ts).                              *)
(***************************************************************************)

\* A turn and its ancestors.
Ancestry ==
  LET f[t \in 0..Len(prev)] == IF t = 0 THEN {} ELSE {t} \cup f[prev[t]]
  IN  f
ActivePath(t) == Ancestry[t]

LastOf(S) == IF S = {} THEN 0 ELSE Max(S)

\* The last ingested turn when it is on the path, else the fork point.
ResumeAfter(path, last) == LastOf(Ancestry[last] \cap path)

Ended(t) == t # 0 /\ state[t] \in {"done", "failed"}

\* Where buildExchanges begins a new exchange.
StartsExchange(S, t) ==
  \/ \A u \in S : t <= u
  \/ input[t] = "message"
  \/ Ended(prev[t])

ExchangeFrom(S, s) ==
  {t \in S : t >= s /\ \A u \in S : s < u /\ u <= t => ~StartsExchange(S, u)}

BuildExchanges(S) == {ExchangeFrom(S, s) : s \in {t \in S : StartsExchange(S, t)}}

\* An exchange followed by another one is closed; the last one has the status
\* of its last turn.
IsReady_Running(S, e) == TRUE
IsReady(S, e) ==
  \/ Max(e) # Max(S)
  \/ Ended(Max(e))
  \/ state[Max(e)] = "paused" /\ waited

\* The ready exchanges in order, up to the limit and the first unready one.
ReadyExchanges(S) ==
  LET before(e) == {d \in BuildExchanges(S) : Max(d) < Max(e)}
      ready == {e \in BuildExchanges(S) :
                  /\ \A d \in before(e) \cup {e} : IsReady(S, d)
                  /\ Cardinality(before(e)) < MaxExchanges}
  IN  [i \in 1..Cardinality(ready) |->
         CHOOSE e \in ready : Cardinality(before(e)) = i - 1]

\* An exchange of resumes and approvals only, without a reply, has nothing to send.
Renders(e) == "done" = state[Max(e)] \/ {input[t] : t \in e} # {"resume"}

(***************************************************************************)
(* The session.                                                            *)
(***************************************************************************)

\* An answer or a resume after a turn that waits goes on with its exchange.
Continues(p, i) == p # 0 /\ i # "message" /\ ~Ended(p)

\* Stored by an attempt whose outcome the session does not know.
Unclear(t) == t \in sent \ Ancestry[cursor.turn] /\ pass # "save"

\* A new turn on any turn (0: none) freezes that turn if it is running.
NewTurn(p, i) ==
  /\ Len(prev) < MaxTurns
  /\ p = 0 => i = "message"
  /\ prev' = Append(prev, p) /\ input' = Append(input, i)
  /\ state' = Append([t \in Turns |-> IF t = p /\ state[t] = "running" THEN "failed"
                                      ELSE state[t]], "running")
  /\ tip' = Len(prev) + 1
  /\ age' = 0 /\ idle' = 0
  /\ times' = Append(times, 0)
  /\ excused' = (excused \/ (p # 0 /\ p \notin ActivePath(tip))
                         \/ (p # tip /\ (cursor.error \/ pass # "off")))
  /\ grown' = (grown \/ (Continues(p, i) /\ Unclear(p)))
  /\ UNCHANGED <<cursor, passVars, ran, sent, newest, made, covered, faults>>

FinishTurn(t, s) ==
  /\ state[t] = "running"
  /\ state' = [state EXCEPT ![t] = s]
  /\ UNCHANGED <<prev, input, tip, timeVars, cursor, passVars, ran, provVars,
                 faults, histVars>>

(***************************************************************************)
(* The pass.                                                               *)
(***************************************************************************)

IsCandidate_RecentOnly == tip # 0 /\ cursor.turn # tip /\ age < Lookback

\* listCandidateSessions: recent, or paused for a time-out and not too long ago.
IsCandidate ==
  /\ tip # 0
  /\ cursor.turn # tip
  /\ \/ age < Lookback
     \/ state[tip] = "paused" /\ PauseTimeout <= age /\ age < PauseTimeout + Lookback

EndPass ==
  /\ pass' = "off" /\ seen' = 0 /\ waited' = FALSE /\ queue' = <<>> /\ local' = NoLocal
  /\ ran' = TRUE

ListCandidates ==
  /\ pass = "off" /\ ~ran
  /\ IF IsCandidate
     THEN /\ pass' = "turns" /\ seen' = tip /\ waited' = (idle >= PauseTimeout)
          /\ local' = [turn |-> cursor.turn, thread |-> cursor.thread, hint |-> cursor.error]
          /\ UNCHANGED <<queue, ran>>
     ELSE EndPass
  /\ UNCHANGED <<turnVars, timeVars, cursor, provVars, faults, histVars>>

\* listSessionTurns, then the ready exchanges of the candidate's path.
ListTurns ==
  /\ pass = "turns"
  /\ LET path == ActivePath(seen)
         rest == {t \in path : t > ResumeAfter(path, local.turn)}
     IN  IF rest = {} \/ ReadyExchanges(rest) = <<>>
         THEN EndPass
         ELSE /\ queue' = ReadyExchanges(rest)
              /\ pass' = "send"
              /\ UNCHANGED <<seen, waited, local, ran>>
  /\ UNCHANGED <<turnVars, timeVars, cursor, provVars, faults, histVars>>

Exchange == Head(queue)

\* threadHasExchange: asked only after a failed attempt, of the known thread.
AlreadyStored_NotAsked == FALSE
AlreadyStored == local.thread # 0 /\ local.hint /\ newest = Max(Exchange)

\* The provider answers: stored, or found stored; or nothing to send.
Store(e) ==
  /\ times' = [t \in Turns |-> IF t \in e THEN times[t] + 1 ELSE times[t]]
  /\ sent' = sent \cup e
  /\ newest' = Max(e)
WithThread ==
  /\ made' = IF local.thread = 0 THEN made + 1 ELSE made
  /\ local' = [local EXCEPT !.thread = made', !.hint = FALSE]

IngestExchange ==
  /\ pass = "send"
  /\ pass' = "save"
  /\ covered' = covered \cup Exchange
  /\ \/ /\ Renders(Exchange) /\ ~AlreadyStored
        /\ Store(Exchange) /\ WithThread
     \/ /\ Renders(Exchange) /\ AlreadyStored
        /\ local' = [local EXCEPT !.hint = FALSE]
        /\ UNCHANGED <<times, sent, newest, made>>
     \/ /\ ~Renders(Exchange)
        /\ UNCHANGED <<times, sent, newest, made, local>>
  /\ UNCHANGED <<turnVars, timeVars, cursor, seen, waited, queue, ran, faults, histVars>>

\* The user has gone on with the exchange since the pass read it.
GoneOn(e) == \E t \in ActivePath(tip) : prev[t] = Max(e) /\ ~StartsExchange(Turns, t)

\* An error, perhaps after the messages were stored; the error hands
\* back the thread.
IngestFails(stored) ==
  /\ pass = "send" /\ Renders(Exchange)
  /\ Fault
  /\ pass' = "fail"
  /\ IF stored /\ ~AlreadyStored
     THEN /\ Store(Exchange) /\ WithThread
          /\ grown' = (grown \/ GoneOn(Exchange))
     ELSE UNCHANGED <<times, sent, newest, made, local, grown>>
  /\ UNCHANGED <<turnVars, timeVars, cursor, seen, waited, queue, ran, covered, excused>>

SaveError_Advances ==
  /\ pass = "fail"
  /\ cursor' = [turn |-> Max(Exchange), thread |-> local.thread, error |-> TRUE]
  /\ EndPass
  /\ UNCHANGED <<turnVars, timeVars, provVars, faults, histVars>>

\* upsertCursor with last_error: the turn stays where it was.
SaveError ==
  /\ pass = "fail"
  /\ cursor' = [turn |-> local.turn, thread |-> local.thread, error |-> TRUE]
  /\ EndPass
  /\ UNCHANGED <<turnVars, timeVars, provVars, faults, histVars>>

\* upsertCursor after an exchange.
SaveCursor ==
  /\ pass = "save"
  /\ cursor' = [turn |-> Max(Exchange), thread |-> local.thread, error |-> FALSE]
  /\ IF Len(queue) = 1
     THEN EndPass
     ELSE /\ pass' = "send" /\ queue' = Tail(queue)
          /\ local' = [local EXCEPT !.turn = Max(Exchange)]
          /\ UNCHANGED <<seen, waited, ran>>
  /\ UNCHANGED <<turnVars, timeVars, provVars, faults, histVars>>

\* The controller stops or dies, or a read fails, between two exchanges.
Interrupt ==
  /\ pass \in {"turns", "send"}
  /\ Fault
  /\ EndPass
  /\ UNCHANGED <<turnVars, timeVars, cursor, provVars, histVars>>

\* The checkpoint is not written: store failure, or the process is gone.
LoseWrite ==
  /\ pass \in {"save", "fail"}
  /\ Fault
  /\ EndPass
  /\ excused' = TRUE
  /\ UNCHANGED <<turnVars, timeVars, cursor, provVars, grown>>

(***************************************************************************)
(* Time.                                                                   *)
(***************************************************************************)

Gone == PauseTimeout + Lookback

Tick ==
  /\ ran /\ pass = "off"
  /\ tip # 0 /\ age < Gone
  /\ state[tip] = "running" => age < ExecTime
  /\ age' = age + 1
  /\ idle' = IF state[tip] = "running" THEN 0 ELSE idle + 1
  /\ ran' = FALSE
  /\ UNCHANGED <<turnVars, cursor, passVars, provVars, faults, histVars>>

Next ==
  \/ \E p \in 0..Len(prev), i \in Inputs : NewTurn(p, i)
  \/ \E t \in Turns, s \in {"done", "failed", "paused"} : FinishTurn(t, s)
  \/ ListCandidates \/ ListTurns \/ IngestExchange \/ SaveCursor \/ SaveError
  \/ Interrupt \/ LoseWrite
  \/ \E stored \in BOOLEAN : IngestFails(stored)
  \/ Tick

Spec == Init /\ [][Next]_vars

(***************************************************************************)
(* Properties.                                                             *)
(***************************************************************************)

\* Type correctness: the rows of a turn exist together and point backwards.
TypeOK ==
  /\ Len(prev) <= MaxTurns
  /\ Turns = DOMAIN input /\ Turns = DOMAIN state /\ Turns = DOMAIN times
  /\ \A t \in Turns : prev[t] \in 0..t-1
  /\ \A t \in Turns : state[t] \in {"running", "done", "failed", "paused"}
  /\ tip = Len(prev) /\ age \in 0..Gone /\ idle \in 0..Gone
  /\ cursor.turn \in 0..tip
  /\ pass \in {"off", "turns", "send", "save", "fail"}
  /\ pass \in {"send", "save", "fail"} => queue # <<>>
  /\ covered \subseteq Turns

\* The checkpoint never runs ahead: every turn on the way to it went to the
\* provider or had nothing to send, across forks, pauses, failed attempts and
\* lost writes ("the shared prefix was already sent").
NothingSkipped == Ancestry[cursor.turn] \subseteq covered

\* A turn is sent only when it can no longer change: no stored turn is running.
SentIsFinal == \A t \in sent : state[t] # "running"

\* "A retry doesn't store it twice": no turn is stored twice, in whatever
\* exchanges, unless a checkpoint was lost, the user went back to an abandoned
\* branch, or branched or went on with the exchange between an unclear attempt
\* and its retry.
StoredOnce == ~excused /\ ~grown => \A t \in Turns : times[t] <= 1

\* The same promise of mayAlreadyBeStored as its comment has it, without the
\* last exception. The code breaks it: the retry of an exchange that has grown
\* has another last turn, which the check for stored messages does not match.
RetryStoresOnce == ~excused => \A t \in Turns : times[t] <= 1

\* Nothing is dropped silently: with a working provider, a session that leaves
\* the look-back window has been ingested up to its tip, a paused one when it
\* leaves the window after the pause time-out. It holds as long as the passes of
\* the window can take the backlog, MaxExchanges each.
IngestedInTime ==
  faults = 0 /\ tip # 0 =>
    /\ age >= Lookback /\ state[tip] # "paused" => cursor.turn = tip
    /\ age >= Gone => cursor.turn = tip
=============================================================================
