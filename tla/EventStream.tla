----------------------------- MODULE EventStream -----------------------------
(***************************************************************************)
(* One turn's resumable event stream: the producer (drainTurnEvents), the  *)
(* two EventSubscription backends and the subscribers that poll it.        *)
(*                                                                         *)
(* Event k is the k-th event the drain puts; the first is turn.created (or *)
(* turn.done when the turn died before it started), the last is turn.done. *)
(* Time is counted in units of the admission threshold.                    *)
(***************************************************************************)
EXTENDS Integers, Sequences, FiniteSetsExt

CONSTANTS Subscribers,
          Backends,     \* subset of {"memory", "redis"}
          MaxPuts,      \* bound on the events of the turn
          BatchSize,    \* SUBSCRIBE_STREAM_POLL_ITEMS_COUNT
          ExecTime,     \* SERVER_EXECUTION_TIMEOUT_SECONDS, and unwinding
          StreamTTL,    \* TURN_STREAM_TTL_SECONDS
          PostTTL,      \* TURN_STREAM_POST_COMPLETION_TTL_SECONDS
          Threshold,    \* SUBSCRIBE_STREAM_THRESHOLD_MS
          MaxTime       \* bound on the clock

ASSUME StreamAssumption ==
  /\ Backends \subseteq {"memory", "redis"}
  /\ MaxPuts \in Nat /\ ExecTime \in Nat /\ MaxTime \in Nat
  /\ {BatchSize, StreamTTL, PostTTL, Threshold} \subseteq Nat \ {0}

VARIABLES backend,  \* the EventSubscription the server is configured with
          now,
          producer, \* "running", "done" (put turn.done) or "stopped"
          puts,     \* events put so far
          present,  \* the stream has a log or a Redis key
          entries,  \* its entries, [seq, event, last]
          expires,  \* its expiry time, NoExpiry when it has none
          sub       \* the subscribers

vars == <<backend, now, producer, puts, present, entries, expires, sub>>

NoExpiry == 0 - 1
Entry == [seq : Nat, event : Nat, last : BOOLEAN]

(* Subscriber states: "checking" the stream, "reading" it (XREAD after     *)
(* EXISTS), "waiting" for a change or for the poll interval, "yielding" a  *)
(* batch; ended by turn.done, by StreamGoneError or by its abort signal;   *)
(* "refused" with 412.                                                     *)
SubStates == {"idle", "admitted", "checking", "reading", "waiting", "yielding",
              "complete", "gone", "aborted", "refused"}
Ended == {"complete", "gone", "aborted", "refused"}

-----------------------------------------------------------------------------
(* getLiveStream, EXISTS: past its expiry a stream is not there. *)
Live == present /\ (expires = NoExpiry \/ now < expires)

Woken_NotWoken == sub

(* changes.emit wakes the parked pollers; a Redis poller wakes by itself. *)
Woken ==
  [s \in Subscribers |->
     IF backend = "memory" /\ sub[s].pc = "waiting"
     THEN [sub[s] EXCEPT !.pc = "checking"] ELSE sub[s]]

(* A look at the stream by s: an expired one is dropped on the way, which  *)
(* wakes the other pollers; s continues as new.                            *)
Look(s, new) ==
  /\ sub' = [IF Live THEN sub ELSE Woken EXCEPT ![s] = new]
  /\ IF Live THEN UNCHANGED <<present, entries, expires>>
     ELSE present' = FALSE /\ entries' = <<>> /\ expires' = NoExpiry
  /\ UNCHANGED <<backend, now, producer, puts>>

(* A step of s that does not touch the stream *)
Move(s, new) ==
  /\ sub' = [sub EXCEPT ![s] = new]
  /\ UNCHANGED <<backend, now, producer, puts, present, entries, expires>>

StreamTTLFor_Shortest(first, last) == IF first \/ last THEN PostTTL ELSE NoExpiry

(* streamTTLSecondsFor: turn.done, and otherwise turn.created, set the TTL *)
StreamTTLFor(first, last) ==
  IF last THEN PostTTL ELSE IF first THEN StreamTTL ELSE NoExpiry

(* The in-memory log numbers an entry by its position, the Redis producer  *)
(* by its own counter.                                                     *)
SequenceNumber ==
  CASE backend = "redis"  -> puts + 1
    [] backend = "memory" -> IF Live THEN Len(entries) + 1 ELSE 1

(* put: append, and set the TTL with the append. *)
Put(last) ==
  LET old == IF Live THEN entries ELSE <<>>
      ttl == StreamTTLFor(puts = 0, last)
  IN
  /\ producer = "running" /\ puts < MaxPuts
  /\ puts' = puts + 1
  /\ present' = TRUE
  /\ entries' = Append(old, [seq   |-> SequenceNumber,
                             event |-> puts + 1, last |-> last])
  /\ expires' = CASE ttl # NoExpiry -> now + ttl
                  [] OTHER          -> IF Live THEN expires ELSE NoExpiry
  /\ producer' = IF last THEN "done" ELSE producer
  /\ sub' = Woken
  /\ UNCHANGED <<backend, now>>

(* The producer's process dies, or a put fails and ends the drain. *)
Stop ==
  /\ producer = "running"
  /\ producer' = "stopped"
  /\ UNCHANGED <<backend, now, puts, present, entries, expires, sub>>

(* The expiry timer of the in-memory stream, the eviction of the key. *)
Expire ==
  /\ present /\ ~Live
  /\ present' = FALSE
  /\ entries' = <<>>
  /\ expires' = NoExpiry
  /\ sub' = Woken
  /\ UNCHANGED <<backend, now, producer, puts>>

(* A run is aborted at the execution timeout and has ended by ExecTime. *)
Tick ==
  /\ now < MaxTime
  /\ producer = "running" => now < ExecTime
  /\ now' = now + 1
  /\ UNCHANGED <<backend, producer, puts, present, entries, expires, sub>>

-----------------------------------------------------------------------------
(* assertSubscribable *)
Subscribable == Live /\ (expires = NoExpiry \/ expires - now >= Threshold)

(* subscribeTurnHandler's admission check *)
Subscribe(s, after) ==
  /\ sub[s].pc = "idle"
  /\ Look(s, [sub[s] EXCEPT !.pc = IF Subscribable THEN "admitted" ELSE "refused",
                            !.from = after, !.cursor = after])

Start(s) ==
  /\ sub[s].pc = "admitted"
  /\ Move(s, [sub[s] EXCEPT !.pc = "checking"])

(* What poll finds after its cursor: the rest of the in-memory log, by     *)
(* position; in Redis at most COUNT entries, from the first with a greater *)
(* sequence number.                                                        *)
Unread(cursor) ==
  LET later == {i \in 1..Len(entries) : entries[i].seq > cursor}
      count == Min({BatchSize, Len(entries) + 1 - Min(later)})
  IN  IF backend = "memory" THEN SubSeq(entries, cursor + 1, Len(entries))
      ELSE IF later = {} THEN <<>>
      ELSE SubSeq(entries, Min(later), Min(later) + count - 1)

WithBatch(s) ==
  LET new == Unread(sub[s].cursor)
  IN  [sub[s] EXCEPT !.pc = IF new = <<>> THEN "waiting" ELSE "yielding",
                     !.batch = new]

(* One round of the poll loop.  In memory the check, the read and the      *)
(* registration of the listener happen without an await.                   *)
Check(s) ==
  /\ sub[s].pc = "checking"
  /\ \/ ~Live /\ Look(s, [sub[s] EXCEPT !.pc = "gone"])
     \/ Live /\ backend = "memory" /\ Look(s, WithBatch(s))
     \/ Live /\ backend = "redis" /\ Look(s, [sub[s] EXCEPT !.pc = "reading"])

(* XREAD of a stream that expired after EXISTS returns nothing. *)
Read(s) ==
  /\ sub[s].pc = "reading"
  /\ Look(s, IF Live THEN WithBatch(s) ELSE [sub[s] EXCEPT !.pc = "waiting"])

(* SUBSCRIBE_STREAM_POLL_SLEEP_INTERVAL_MS *)
WakeUp(s) ==
  /\ backend = "redis" /\ sub[s].pc = "waiting"
  /\ Move(s, [sub[s] EXCEPT !.pc = "checking"])

Yield_DropsBatchTail(s) ==
  /\ sub[s].pc = "yielding"
  /\ LET e == Head(sub[s].batch)
     IN  Move(s, [sub[s] EXCEPT
           !.got = Append(@, e), !.batch = <<>>,
           !.cursor = @ + Len(sub[s].batch),
           !.pc = IF e.last THEN "complete" ELSE "checking"])

(* The handler writes an event and stops at turn.done. *)
Yield(s) ==
  /\ sub[s].pc = "yielding"
  /\ LET e == Head(sub[s].batch)
         rest == Tail(sub[s].batch)
     IN  Move(s, [sub[s] EXCEPT
           !.got = Append(@, e), !.batch = rest,
           !.cursor = IF backend = "memory" THEN @ + 1 ELSE e.seq,
           !.pc = IF e.last THEN "complete"
                  ELSE IF rest = <<>> THEN "checking" ELSE "yielding"])

(* Client disconnect, or TURN_SUBSCRIBE_TIMEOUT_MS. *)
Abort(s) ==
  /\ sub[s].pc \notin Ended \cup {"idle"}
  /\ Move(s, [sub[s] EXCEPT !.pc = "aborted"])

-----------------------------------------------------------------------------
Init ==
  /\ backend \in Backends
  /\ now = 0
  /\ producer = "running"
  /\ puts = 0
  /\ present = FALSE
  /\ entries = <<>>
  /\ expires = NoExpiry
  /\ sub = [s \in Subscribers |-> [pc |-> "idle", from |-> 0, cursor |-> 0,
                                   batch |-> <<>>, got |-> <<>>]]

Step(s) == Start(s) \/ Check(s) \/ Read(s) \/ WakeUp(s) \/ Yield(s)

(* A client resumes after a sequence number it has seen. *)
Next ==
  \/ \E last \in BOOLEAN : Put(last)
  \/ Stop \/ Expire \/ Tick
  \/ \E s \in Subscribers :
       (\E after \in 0..puts : Subscribe(s, after)) \/ Step(s) \/ Abort(s)

Spec == Init /\ [][Next]_vars

(* Time passes, timers fire, a run ends one way or the other, and a        *)
(* subscriber's own steps are taken; it need not abort.                    *)
Fairness ==
  /\ WF_vars(Tick) /\ WF_vars(Expire) /\ WF_vars(Put(TRUE) \/ Stop)
  /\ \A s \in Subscribers : WF_vars(Step(s))

FairSpec == Spec /\ Fairness

-----------------------------------------------------------------------------
(* Type invariant: the clock, the stream and its subscribers. *)
TypeOK ==
  /\ backend \in Backends
  /\ now \in Nat /\ puts \in Nat
  /\ producer \in {"running", "done", "stopped"}
  /\ present \in BOOLEAN
  /\ entries \in Seq(Entry)
  /\ expires \in Int
  /\ sub \in [Subscribers -> [pc : SubStates, from : Nat, cursor : Nat,
                              batch : Seq(Entry), got : Seq(Entry)]]

(* Resume is exact: a subscriber that resumed after n is sent the events   *)
(* n+1, n+2, ... with those sequence numbers, without a gap, a duplicate   *)
(* or a reordering, however puts, batches and waits interleave; and it is  *)
(* complete only with the turn's last event.                               *)
ResumeExact ==
  \A s \in Subscribers :
    /\ \A i \in 1..Len(sub[s].got) :
         /\ sub[s].got[i].event = sub[s].from + i
         /\ sub[s].got[i].seq = sub[s].from + i
    /\ sub[s].pc = "complete" =>
         producer = "done" /\ sub[s].from + Len(sub[s].got) = puts

(* Once the first event is dual-written (which is when the JSON create     *)
(* response is sent) a running turn can be subscribed to: its stream does  *)
(* not run into the admission threshold before the run is over.            *)
RunningSubscribable ==
  producer = "running" /\ puts > 0 => Subscribable

(* A subscriber is not left waiting for ever, with no help from its own    *)
(* timeout: it gets turn.done or sees the stream go.                       *)
SubscribersEnd ==
  \A s \in Subscribers : sub[s].pc # "idle" ~> sub[s].pc \in Ended
=============================================================================
