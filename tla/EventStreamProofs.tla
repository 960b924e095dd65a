-------------------------- MODULE EventStreamProofs --------------------------
(***************************************************************************)
(* Resuming a turn's stream, for any subscribers, batch size, number of    *)
(* events and time-to-live that covers the run.  The stream holds exactly  *)
(* the events put so far, numbered in order, as long as it is there, and   *)
(* a subscriber's cursor, batch and output are consecutive parts of it.    *)
(***************************************************************************)
EXTENDS EventStream, SequenceTheorems, TLAPS

(* The stream of a running turn outlives the run by the threshold: the     *)
(* configuration's default TTL is the execution timeout plus 300 seconds.  *)
TTLCoversRun == ExecTime + Threshold <= StreamTTL

(* An entry is the n-th event under number n; turn.done is the last of the *)
(* p events put, and the producer is done with it.                         *)
Exact(e, n, p, prod) ==
  /\ e.seq = n /\ e.event = n
  /\ e.last => prod = "done" /\ n = p

LogInv ==
  /\ present => Len(entries) = puts /\ \A i \in 1..puts : Exact(entries[i], i, puts, producer)
  /\ puts = 0 => ~present

(* While the producer runs the stream cannot have expired. *)
RunInv ==
  producer = "running" =>
    now <= ExecTime /\ (puts > 0 => present /\ expires >= StreamTTL)

Following(u, p, prod) ==
  /\ u.cursor = u.from + Len(u.got)
  /\ u.cursor <= p
  /\ \A i \in 1..Len(u.got) : u.got[i].event = u.from + i /\ u.got[i].seq = u.from + i
  /\ u.pc = "idle" => u.got = <<>>
  /\ u.pc = "yielding" =>
       /\ u.batch # <<>>
       /\ u.cursor + Len(u.batch) <= p
       /\ \A j \in 1..Len(u.batch) : Exact(u.batch[j], u.cursor + j, p, prod)
  /\ u.pc = "complete" => prod = "done" /\ u.cursor = p

SubInv == \A s \in Subscribers : Following(sub[s], puts, producer)

StreamInv == TypeOK /\ LogInv /\ RunInv /\ SubInv

SubRecords == [pc : SubStates, from : Nat, cursor : Nat, batch : Seq(Entry), got : Seq(Entry)]
-----------------------------------------------------------------------------
LEMMA StreamInit == Init => StreamInv
<1> SUFFICES ASSUME Init PROVE StreamInv
  OBVIOUS
<1>1. <<>> \in Seq(Entry) /\ Len(<<>>) = 0
  OBVIOUS
<1>2. TypeOK
  <2>1. [pc |-> "idle", from |-> 0, cursor |-> 0, batch |-> <<>>, got |-> <<>>] \in SubRecords
    BY <1>1 DEF SubRecords, SubStates
  <2>2. sub \in [Subscribers -> SubRecords]
    BY <2>1 DEF Init
  <2>3. NoExpiry \in Int
    BY DEF NoExpiry
  <2> QED BY <1>1, <2>2, <2>3 DEF Init, TypeOK, SubRecords
<1>3. LogInv /\ RunInv
  BY StreamAssumption DEF Init, LogInv, RunInv
<1>4. SubInv
  BY <1>1 DEF Init, SubInv, Following
<1> QED BY <1>2, <1>3, <1>4 DEF StreamInv

(* Putting events, or changing the state of the subscriber to one in which *)
(* it holds nothing, leaves what it has received in order.                 *)
LEMMA FollowingKept ==
  ASSUME NEW u \in SubRecords, NEW p \in Nat, NEW q \in Nat, NEW prod, NEW prod2,
         p <= q, prod = "done" => prod2 = "done" /\ q = p, Following(u, p, prod),
         NEW pc \in SubStates \ {"idle", "yielding", "complete"}
  PROVE  /\ Following(u, q, prod2)
         /\ [u EXCEPT !.pc = pc] \in SubRecords
         /\ Following([u EXCEPT !.pc = pc], q, prod2)
<1>1. Len(u.batch) \in Nat /\ Len(u.got) \in Nat
  BY LenProperties DEF SubRecords
<1>2. Following(u, q, prod2)
  BY <1>1 DEF Following, SubRecords, Exact
<1> QED BY <1>2 DEF Following, SubRecords

LEMMA WokenFollow ==
  ASSUME TypeOK, SubInv, NEW q \in Nat, NEW prod2,
         puts <= q, producer = "done" => prod2 = "done" /\ q = puts,
         NEW s \in Subscribers
  PROVE  Woken[s] \in SubRecords /\ Following(Woken[s], q, prod2)
<1>1. sub[s] \in SubRecords /\ puts \in Nat /\ Following(sub[s], puts, producer)
  BY DEF TypeOK, SubRecords, SubInv
<1>2. "checking" \in SubStates \ {"idle", "yielding", "complete"}
  BY DEF SubStates
<1> QED BY <1>1, <1>2, FollowingKept DEF Woken

(* Steps that put nothing: the subscribers follow, the log stays or goes. *)
LEMMA NoPutKeeps ==
  ASSUME StreamInv, UNCHANGED <<backend, puts>>, now' \in Nat,
         producer' \in {"running", "done", "stopped"},
         producer = "done" <=> producer' = "done",
         producer' = "running" => producer = "running" /\ now' <= ExecTime,
         \/ UNCHANGED <<present, entries, expires>>
         \/ /\ present' = FALSE /\ entries' = <<>> /\ expires' = NoExpiry
            /\ producer' = "running" => puts = 0,
         sub' \in [Subscribers -> SubRecords],
         \A s \in Subscribers : Following(sub'[s], puts, producer')
  PROVE  StreamInv'
<1>1. TypeOK'
  <2>1. <<>> \in Seq(Entry) /\ NoExpiry \in Int
    BY DEF NoExpiry
  <2> QED BY <2>1 DEF StreamInv, TypeOK, SubRecords
<1>2. LogInv'
  BY DEF StreamInv, LogInv, Exact
<1>3. RunInv'
  BY DEF StreamInv, RunInv, TypeOK
<1>4. SubInv'
  BY DEF SubInv
<1> QED BY <1>1, <1>2, <1>3, <1>4 DEF StreamInv

(* A running turn's stream is there. *)
LEMMA RunningLive ==
  ASSUME TTLCoversRun, StreamInv, producer = "running", puts > 0
  PROVE  Live /\ Subscribable
<1>1. /\ now \in Nat /\ ExecTime \in Nat /\ StreamTTL \in Nat /\ Threshold \in Nat \ {0}
      /\ expires \in Int
  BY StreamAssumption DEF StreamInv, TypeOK
<1>2. present /\ expires >= StreamTTL /\ now <= ExecTime
  BY DEF StreamInv, RunInv
<1> QED BY <1>1, <1>2 DEF TTLCoversRun, Live, Subscribable

LEMMA PutKeeps ==
  ASSUME TTLCoversRun, StreamInv, NEW last \in BOOLEAN, Put(last)
  PROVE  StreamInv'
<1> DEFINE old == IF Live THEN entries ELSE <<>>
<1> DEFINE new == [seq |-> puts + 1, event |-> puts + 1, last |-> last]
<1>1. /\ producer = "running" /\ puts' = puts + 1 /\ present' = TRUE
      /\ producer' = IF last THEN "done" ELSE producer
      /\ sub' = Woken /\ UNCHANGED <<backend, now>> /\ puts \in Nat /\ puts' \in Nat
      /\ now \in Nat
  BY DEF Put, StreamInv, TypeOK
<1>2. /\ old \in Seq(Entry) /\ Len(old) = puts
      /\ \A i \in 1..puts : old[i].seq = i /\ old[i].event = i /\ ~old[i].last
  <2>1. CASE puts = 0
    BY <2>1 DEF StreamInv, LogInv, Live
  <2>2. CASE puts > 0
    <3>1. Live /\ present
      BY <1>1, <2>2, RunningLive DEF Live
    <3>2. \A i \in 1..puts : Exact(entries[i], i, puts, producer)
      BY <3>1 DEF StreamInv, LogInv
    <3>3. \A i \in 1..puts : entries[i].seq = i /\ entries[i].event = i /\ ~entries[i].last
      BY <1>1, <3>2 DEF Exact
    <3> QED BY <3>1, <3>3 DEF StreamInv, TypeOK, LogInv
  <2> QED BY <1>1, <2>1, <2>2
<1>3. SequenceNumber = puts + 1
  <2>1. backend \in {"memory", "redis"}
    BY StreamAssumption DEF StreamInv, TypeOK
  <2>2. Live => Len(entries) = puts
    BY <1>2
  <2>3. ~Live => puts = 0
    BY <1>1, RunningLive
  <2> QED BY <1>1, <2>1, <2>2, <2>3 DEF SequenceNumber
<1>4. new \in Entry /\ entries' = Append(old, new)
  BY <1>1, <1>3 DEF Put, Entry
<1> HIDE DEF old, new
<1>5. /\ entries' \in Seq(Entry) /\ Len(entries') = puts + 1
      /\ \A i \in 1..puts : entries'[i] = old[i]
      /\ entries'[puts + 1] = new
  BY <1>2, <1>4, AppendProperties
<1>6. LogInv'
  <2>1. ASSUME NEW i \in 1..(puts + 1) PROVE Exact(entries'[i], i, puts', producer')
    <3>1. CASE i \in 1..puts
      BY <1>2, <1>5, <3>1 DEF Exact
    <3>2. CASE i = puts + 1
      BY <1>1, <1>5, <3>2 DEF Exact, new
    <3> QED BY <1>1, <3>1, <3>2
  <2> QED BY <1>1, <1>5, <2>1 DEF LogInv
<1>7. expires' \in Int /\ (~last => expires' >= StreamTTL)
  <2>0. /\ StreamTTL \in Nat \ {0} /\ PostTTL \in Nat \ {0} /\ expires \in Int
        /\ StreamTTL # NoExpiry /\ PostTTL # NoExpiry
    BY StreamAssumption DEF StreamInv, TypeOK, NoExpiry
  <2>1. CASE last
    <3>1. expires' = now + PostTTL
      BY <2>0, <2>1 DEF Put, StreamTTLFor
    <3> QED BY <1>1, <2>0, <2>1, <3>1
  <2>2. CASE ~last /\ puts = 0
    <3>1. expires' = now + StreamTTL
      BY <2>0, <2>2 DEF Put, StreamTTLFor
    <3> QED BY <1>1, <2>0, <3>1
  <2>3. CASE ~last /\ puts > 0
    <3>1. Live
      BY <1>1, <2>3, RunningLive
    <3>2. expires' = expires
      BY <1>1, <2>0, <2>3, <3>1 DEF Put, StreamTTLFor
    <3> QED BY <1>1, <2>0, <2>3, <3>2 DEF StreamInv, RunInv
  <2> QED BY <1>1, <2>1, <2>2, <2>3
<1>8. RunInv'
  BY <1>1, <1>7 DEF StreamInv, RunInv
<1>9. \A s \in Subscribers : Woken[s] \in SubRecords /\ Following(Woken[s], puts', producer')
  <2>1. puts <= puts' /\ (producer = "done" => producer' = "done" /\ puts' = puts)
    BY <1>1
  <2> QED BY <1>1, <2>1, WokenFollow DEF StreamInv
<1>10. SubInv' /\ sub' \in [Subscribers -> SubRecords]
  <2>1. Woken \in [Subscribers -> SubRecords]
    BY <1>9 DEF Woken
  <2> QED BY <1>1, <1>9, <2>1 DEF SubInv
<1>11. TypeOK'
  BY <1>1, <1>5, <1>7, <1>10 DEF StreamInv, TypeOK, SubRecords
<1> QED BY <1>6, <1>8, <1>10, <1>11 DEF StreamInv

LEMMA ClockKeeps == ASSUME TTLCoversRun, StreamInv, Stop \/ Expire \/ Tick PROVE StreamInv'
<1>0. sub \in [Subscribers -> SubRecords]
  BY DEF StreamInv, TypeOK, SubRecords
<1>1. CASE Stop
  <2>1. \A s \in Subscribers : Following(sub[s], puts, "stopped")
    <3> TAKE s \in Subscribers
    <3>1. Following(sub[s], puts, producer) /\ sub[s] \in SubRecords
      BY <1>0 DEF StreamInv, SubInv
    <3> QED BY <1>1, <3>1 DEF Stop, Following, Exact
  <2> QED BY <1>0, <1>1, <2>1, NoPutKeeps DEF Stop, StreamInv, TypeOK
<1>2. CASE Tick
  <2>1. now' \in Nat /\ (producer = "running" => now' <= ExecTime)
    BY <1>2, StreamAssumption DEF Tick, StreamInv, TypeOK
  <2> QED BY <1>0, <1>2, <2>1, NoPutKeeps DEF Tick, StreamInv, TypeOK, SubInv
<1>3. CASE Expire
  <2>1. producer = "running" => puts = 0
    BY <1>3, RunningLive DEF Expire, StreamInv, TypeOK
  <2>2. \A s \in Subscribers : Woken[s] \in SubRecords /\ Following(Woken[s], puts, producer)
    <3>1. puts \in Nat /\ puts <= puts /\ TypeOK /\ SubInv
      BY DEF StreamInv, TypeOK
    <3> QED BY <3>1, WokenFollow
  <2>3. Woken \in [Subscribers -> SubRecords]
    BY <2>2 DEF Woken
  <2> QED BY <1>3, <2>1, <2>2, <2>3, NoPutKeeps DEF Expire, StreamInv, TypeOK, RunInv
<1> QED BY <1>1, <1>2, <1>3
-----------------------------------------------------------------------------
(* A step of a subscriber: what it becomes follows the stream. *)
LEMMA MoveKeeps ==
  ASSUME StreamInv, NEW s \in Subscribers, NEW u \in SubRecords,
         Following(u, puts, producer), Move(s, u)
  PROVE  StreamInv'
<1>1. sub' \in [Subscribers -> SubRecords] /\ UNCHANGED <<backend, now, producer, puts, present, entries, expires>>
  BY DEF Move, StreamInv, TypeOK, SubRecords
<1>2. \A x \in Subscribers : Following(sub'[x], puts, producer')
  BY <1>1 DEF Move, StreamInv, SubInv, TypeOK
<1>3. now' \in Nat /\ producer' \in {"running", "done", "stopped"}
      /\ (producer' = "running" => now' <= ExecTime)
  BY <1>1 DEF StreamInv, TypeOK, RunInv
<1> QED BY <1>1, <1>2, <1>3, NoPutKeeps

LEMMA LookKeeps ==
  ASSUME TTLCoversRun, StreamInv, NEW s \in Subscribers, NEW u \in SubRecords,
         Following(u, puts, producer), Look(s, u)
  PROVE  StreamInv'
<1>1. UNCHANGED <<backend, now, producer, puts>>
  BY DEF Look
<1>2. puts \in Nat /\ puts <= puts /\ TypeOK /\ SubInv /\ sub \in [Subscribers -> SubRecords]
  BY DEF StreamInv, TypeOK, SubRecords
<1>3. \A x \in Subscribers : Woken[x] \in SubRecords /\ Following(Woken[x], puts, producer)
  BY <1>2, WokenFollow
<1>4. Woken \in [Subscribers -> SubRecords]
  BY <1>3 DEF Woken
<1>5. /\ sub' \in [Subscribers -> SubRecords]
      /\ \A x \in Subscribers : Following(sub'[x], puts, producer)
  BY <1>2, <1>3, <1>4 DEF Look, SubInv
<1>6. \/ UNCHANGED <<present, entries, expires>>
      \/ /\ present' = FALSE /\ entries' = <<>> /\ expires' = NoExpiry
         /\ producer' = "running" => puts = 0
  <2>1. ~Live => (producer = "running" => puts = 0)
    BY <1>2, RunningLive
  <2> QED BY <1>1, <2>1 DEF Look
<1>7. now' \in Nat /\ producer' \in {"running", "done", "stopped"}
      /\ (producer' = "running" => now' <= ExecTime)
  BY <1>1 DEF StreamInv, TypeOK, RunInv
<1> QED BY <1>1, <1>5, <1>6, <1>7, NoPutKeeps

(* poll reads the events that follow the cursor, in order. *)
LEMMA UnreadIsNext ==
  ASSUME StreamInv, Live, NEW c \in Nat, c <= puts
  PROVE  /\ Unread(c) \in Seq(Entry)
         /\ c + Len(Unread(c)) <= puts
         /\ \A j \in 1..Len(Unread(c)) : Exact(Unread(c)[j], c + j, puts, producer)
<1>1. /\ entries \in Seq(Entry) /\ puts \in Nat /\ Len(entries) = puts
      /\ \A i \in 1..puts : Exact(entries[i], i, puts, producer) /\ entries[i] \in Entry
  <2>1. entries \in Seq(Entry) /\ puts \in Nat /\ Len(entries) = puts
        /\ \A i \in 1..puts : Exact(entries[i], i, puts, producer)
    BY DEF StreamInv, TypeOK, LogInv, Live
  <2> QED BY <2>1, ElementOfSeq
<1>2. ASSUME NEW n \in Int, c <= n, n <= puts
      PROVE  /\ SubSeq(entries, c + 1, n) \in Seq(Entry)
             /\ Len(SubSeq(entries, c + 1, n)) = n - c
             /\ \A j \in 1..(n - c) :
                  Exact(SubSeq(entries, c + 1, n)[j], c + j, puts, producer)
  <2>1. \A i \in (c + 1)..n : entries[i] \in Entry
    BY <1>1, <1>2
  <2>2. c + 1 \in Int
    OBVIOUS
  <2>3. /\ SubSeq(entries, c + 1, n) \in Seq(Entry)
        /\ Len(SubSeq(entries, c + 1, n)) = IF c + 1 <= n THEN n - (c + 1) + 1 ELSE 0
        /\ \A i \in 1 .. n - (c + 1) + 1 : SubSeq(entries, c + 1, n)[i] = entries[(c + 1) + i - 1]
    BY <1>2, <2>1, <2>2, SubSeqProperties
  <2>4. ASSUME NEW j \in 1..(n - c)
        PROVE  Exact(SubSeq(entries, c + 1, n)[j], c + j, puts, producer)
    <3>1. SubSeq(entries, c + 1, n)[j] = entries[(c + 1) + j - 1] /\ (c + 1) + j - 1 = c + j
      BY <1>2, <2>3
    <3>2. c + j \in 1..puts
      BY <1>1, <1>2
    <3> QED BY <1>1, <3>1, <3>2
  <2>5. Len(SubSeq(entries, c + 1, n)) = n - c
    BY <1>2, <2>3
  <2> QED BY <2>3, <2>4, <2>5
<1>3. CASE backend = "memory"
  <2>1. Unread(c) = SubSeq(entries, c + 1, puts)
    BY <1>1, <1>3 DEF Unread
  <2> QED BY <1>1, <1>2, <2>1
<1>4. CASE backend # "memory"
  <2> DEFINE later == {i \in 1..Len(entries) : entries[i].seq > c}
  <2>1. later = (c + 1)..puts
    BY <1>1 DEF Exact
  <2>2. CASE later = {}
    <3>1. Unread(c) = <<>>
      BY <1>4, <2>2 DEF Unread
    <3> QED BY <1>1, <3>1
  <2>3. CASE later # {}
    <3>1. c + 1 \in later /\ c < puts
      BY <1>1, <2>1, <2>3
    <3>2. Min(later) = c + 1
      BY <1>1, <2>1, <3>1 DEF Min
    <3> DEFINE count == Min({BatchSize, Len(entries) + 1 - Min(later)})
    <3>3. count \in {BatchSize, puts - c} /\ count <= puts - c
      <4>1. BatchSize \in Nat \ {0}
        BY StreamAssumption
      <4>2. Len(entries) + 1 - Min(later) = puts - c /\ puts - c \in Nat
        BY <1>1, <3>1, <3>2
      <4>3. \A a, b \in Nat : Min({a, b}) \in {a, b} /\ Min({a, b}) <= b
        <5> TAKE a, b \in Nat
        <5>1. \E x \in {a, b} : \A y \in {a, b} : x <= y
          OBVIOUS
        <5>2. Min({a, b}) \in {a, b} /\ \A y \in {a, b} : Min({a, b}) <= y
          BY <5>1 DEF Min
        <5> QED BY <5>2
      <4> QED BY <4>1, <4>2, <4>3
    <3>4. Unread(c) = SubSeq(entries, c + 1, c + 1 + count - 1)
      BY <1>4, <2>3, <3>2 DEF Unread
    <3>5. BatchSize \in Nat \ {0}
      BY StreamAssumption
    <3> HIDE DEF count
    <3>6. c + 1 + count - 1 = c + count /\ c + count \in Int /\ c <= c + count /\ c + count <= puts
          /\ (c + count) - c = count
      BY <1>1, <3>1, <3>3, <3>5
    <3> QED BY <1>2, <3>4, <3>6
  <2> QED BY <2>2, <2>3
<1> QED BY <1>3, <1>4

LEMMA BatchFollows ==
  ASSUME StreamInv, Live, NEW s \in Subscribers, sub[s].pc \in {"checking", "reading"}
  PROVE  WithBatch(s) \in SubRecords /\ Following(WithBatch(s), puts, producer)
<1> DEFINE c == sub[s].cursor
<1> DEFINE new == Unread(c)
<1>1. sub[s] \in SubRecords /\ Following(sub[s], puts, producer) /\ puts \in Nat
  BY DEF StreamInv, TypeOK, SubInv, SubRecords
<1>2. c \in Nat /\ c <= puts
  BY <1>1 DEF SubRecords, Following
<1>3. /\ new \in Seq(Entry)
      /\ c + Len(new) <= puts
      /\ \A j \in 1..Len(new) : Exact(new[j], c + j, puts, producer)
  BY <1>2, UnreadIsNext
<1>4. WithBatch(s) = [sub[s] EXCEPT !.pc = IF new = <<>> THEN "waiting" ELSE "yielding",
                                    !.batch = new]
  BY DEF WithBatch
<1> HIDE DEF new
<1>5. PICK p \in {"waiting", "yielding"} :
        /\ WithBatch(s) = [sub[s] EXCEPT !.pc = p, !.batch = new]
        /\ p = "yielding" => new # <<>>
  BY <1>4
<1>6. /\ WithBatch(s) \in SubRecords
      /\ WithBatch(s).pc = p /\ WithBatch(s).batch = new
      /\ WithBatch(s).cursor = c /\ WithBatch(s).from = sub[s].from
      /\ WithBatch(s).got = sub[s].got
  BY <1>1, <1>3, <1>5 DEF SubRecords, SubStates
<1> QED BY <1>1, <1>3, <1>5, <1>6 DEF Following

LEMMA YieldKeeps ==
  ASSUME StreamInv, NEW s \in Subscribers, Yield(s)
  PROVE  StreamInv'
<1> DEFINE u == sub[s]
<1> DEFINE e == Head(u.batch)
<1> DEFINE rest == Tail(u.batch)
<1>1. u \in SubRecords /\ Following(u, puts, producer) /\ u.pc = "yielding" /\ puts \in Nat
  BY DEF StreamInv, TypeOK, SubInv, SubRecords, Yield
<1>2. /\ u.batch \in Seq(Entry) /\ u.batch # <<>> /\ u.got \in Seq(Entry)
      /\ u.cursor \in Nat /\ u.from \in Nat /\ Len(u.got) \in Nat /\ Len(u.batch) \in Nat
      /\ puts \in Nat /\ u.cursor = u.from + Len(u.got) /\ u.cursor + Len(u.batch) <= puts
      /\ \A j \in 1..Len(u.batch) : Exact(u.batch[j], u.cursor + j, puts, producer)
      /\ \A i \in 1..Len(u.got) : u.got[i].event = u.from + i /\ u.got[i].seq = u.from + i
  <2>1. u.batch \in Seq(Entry) /\ u.got \in Seq(Entry) /\ u.cursor \in Nat /\ u.from \in Nat
    BY <1>1 DEF SubRecords
  <2>2. Len(u.got) \in Nat /\ Len(u.batch) \in Nat
    BY <2>1, LenProperties
  <2> QED BY <1>1, <2>1, <2>2 DEF Following
<1>3. /\ e \in Entry /\ rest \in Seq(Entry) /\ Len(rest) = Len(u.batch) - 1
      /\ Len(rest) \in Nat /\ Len(u.batch) >= 1 /\ e = u.batch[1]
      /\ \A i \in 1..Len(rest) : rest[i] = u.batch[i + 1]
  <2>1. /\ e \in Entry /\ rest \in Seq(Entry) /\ Len(rest) = Len(u.batch) - 1
        /\ \A i \in 1..Len(rest) : rest[i] = u.batch[i + 1]
    BY <1>2, HeadTailProperties
  <2>2. Len(rest) \in Nat
    BY <2>1, LenProperties
  <2> QED BY <1>2, <2>1, <2>2
<1>4. Exact(e, u.cursor + 1, puts, producer)
  BY <1>2, <1>3
<1>5. /\ Append(u.got, e) \in Seq(Entry) /\ Len(Append(u.got, e)) = Len(u.got) + 1
      /\ \A i \in 1..Len(u.got) : Append(u.got, e)[i] = u.got[i]
      /\ Append(u.got, e)[Len(u.got) + 1] = e
  BY <1>2, <1>3, AppendProperties
<1>6. PICK p \in {"complete", "checking", "yielding"}, v \in SubRecords :
        /\ Move(s, v)
        /\ v.pc = p /\ v.got = Append(u.got, e) /\ v.batch = rest /\ v.from = u.from
        /\ v.cursor = u.cursor + 1
        /\ p = "complete" => e.last
        /\ p = "yielding" => rest # <<>>
  <2>1. e.seq = u.cursor + 1
    BY <1>4 DEF Exact
  <2>2. PICK p \in {"complete", "checking", "yielding"} :
          /\ Move(s, [u EXCEPT !.got = Append(u.got, e), !.batch = rest,
                               !.cursor = u.cursor + 1, !.pc = p])
          /\ p = "complete" => e.last
          /\ p = "yielding" => rest # <<>>
    BY <2>1 DEF Yield
  <2> DEFINE g == Append(u.got, e)
  <2> DEFINE v == [u EXCEPT !.got = g, !.batch = rest, !.cursor = u.cursor + 1, !.pc = p]
  <2> HIDE DEF e, rest, u, g
  <2>3. g \in Seq(Entry) /\ p \in SubStates /\ u.cursor + 1 \in Nat
    BY <1>2, <1>5 DEF g, SubStates
  <2>4. /\ v \in SubRecords
        /\ v.pc = p /\ v.got = g /\ v.batch = rest /\ v.from = u.from /\ v.cursor = u.cursor + 1
    BY <1>1, <1>3, <2>3 DEF SubRecords
  <2> QED BY <2>2, <2>4 DEF g
<1> HIDE DEF e, rest, u
<1>7. Following(v, puts, producer)
  <2>1. v.cursor = v.from + Len(v.got) /\ v.cursor <= puts
    <3>1. v.cursor = u.cursor + 1 /\ v.from = u.from /\ Len(v.got) = Len(u.got) + 1
      BY <1>5, <1>6
    <3> QED BY <1>2, <1>3, <3>1
  <2>2. ASSUME NEW i \in 1..Len(v.got)
        PROVE  v.got[i].event = v.from + i /\ v.got[i].seq = v.from + i
    <3>1. CASE i \in 1..Len(u.got)
      BY <1>2, <1>5, <1>6, <3>1
    <3>2. CASE i = Len(u.got) + 1
      BY <1>2, <1>4, <1>5, <1>6, <3>2 DEF Exact
    <3> QED BY <1>2, <1>5, <1>6, <3>1, <3>2
  <2>3. ASSUME v.pc = "yielding"
        PROVE  /\ v.batch # <<>> /\ v.cursor + Len(v.batch) <= puts
               /\ \A j \in 1..Len(v.batch) : Exact(v.batch[j], v.cursor + j, puts, producer)
    <3>1. v.batch # <<>> /\ v.cursor + Len(v.batch) <= puts
      BY <1>2, <1>3, <1>6, <2>3
    <3>2. ASSUME NEW j \in 1..Len(v.batch)
          PROVE  Exact(v.batch[j], v.cursor + j, puts, producer)
      <4>1. v.batch[j] = u.batch[j + 1] /\ j + 1 \in 1..Len(u.batch)
            /\ v.cursor + j = u.cursor + (j + 1)
        <5>1. v.batch = rest /\ v.cursor = u.cursor + 1
          BY <1>6
        <5> QED BY <1>2, <1>3, <5>1
      <4> QED BY <1>2, <4>1
    <3> QED BY <3>1, <3>2
  <2>4. v.pc = "complete" => producer = "done" /\ v.cursor = puts
    BY <1>4, <1>6 DEF Exact
  <2>5. v.pc # "idle"
    BY <1>6
  <2> QED BY <2>1, <2>2, <2>3, <2>4, <2>5 DEF Following
<1> QED BY <1>6, <1>7, MoveKeeps

LEMMA SubscriberKeeps ==
  ASSUME TTLCoversRun, StreamInv, NEW s \in Subscribers,
         (\E after \in 0..puts : Subscribe(s, after)) \/ Step(s) \/ Abort(s)
  PROVE  StreamInv'
<1> DEFINE Plain == SubStates \ {"idle", "yielding", "complete"}
<1>0. sub[s] \in SubRecords /\ Following(sub[s], puts, producer) /\ puts \in Nat /\ puts <= puts
  BY DEF StreamInv, TypeOK, SubInv, SubRecords
<1>1. \A pc \in Plain : /\ [sub[s] EXCEPT !.pc = pc] \in SubRecords
                        /\ Following([sub[s] EXCEPT !.pc = pc], puts, producer)
  BY <1>0, FollowingKept
<1>2. {"admitted", "checking", "reading", "waiting", "gone", "aborted", "refused"} \subseteq Plain
  BY DEF SubStates
<1> HIDE DEF Plain
<1>3. CASE \E after \in 0..puts : Subscribe(s, after)
  <2>1. PICK after \in 0..puts : Subscribe(s, after)
    BY <1>3
  <2>2. PICK pc \in {"admitted", "refused"} :
          Look(s, [sub[s] EXCEPT !.pc = pc, !.from = after, !.cursor = after])
    BY <2>1 DEF Subscribe
  <2>3. sub[s].pc = "idle" /\ sub[s].got = <<>> /\ after \in Nat /\ after <= puts
    <3>1. sub[s].pc = "idle"
      BY <2>1 DEF Subscribe
    <3>2. sub[s].got = <<>>
      BY <1>0, <3>1 DEF Following
    <3> QED BY <1>0, <3>1, <3>2
  <2> DEFINE v == [sub[s] EXCEPT !.pc = pc, !.from = after, !.cursor = after]
  <2>4. v \in SubRecords /\ v.pc = pc /\ v.from = after /\ v.cursor = after /\ v.got = <<>>
    BY <1>0, <2>3 DEF SubRecords, SubStates
  <2> HIDE DEF v
  <2>5. Following(v, puts, producer)
    BY <2>3, <2>4 DEF Following
  <2> QED BY <2>2, <2>4, <2>5, LookKeeps DEF v
<1>4. CASE Start(s) \/ WakeUp(s) \/ Abort(s)
  <2>1. PICK pc \in {"checking", "aborted"} : Move(s, [sub[s] EXCEPT !.pc = pc])
    BY <1>4 DEF Start, WakeUp, Abort
  <2> QED BY <1>1, <1>2, <2>1, MoveKeeps
<1>5. CASE Check(s) \/ Read(s)
  <2>1. CASE \E pc \in {"gone", "reading", "waiting"} : Look(s, [sub[s] EXCEPT !.pc = pc])
    BY <1>1, <1>2, <2>1, LookKeeps
  <2>2. CASE Live /\ Look(s, WithBatch(s))
    <3>1. sub[s].pc \in {"checking", "reading"}
      BY <1>5 DEF Check, Read
    <3> QED BY <2>2, <3>1, BatchFollows, LookKeeps
  <2> QED BY <1>5, <2>1, <2>2 DEF Check, Read
<1>6. CASE Yield(s)
  BY <1>6, YieldKeeps
<1> QED BY <1>3, <1>4, <1>5, <1>6 DEF Step

LEMMA StreamStep ==
  ASSUME TTLCoversRun
  PROVE  StreamInv /\ [Next]_vars => StreamInv'
<1> SUFFICES ASSUME StreamInv, [Next]_vars PROVE StreamInv'
  OBVIOUS
<1>1. CASE UNCHANGED vars
  BY <1>1 DEF vars, StreamInv, TypeOK, LogInv, RunInv, SubInv
<1> QED BY <1>1, PutKeeps, ClockKeeps, SubscriberKeeps DEF Next

(* The stream holds the events put so far and every subscriber follows it. *)
THEOREM StreamFollowed ==
  ASSUME TTLCoversRun
  PROVE  Spec => []StreamInv
<1>1. Init => StreamInv
  BY StreamInit
<1>2. StreamInv /\ [Next]_vars => StreamInv'
  BY StreamStep
<1> QED BY <1>1, <1>2, PTL DEF Spec

(* A subscriber that resumes after n is sent n+1, n+2, ... with neither    *)
(* gap nor duplicate and is complete with turn.done only, in memory and on *)
(* Redis alike, for every batch size and number of subscribers, provided   *)
(* the TTL set with the first event covers the run.                        *)
THEOREM ResumeIsExact ==
  ASSUME TTLCoversRun
  PROVE  Spec => []ResumeExact
<1>1. StreamInv => ResumeExact
  BY DEF StreamInv, SubInv, Following, ResumeExact
<1> QED BY <1>1, StreamFollowed, PTL

(* assertSubscribable admits every subscriber of a running turn once its   *)
(* first event is put.                                                     *)
THEOREM RunningTurnSubscribable ==
  ASSUME TTLCoversRun
  PROVE  Spec => []RunningSubscribable
<1>1. StreamInv => RunningSubscribable
  BY RunningLive DEF RunningSubscribable
<1> QED BY <1>1, StreamFollowed, PTL
=============================================================================
