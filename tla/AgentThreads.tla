---------------------------- MODULE AgentThreads ----------------------------
(***************************************************************************)
(* The agent threads of one session: what a turn's orchestrator does with  *)
(* the main thread, its sub-agents and their tool calls, turn after turn.  *)
(*                                                                         *)
(* `threads' is the durable snapshot of the tip turn. A thread's in-memory *)
(* context changes only after the event that carries the change has been   *)
(* persisted, and is thrown away with the turn, so one copy stands for     *)
(* both; everything a turn keeps only in memory is a variable of its own   *)
(* and is reset by createTurn. A turn may be cut (process crash, freeze by *)
(* another executor, failed write) between any two durable writes.         *)
(*                                                                         *)
(* Messages appended together are one element of the context.              *)
(***************************************************************************)
EXTENDS Naturals, Sequences, FiniteSets

CONSTANTS Main,            \* MAIN_THREAD_ID
          Children,        \* names for live sub-agents (a removed one is reused)
          NoCall,
          MainShapes,      \* the tool calls an answer of the main model may make
          ChildShapes,     \* and of a sub-agent's model: sequences of kinds
          IterationLimit,  \* definition.iterationLimit
          MaxParallel,     \* MAX_PARALLEL_SUB_AGENTS
          MaxWork,         \* bound on turns, model answers and faults together
          WithEdits        \* the agent's spec may be edited between turns

Kinds == {"tool", "approval", "client", "thread"}
AllThreads == {Main} \cup Children

ASSUME ThreadsAssumption ==
  /\ Main \notin Children
  /\ NoCall \notin Nat \X Nat
  /\ \A s \in MainShapes : s \in Seq(Kinds)
  /\ \A s \in ChildShapes : s \in Seq({"tool", "approval"})
  /\ {IterationLimit, MaxParallel} \subseteq Nat \ {0}
  /\ MaxWork \in Nat
  /\ WithEdits \in BOOLEAN

VARIABLES threads,   \* live threads: context, parent call, completion, answers
          turn,      \* "idle": none, or cut; "running"; "done", "error": returned
          pc,        \* where each thread's generator stands
          local,     \* fields of the thread objects of the running turn
          stop,      \* shouldStopExecution
          abort,     \* the turn's AbortSignal
          todo,      \* threads of the current pass in a later batch
          asked,     \* required actions of the turn, <<thread, call>>
          executed,  \* calls whose tool has run, <<thread, call>>
          strict,    \* the spec now requires approval for plain tools
          work       \* turns, answers and faults so far

vars == <<threads, turn, pc, local, stop, abort, todo, asked, executed, strict,
          work>>

(***************************************************************************)
(* Contexts.                                                               *)
(***************************************************************************)

Message(role, calls, ids) == [role |-> role, calls |-> calls, ids |-> ids]
NoCalls == [x \in {} |-> "tool"]
UserMessage == Message("user", NoCalls, {})
ToolMessages(ids) == Message("tool", NoCalls, ids)
Decisions(ids) == Message("decision", NoCalls, ids)
\* The calls of the n-th answer of a thread, one per kind of the shape.
CallsOf(n, shape) ==
  [x \in {<<n, k>> : k \in 1..Len(shape)} |-> shape[x[2]]]

LastIn(S) == IF S = {} THEN 0 ELSE CHOOSE i \in S : \A j \in S : j <= i

LastAssistant(c) == LastIn({i \in 1..Len(c) : c[i].role = "assistant"})

AnsweredAfter(c, i) ==
  UNION {c[j].ids : j \in {k \in i+1..Len(c) : c[k].role = "tool"}}

OpenCalls(c) ==
  LET i == LastAssistant(c)
  IN  IF i = 0 THEN {} ELSE DOMAIN c[i].calls \ AnsweredAfter(c, i)

OpenOfKind(c, kind) ==
  {x \in OpenCalls(c) : c[LastAssistant(c)].calls[x] = kind}

Decided(c) == UNION {c[j].ids : j \in {k \in 1..Len(c) : c[k].role = "decision"}}

PendingApproval(c) == OpenOfKind(c, "approval") \ Decided(c)

PendingClient(c) == OpenOfKind(c, "client")

Awaiting(c) == PendingApproval(c) \cup PendingClient(c) # {}

DeriveState(c) ==
  CASE OpenCalls(c) = {} -> "llm"
    [] Awaiting(c)       -> "input"
    [] OTHER             -> "tool"

ValidNext(from) ==
  [none  |-> {"llm", "tool", "input"}, llm |-> {"tool", "input"},
   tool  |-> {"llm"},                  input |-> {"tool", "llm"}][from]

ClosableCalls(c) ==
  LET i == LastIn({k \in 1..Len(c) : c[k].role = "assistant" /\ c[k].calls # NoCalls})
  IN  IF i = 0 \/ (\E x \in DOMAIN c[i].calls : c[i].calls[x] \in {"approval", "client"})
      THEN {}
      ELSE {x \in DOMAIN c[i].calls : c[i].calls[x] # "thread"} \ AnsweredAfter(c, i)

CloseCalls(c, ids) == IF ids = {} THEN c ELSE Append(c, ToolMessages(ids))

\* The preSend hook: OpenToolCallCloser.
PreSend(c) == CloseCalls(c, ClosableCalls(c))

(***************************************************************************)
(* send(): a batch for one thread is a set of decisions D and a set of     *)
(* tool responses R, both by call id.                                      *)
(***************************************************************************)

ValidBatch(c, D, R) ==
  /\ D \subseteq PendingApproval(c)
  /\ R \subseteq OpenCalls(c)
  /\ PendingApproval(c) \subseteq D
  /\ PendingClient(c) \subseteq R

\* An empty batch is skipped when the thread is not awaiting input.
Skips(c, D, R) == D \cup R = {} /\ ~Awaiting(c)

AcceptsSend(th, D, R) ==
  \/ Skips(th.context, D, R)
  \/ /\ th.completion = "none"
     /\ ValidBatch(th.context, D, R)
     /\ ValidBatch(PreSend(th.context), D, R)

AfterSend(c, D, R) ==
  IF Skips(c, D, R) THEN c
  ELSE LET decided == IF D = {} THEN PreSend(c) ELSE Append(PreSend(c), Decisions(D))
       IN  CloseCalls(decided, R)

\* Main's context once every open call is closed for a new user message: what
\* send() validates (no open call, nothing awaited) always holds of it.
ClosedForUser(c) == CloseCalls(c, OpenCalls(c))

(***************************************************************************)
(* createTurn.                                                             *)
(***************************************************************************)

NewThread(parent) ==
  [context |-> <<>>, parent |-> parent, completion |-> "none", made |-> 0]

FreshLocal ==
  [state |-> "none", iterations |-> 0, preSendRan |-> FALSE,
   create |-> {}, auth |-> FALSE, failed |-> FALSE]

Init ==
  /\ threads = [t \in {Main} |-> NewThread(NoCall)]
  /\ turn = "idle"
  /\ pc = [t \in AllThreads |-> "off"]
  /\ local = [t \in AllThreads |-> FreshLocal]
  /\ stop = FALSE /\ abort = FALSE
  /\ todo = {} /\ asked = {} /\ executed = {}
  /\ strict = FALSE
  /\ work = 0

Live == DOMAIN threads
Subs == Live \ {Main}

Costs == work < MaxWork /\ work' = work + 1

BeginTurn(sent) ==
  /\ turn' = "running"
  /\ Costs
  /\ local' = [t \in AllThreads |-> [FreshLocal EXCEPT !.preSendRan = t \in sent]]
  /\ asked' = {}
  /\ UNCHANGED <<pc, stop, abort, todo, executed, strict>>

\* A user message cancels every sub-agent, closes main's calls, then is sent.
CreateTurnUser ==
  /\ turn # "running"
  /\ threads' =
       [t \in Live |->
          IF t = Main
          THEN [threads[t] EXCEPT !.context = Append(PreSend(ClosedForUser(@)), UserMessage)]
          ELSE [threads[t] EXCEPT !.completion = IF @ = "none" THEN "cancelled" ELSE @]]
  /\ BeginTurn({Main})

\* What a client can put in an answer: decisions and tool responses.
Offered(Calls(_)) ==
  UNION {{<<t, x>> : x \in Calls(threads[t].context)} : t \in Live}

For(A, t) == {a[2] : a \in {b \in A : b[1] = t}}

AcceptsAnswers(D, R) ==
  \A t \in Live : AcceptsSend(threads[t], For(D, t), For(R, t))

\* Approvals and client responses, or nothing (a resume), to every thread.
CreateTurnAnswer(D, R) ==
  /\ turn # "running"
  /\ AcceptsAnswers(D, R)
  /\ threads' = [t \in Live |->
       [threads[t] EXCEPT !.context = AfterSend(@, For(D, t), For(R, t))]]
  /\ BeginTurn({t \in Live : ~Skips(threads[t].context, For(D, t), For(R, t))})

\* The registry's spec is resolved anew by every turn of a named agent.
EditSpec ==
  /\ WithEdits /\ turn # "running" /\ ~strict
  /\ strict' = TRUE
  /\ UNCHANGED <<threads, turn, pc, local, stop, abort, todo, asked, executed,
                 work>>

(***************************************************************************)
(* Orchestrator.execute: passes over the leaves, in batches.               *)
(***************************************************************************)

Quiet == \A t \in AllThreads : pc[t] = "off"
\* The consumer handles one event at a time.
Free == \A t \in AllThreads : pc[t] # "sent"

Leaves == IF Subs = {} THEN {Main} ELSE Subs

Smaller(m, n) == IF m <= n THEN m ELSE n

StartBatch ==
  /\ turn = "running" /\ Quiet /\ ~stop
  /\ LET pool == IF todo = {} THEN Leaves ELSE todo
     IN  \E batch \in SUBSET pool :
           /\ Cardinality(batch) = Smaller(MaxParallel, Cardinality(pool))
           /\ pc' = [t \in AllThreads |-> IF t \in batch THEN "start" ELSE "off"]
           /\ todo' = pool \ batch
  /\ UNCHANGED <<threads, turn, local, stop, abort, asked, executed, strict,
                 work>>

\* What a turn kept in memory is gone.
EndTurn(outcome) ==
  /\ turn' = outcome
  /\ pc' = [t \in AllThreads |-> "off"]
  /\ local' = [t \in AllThreads |-> FreshLocal]
  /\ stop' = FALSE /\ abort' = FALSE /\ todo' = {}
  /\ UNCHANGED <<threads, executed, strict>>

FinishTurn ==
  /\ turn = "running" /\ Quiet /\ stop
  /\ EndTurn(IF local[Main].failed THEN "error" ELSE "done")
  /\ UNCHANGED <<asked, work>>

AbortTurn ==
  /\ turn = "running" /\ ~abort
  /\ Costs
  /\ abort' = TRUE /\ stop' = TRUE
  /\ UNCHANGED <<threads, turn, pc, local, todo, asked, executed, strict>>

\* Crash, freeze by another executor, failed write: only the snapshot stays.
CutTurn ==
  /\ turn = "running"
  /\ Costs
  /\ EndTurn("idle")
  /\ asked' = {}

(***************************************************************************)
(* AgentThread.execute: one thread's generator.                            *)
(***************************************************************************)

Context(t) == threads[t].context
IsChild(t) == threads[t].parent # NoCall
At(t, where) == turn = "running" /\ pc[t] = where /\ Free

\* The generator returns, or yields AGENT_DONE: a child's is delivered to its
\* parent, the root's stops the turn.
Exit(t) == pc' = [pc EXCEPT ![t] = "off"]
Done(t) ==
  /\ pc' = [pc EXCEPT ![t] = IF IsChild(t) THEN "done" ELSE "off"]
  /\ stop' = (stop \/ ~IsChild(t))

Start_NoPreSend(t) ==
  /\ At(t, "start")
  /\ IF threads[t].completion # "none" THEN Done(t)
     ELSE pc' = [pc EXCEPT ![t] = "loop"] /\ UNCHANGED stop
  /\ UNCHANGED <<threads, local, turn, abort, todo, asked, executed, strict, work>>

\* A persisted completion is replayed; otherwise preSend, unless send() already
\* ran it, and init(), which may ask for MCP authentication and stop the turn.
Start(t) ==
  /\ At(t, "start")
  /\ \/ /\ threads[t].completion # "none"
        /\ Done(t)
        /\ UNCHANGED <<threads, local>>
     \/ /\ threads[t].completion = "none"
        /\ threads' = [threads EXCEPT ![t].context =
                          IF local[t].preSendRan THEN @ ELSE PreSend(@)]
        /\ local' = [local EXCEPT ![t].preSendRan = FALSE, ![t].state = "none"]
        /\ \/ pc' = [pc EXCEPT ![t] = "loop"] /\ UNCHANGED stop
           \/ Exit(t) /\ stop' = TRUE
  /\ UNCHANGED <<turn, abort, todo, asked, executed, strict, work>>

\* The loop's next step, entered through deriveState and its assertion.
Enters(t, state) ==
  /\ At(t, "loop")
  /\ DeriveState(Context(t)) = state
  /\ state \in ValidNext(local[t].state)

MayCallModel(t) == ~abort /\ local[t].iterations < IterationLimit

\* ContextCompaction (preLLM): the summary and a continuation message.
Compact(t) ==
  /\ Enters(t, "llm") /\ MayCallModel(t)
  /\ Len(Context(t)) > 2
  /\ threads' = [threads EXCEPT ![t].context =
                    <<Message("assistant", NoCalls, {}), UserMessage>>]
  /\ UNCHANGED <<turn, pc, local, stop, abort, todo, asked, executed, strict,
                 work>>

\* The calls an answer can make: a plain tool is an approval tool under a
\* stricter spec, and a sub-agent tool needs a name for its thread.
Shapes(t) ==
  {s \in IF IsChild(t) THEN ChildShapes ELSE MainShapes :
     strict => \A k \in 1..Len(s) : s[k] # "tool"}

\* The assistant message is committed, with the completion of a child that is
\* finished; `failed': the finish reason is an error (length, content filter).
ModelAnswers(t, shape, failed) ==
  /\ Enters(t, "llm") /\ MayCallModel(t)
  /\ Costs
  /\ LET th == threads[t]
         calls == CallsOf(th.made + 1, shape)
         completion == IF ~IsChild(t) THEN "none"
                       ELSE IF failed THEN "error"
                       ELSE IF Len(shape) = 0 THEN "done" ELSE "none"
     IN  threads' = [threads EXCEPT ![t] =
           [th EXCEPT !.context = Append(@, Message("assistant", calls, {})),
                      !.completion = completion, !.made = @ + 1]]
  /\ local' = [local EXCEPT ![t].state = "llm",
                            ![t].iterations = @ + 1, ![t].failed = failed]
  /\ IF failed \/ Len(shape) = 0 THEN Done(t) ELSE UNCHANGED <<pc, stop>>
  /\ UNCHANGED <<turn, abort, todo, asked, executed, strict>>

\* The iteration limit, a provider or compaction error, an invalid transition:
\* an error event, with no completion persisted.
ThreadFails(t) ==
  /\ At(t, "loop")
  /\ \/ Enters(t, "llm")
     \/ DeriveState(Context(t)) \notin ValidNext(local[t].state)
  /\ Done(t)
  /\ local' = [local EXCEPT ![t].iterations = Smaller(@ + 1, IterationLimit),
                            ![t].failed = TRUE]
  /\ UNCHANGED <<threads, turn, abort, todo, asked, executed, strict, work>>

AbortExits_Anywhere(t) ==
  /\ abort /\ At(t, "loop")
  /\ Exit(t)
  /\ UNCHANGED <<threads, turn, local, stop, abort, todo, asked, executed,
                 strict, work>>

\* Cancellation is looked at before the model and before tools only.
AbortExits(t) ==
  /\ abort
  /\ Enters(t, "llm") \/ Enters(t, "tool")
  /\ Exit(t)
  /\ UNCHANGED <<threads, turn, local, stop, abort, todo, asked, executed,
                 strict, work>>

ToRun(t) == OpenCalls(Context(t)) \ OpenOfKind(Context(t), "thread")

\* An open call that the resolved spec will not run without a decision.
Undecided(t) == IF strict THEN OpenOfKind(Context(t), "tool") ELSE {}

\* executeToolCalls: every open call runs; sub-agent calls that parse become
\* creations, a call may ask for authentication.
RunTools(t) ==
  /\ Enters(t, "tool") /\ ~abort
  /\ executed' = executed \cup {<<t, x>> : x \in ToRun(t) \ Undecided(t)}
  /\ IF Undecided(t) # {}
     THEN Done(t) /\ local' = [local EXCEPT ![t].failed = TRUE]
     ELSE /\ \E create \in SUBSET OpenOfKind(Context(t), "thread"), auth \in BOOLEAN :
               /\ Cardinality(create) <= Cardinality(Children \ Live)
               /\ auth => ToRun(t) # {}
               /\ local' = [local EXCEPT ![t].state = "tool", ![t].create = create,
                                         ![t].auth = auth]
          /\ pc' = [pc EXCEPT ![t] = "ran"]
          /\ UNCHANGED stop
  /\ UNCHANGED <<threads, turn, abort, todo, asked, strict, work>>

\* The results are appended; authentication ends the thread's turn there.
AppendResults(t) ==
  /\ At(t, "ran")
  /\ threads' = [threads EXCEPT ![t].context =
                    CloseCalls(@, OpenCalls(@) \ local[t].create)]
  /\ IF local[t].auth
     THEN Exit(t) /\ stop' = TRUE
     ELSE /\ pc' = [pc EXCEPT ![t] = IF local[t].create = {} THEN "loop" ELSE "create"]
          /\ UNCHANGED stop
  /\ UNCHANGED <<turn, local, abort, todo, asked, executed, strict, work>>

\* AGENT_CREATE_SUBAGENT: the thread is persisted, then joins the live ones.
CreateThread(t, x, child) ==
  /\ At(t, "create")
  /\ x \in local[t].create /\ child \in Children \ Live
  /\ threads' = [u \in Live \cup {child} |->
                   IF u = child THEN NewThread(x) ELSE threads[u]]
  /\ local' = [local EXCEPT ![t].create = @ \ {x}, ![child] = FreshLocal]
  /\ pc' = [pc EXCEPT ![t] = IF local[t].create = {x} THEN "off" ELSE "create"]
  /\ UNCHANGED <<turn, stop, abort, todo, asked, executed, strict, work>>

\* stepUserInputRequired: the required events, and the turn stops.
AskUser(t) ==
  /\ Enters(t, "input")
  /\ asked' = asked \cup {<<t, x>> : x \in PendingApproval(Context(t))
                                            \cup PendingClient(Context(t))}
  /\ stop' = TRUE
  /\ Exit(t)
  /\ local' = [local EXCEPT ![t].state = "input"]
  /\ UNCHANGED <<threads, turn, abort, todo, executed, strict, work>>

\* A child's AGENT_DONE: its result is sent to the parent when the call is
\* still open; the removal of the thread is a later write.
DeliverResult_Always(t) ==
  /\ At(t, "done")
  /\ threads' = [threads EXCEPT ![Main].context =
                    Append(PreSend(@), ToolMessages({threads[t].parent}))]
  /\ local' = [local EXCEPT ![Main].preSendRan = TRUE]
  /\ pc' = [pc EXCEPT ![t] = "sent"]
  /\ UNCHANGED <<turn, stop, abort, todo, asked, executed, strict, work>>

DeliverResult(t) ==
  /\ At(t, "done")
  /\ IF threads[t].parent \in OpenCalls(Context(Main))
     THEN /\ AcceptsSend(threads[Main], {}, {threads[t].parent})
          /\ threads' = [threads EXCEPT ![Main].context =
                            AfterSend(@, {}, {threads[t].parent})]
          /\ local' = [local EXCEPT ![Main].preSendRan = TRUE]
     ELSE UNCHANGED <<threads, local>>
  /\ pc' = [pc EXCEPT ![t] = "sent"]
  /\ UNCHANGED <<turn, stop, abort, todo, asked, executed, strict, work>>

RemoveThread_Keeps(t) ==
  /\ turn = "running" /\ pc[t] = "sent"
  /\ Exit(t)
  /\ UNCHANGED <<threads, turn, local, stop, abort, todo, asked, executed, strict, work>>

RemoveThread(t) ==
  /\ turn = "running" /\ pc[t] = "sent"
  /\ threads' = [u \in Live \ {t} |-> threads[u]]
  /\ executed' = {e \in executed : e[1] # t}
  /\ local' = [local EXCEPT ![t] = FreshLocal]
  /\ Exit(t)
  /\ UNCHANGED <<turn, stop, abort, todo, asked, strict, work>>

ThreadStep(t) ==
  \/ Start(t) \/ Compact(t)
  \/ \E shape \in Shapes(t), failed \in BOOLEAN : ModelAnswers(t, shape, failed)
  \/ ThreadFails(t) \/ AbortExits(t) \/ RunTools(t) \/ AppendResults(t)
  \/ \E x \in local[t].create, child \in Children : CreateThread(t, x, child)
  \/ AskUser(t) \/ DeliverResult(t) \/ RemoveThread(t)

Execute == StartBatch \/ FinishTurn \/ \E t \in Live : ThreadStep(t)

CreateTurn ==
  \/ CreateTurnUser
  \/ \E D \in SUBSET Offered(PendingApproval), R \in SUBSET Offered(OpenCalls) :
       CreateTurnAnswer(D, R)

Next == Execute \/ CreateTurn \/ EditSpec \/ AbortTurn \/ CutTurn

Spec == Init /\ [][Next]_vars /\ WF_vars(Execute)

(***************************************************************************)
(* Properties.                                                             *)
(***************************************************************************)

CallIds == (1..MaxWork) \X (1..2)
MessageOK(m) ==
  /\ m.role \in {"user", "assistant", "tool", "decision"}
  /\ m.ids \subseteq CallIds
  /\ DOMAIN m.calls \subseteq CallIds
  /\ \A x \in DOMAIN m.calls : m.calls[x] \in Kinds

\* Type correctness: every thread of the snapshot has a context of messages, a
\* parent iff it is not the main thread, and at most one completion.
TypeOK ==
  /\ Main \in Live /\ Live \subseteq AllThreads
  /\ \A t \in Live :
       /\ \A i \in 1..Len(Context(t)) : MessageOK(Context(t)[i])
       /\ threads[t].parent \in IF t = Main THEN {NoCall} ELSE CallIds
       /\ threads[t].completion \in {"none", "done", "error", "cancelled"}
  /\ turn \in {"idle", "running", "done", "error"}
  /\ pc \in [AllThreads ->
       {"off", "start", "loop", "ran", "create", "done", "sent"}]
  /\ \A t \in AllThreads : pc[t] # "off" => t \in Live
  /\ todo \subseteq Live
  /\ {a[1] : a \in asked \cup executed} \subseteq Live

\* Every tool call is answered once, by messages that follow its assistant
\* message directly: what the comment on getOpenToolCallIds assumes ("older
\* assistant tool_calls are already resolved") and what providers insist on,
\* across approvals, sub-agents, new user messages and cut turns.
CallsAnsweredOnce ==
  \A t \in Live : LET c == Context(t) IN
    /\ \A i \in 1..Len(c) : c[i].role = "assistant" =>
         \A j \in i+1..Len(c) : c[j].role \in {"user", "assistant"} =>
           DOMAIN c[i].calls \subseteq
             UNION {c[k].ids : k \in {k \in i+1..j-1 : c[k].role = "tool"}}
    /\ \A j \in 1..Len(c) : c[j].role = "tool" =>
         LET i == LastAssistant(SubSeq(c, 1, j))
         IN  /\ i > 0 /\ c[j].ids \subseteq DOMAIN c[i].calls
             /\ \A k \in i+1..j-1 : c[k].role = "tool" => c[k].ids \cap c[j].ids = {}

\* What an unfinished thread waits for.
WaitsFor(t) ==
  IF threads[t].completion # "none" THEN {}
  ELSE PendingApproval(Context(t)) \cup PendingClient(Context(t))

\* A turn that ended without an error of the main thread asked for exactly
\* what its unfinished threads wait for, also when it was aborted after the
\* model's answer was committed, and an answer to all of it is accepted by
\* every thread.
AsksForWhatItNeeds ==
  turn = "done" =>
    /\ asked = UNION {{<<t, x>> : x \in WaitsFor(t)} : t \in Live}
    /\ asked # {} =>
         AcceptsAnswers({a \in asked : a[2] \in PendingApproval(Context(a[1]))},
                        {a \in asked : a[2] \in PendingClient(Context(a[1]))})

\* A tool call of a message without approvals or client calls runs at most
\* once: a turn cut after the tool ran and before the result was appended
\* closes the call instead of running it again.
PlainToolRunsOnce ==
  \A t \in Live : LET c == Context(t) IN
    /\ pc[t] = "loop" /\ DeriveState(c) = "tool"
    /\ \A k \in {"approval", "client"}, x \in DOMAIN c[LastAssistant(c)].calls :
         c[LastAssistant(c)].calls[x] # k
    => \A x \in ToRun(t) : <<t, x>> \notin executed

\* Every turn ends: the iteration limit, the stop flag and the removal of
\* finished sub-agents leave the passes over the leaves no way to spin.
TurnEnds == turn = "running" ~> turn # "running"

-----------------------------------------------------------------------------
(* Two statements of the code's comments that the model refutes, with the   *)
(* constants the README gives.                                              *)

\* What the comment on AgentThread.send says: already-complete threads "must
\* also no-op on [] so orchestrator fan-out resume/approval sends do not fail
\* createTurn".
ResumeIgnoresComplete ==
  turn # "running" /\ (\A t \in Live : WaitsFor(t) = {})
    => AcceptsAnswers({}, {})

\* What stepToolResponse asserts ('Unreachable'): no open call it runs still
\* needs an approval.
NoApprovalLeftToRun ==
  \A t \in Live : pc[t] = "loop" /\ DeriveState(Context(t)) = "tool" => Undecided(t) = {}
=============================================================================
