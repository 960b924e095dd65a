------------------------- MODULE AgentThreadsProofs -------------------------
(***************************************************************************)
(* The agent threads of a session, for any number of sub-agents, any       *)
(* shapes of a model's answer and any bounds.  A context is followed       *)
(* through the five things that happen to it (a message is appended, open  *)
(* calls are closed, a batch is sent, it is compacted, it begins), and a   *)
(* thread through the steps of its generator.                              *)
(***************************************************************************)
EXTENDS AgentThreads, FiniteSetTheorems, WellFoundedInduction, TLAPS

Ids == Nat \X Nat
Roles == {"user", "assistant", "tool", "decision"}
CallMaps == UNION {[D -> Kinds] : D \in SUBSET Ids}
Msg == [role : Roles, calls : CallMaps, ids : SUBSET Ids]

(* Call x of the message at i is answered by a tool message before j. *)
Answered(c, i, j, x) == \E k \in i+1..j-1 : c[k].role = "tool" /\ x \in c[k].ids

(* The tool message at j answers calls of the assistant message at i, the  *)
(* last one before it, none of which is answered in between.               *)
Answers(c, i, j) ==
  /\ c[i].role = "assistant"
  /\ c[j].ids \subseteq DOMAIN c[i].calls
  /\ \A k \in i+1..j-1 :
       /\ c[k].role # "assistant"
       /\ c[k].role = "tool" => c[k].ids \cap c[j].ids = {}

(* Calls are answered before the conversation goes on, by messages that    *)
(* follow them, and were made by one of the thread's first n answers.      *)
ContextOK(c, n) ==
  /\ \A i, j \in 1..Len(c) :
       i < j /\ c[i].role = "assistant" /\ c[j].role \in {"user", "assistant"} =>
         \A x \in DOMAIN c[i].calls : Answered(c, i, j, x)
  /\ \A j \in 1..Len(c) : c[j].role = "tool" => \E i \in 1..j-1 : Answers(c, i, j)
  /\ \A i \in 1..Len(c) : \A x \in DOMAIN c[i].calls : x[1] <= n

-----------------------------------------------------------------------------
(* Contexts. *)

(* LastIn finds the greatest element of a set of positions. *)
LEMMA LastInIs ==
  ASSUME NEW n \in Nat, NEW S \in SUBSET (1..n)
  PROVE  /\ LastIn(S) \in 0..n
         /\ S = {} <=> LastIn(S) = 0
         /\ S # {} => LastIn(S) \in S
         /\ \A j \in S : j <= LastIn(S)
         /\ \A i \in S : (\A j \in S : j <= i) => LastIn(S) = i
<1>1. CASE S = {}
  BY <1>1 DEF LastIn
<1>2. CASE S # {}
  <2> DEFINE R == OpToRel(<, Nat)
             T == {x \in 0..n : n - x \in S}
  <2>1. IsWellFoundedOn(R, Nat)
    BY NatLessThanWellFounded
  <2>2. T \subseteq Nat /\ T # {}
    <3>1. PICK x \in S : TRUE
      BY <1>2
    <3>2. n - x \in 0..n /\ n - (n - x) = x
      OBVIOUS
    <3>3. n - x \in T
      BY <3>1, <3>2
    <3>4. T \subseteq Nat
      OBVIOUS
    <3> HIDE DEF T
    <3> QED BY <3>3, <3>4
  <2> HIDE DEF R
  <2>3. PICK m \in T : \A y \in T : ~(<<y, m>> \in R)
    BY <2>1, <2>2, WFMin
  <2>4. \A y \in T : ~(y < m)
    BY <2>2, <2>3 DEF R, OpToRel
  <2>5. \A j \in S : j <= n - m
    <3> TAKE j \in S
    <3>1. n - j \in T
      OBVIOUS
    <3> QED BY <2>4, <3>1
  <2>6. n - m \in S
    OBVIOUS
  <2>7. \E i \in S : \A j \in S : j <= i
    BY <2>5, <2>6
  <2>8. LastIn(S) \in S /\ \A j \in S : j <= LastIn(S)
    BY <1>2, <2>7 DEF LastIn
  <2>9. \A i \in S : i \in 1..n
    OBVIOUS
  <2>10. ASSUME NEW i \in S, \A j \in S : j <= i PROVE LastIn(S) = i
    <3> DEFINE l == LastIn(S)
    <3>1. l \in S /\ i <= l
      BY <2>8
    <3> HIDE DEF l
    <3>2. l <= i /\ l \in Int /\ i \in Int
      BY <2>9, <2>10, <3>1
    <3> QED BY <3>1, <3>2 DEF l
  <2>11. LastIn(S) \in 0..n /\ LastIn(S) # 0
    <3> DEFINE l == LastIn(S)
    <3>1. l \in 1..n
      BY <2>8, <2>9
    <3> HIDE DEF l
    <3> QED BY <3>1 DEF l
  <2> HIDE DEF T
  <2> QED BY <1>2, <2>8, <2>10, <2>11
<1> QED BY <1>1, <1>2

(* The last assistant message of a context. *)
LEMMA LastAssistantIs ==
  ASSUME NEW c \in Seq(Msg)
  PROVE  /\ LastAssistant(c) \in 0..Len(c)
         /\ LastAssistant(c) # 0 => c[LastAssistant(c)].role = "assistant"
         /\ \A i \in 1..Len(c) : c[i].role = "assistant" => i <= LastAssistant(c)
         /\ \A i \in 1..Len(c) :
              c[i].role = "assistant" /\ (\A j \in i+1..Len(c) : c[j].role # "assistant")
                => LastAssistant(c) = i
<1> DEFINE S == {i \in 1..Len(c) : c[i].role = "assistant"}
<1>1. S \in SUBSET (1..Len(c)) /\ Len(c) \in Nat
  OBVIOUS
<1>2. LastAssistant(c) = LastIn(S)
  BY DEF LastAssistant
<1>3. /\ LastIn(S) \in 0..Len(c)
      /\ S = {} <=> LastIn(S) = 0
      /\ S # {} => LastIn(S) \in S
      /\ \A j \in S : j <= LastIn(S)
      /\ \A i \in S : (\A j \in S : j <= i) => LastIn(S) = i
  BY <1>1, LastInIs
<1>4. ASSUME NEW i \in 1..Len(c), c[i].role = "assistant",
             \A j \in i+1..Len(c) : c[j].role # "assistant"
      PROVE  LastAssistant(c) = i
  <2>1. i \in S /\ \A j \in S : j <= i
    BY <1>4
  <2> QED BY <1>2, <1>3, <2>1
<1> HIDE DEF S
<1>5. \A i \in 1..Len(c) : c[i].role = "assistant" <=> i \in S
  BY DEF S
<1> QED BY <1>1, <1>2, <1>3, <1>4, <1>5

LEMMA AnsweredAfterIs ==
  ASSUME NEW c \in Seq(Msg), NEW i \in Nat, NEW x
  PROVE  x \in AnsweredAfter(c, i) <=> Answered(c, i, Len(c) + 1, x)
<1>1. i+1..Len(c) = i+1..(Len(c) + 1)-1
  OBVIOUS
<1> QED BY <1>1 DEF AnsweredAfter, Answered

(* A call is open while no tool message after it has answered it. *)
LEMMA OpenCallsIs ==
  ASSUME NEW c \in Seq(Msg), NEW x
  PROVE  x \in OpenCalls(c) <=>
           /\ LastAssistant(c) # 0
           /\ x \in DOMAIN c[LastAssistant(c)].calls
           /\ ~Answered(c, LastAssistant(c), Len(c) + 1, x)
<1>1. LastAssistant(c) \in Nat
  BY LastAssistantIs
<1> QED BY <1>1, AnsweredAfterIs DEF OpenCalls

LEMMA OpenTyped ==
  ASSUME NEW c \in Seq(Msg)
  PROVE  OpenCalls(c) \subseteq Ids
<1> SUFFICES ASSUME NEW x \in OpenCalls(c) PROVE x \in Ids
  OBVIOUS
<1>1. LastAssistant(c) \in 1..Len(c) /\ x \in DOMAIN c[LastAssistant(c)].calls
  BY OpenCallsIs, LastAssistantIs
<1>2. c[LastAssistant(c)] \in Msg
  BY <1>1
<1>3. c[LastAssistant(c)].calls \in CallMaps
  BY <1>2 DEF Msg
<1> QED BY <1>1, <1>3 DEF CallMaps

(* What appending a message changes. *)
LEMMA AppendIs ==
  ASSUME NEW c \in Seq(Msg), NEW m \in Msg
  PROVE  /\ Append(c, m) \in Seq(Msg)
         /\ Len(Append(c, m)) = Len(c) + 1
         /\ Append(c, m)[Len(c) + 1] = m
         /\ \A i \in 1..Len(c) : Append(c, m)[i] = c[i]
OBVIOUS

LEMMA AppendAnswered ==
  ASSUME NEW c \in Seq(Msg), NEW m \in Msg, NEW i \in Nat, NEW x,
         NEW j \in 0..Len(c) + 1
  PROVE  /\ Answered(Append(c, m), i, j, x) <=> Answered(c, i, j, x)
         /\ i <= Len(c) =>
              (Answered(Append(c, m), i, Len(c) + 2, x) <=>
                 Answered(c, i, Len(c) + 1, x) \/ (m.role = "tool" /\ x \in m.ids))
<1>1. \A k \in i+1..j-1 : Append(c, m)[k] = c[k]
  BY AppendIs
<1>2. \A k \in i+1..(Len(c)+1)-1 : Append(c, m)[k] = c[k]
  BY AppendIs
<1>3. ASSUME i <= Len(c)
      PROVE  \A k : k \in i+1..(Len(c)+2)-1 <=> k \in i+1..(Len(c)+1)-1 \/ k = Len(c) + 1
  BY <1>3
<1> QED BY <1>1, <1>2, <1>3, AppendIs DEF Answered

(* After a message that is not an assistant's. *)
LEMMA AppendReply ==
  ASSUME NEW c \in Seq(Msg), NEW m \in Msg, m.role # "assistant"
  PROVE  /\ LastAssistant(Append(c, m)) = LastAssistant(c)
         /\ LastAssistant(c) # 0 =>
              Append(c, m)[LastAssistant(c)] = c[LastAssistant(c)]
         /\ OpenCalls(Append(c, m)) =
              IF m.role = "tool" THEN OpenCalls(c) \ m.ids ELSE OpenCalls(c)
<1> DEFINE d == Append(c, m)
           i == LastAssistant(c)
<1>0. /\ i \in 0..Len(c)
      /\ i # 0 => c[i].role = "assistant"
      /\ \A j \in 1..Len(c) : c[j].role = "assistant" => j <= i
  BY LastAssistantIs
<1>1. /\ d \in Seq(Msg) /\ Len(d) = Len(c) + 1 /\ d[Len(c) + 1] = m
      /\ \A j \in 1..Len(c) : d[j] = c[j]
  BY AppendIs
<1>2. LastAssistant(d) = i
  <2>1. CASE i = 0
    <3>1. \A j \in 1..Len(d) : d[j].role # "assistant"
      BY <1>0, <1>1, <2>1
    <3>2. LastAssistant(d) \in 0..Len(d)
          /\ (LastAssistant(d) # 0 => d[LastAssistant(d)].role = "assistant")
      BY <1>1, LastAssistantIs
    <3> HIDE DEF d, i
    <3> QED BY <1>1, <2>1, <3>1, <3>2
  <2>2. CASE i # 0
    <3>1. i \in 1..Len(d) /\ d[i].role = "assistant"
      BY <1>0, <1>1, <2>2
    <3>2. \A j \in i+1..Len(d) : d[j].role # "assistant"
      BY <1>0, <1>1, <2>2
    <3> QED BY <1>1, <3>1, <3>2, LastAssistantIs
  <2> QED BY <2>1, <2>2
<1>3. i # 0 => d[i] = c[i]
  BY <1>0, <1>1
<1>4. ASSUME NEW x
      PROVE  x \in OpenCalls(d) <=> x \in OpenCalls(c) /\ ~(m.role = "tool" /\ x \in m.ids)
  <2>1. Answered(d, i, Len(c) + 2, x) <=>
          Answered(c, i, Len(c) + 1, x) \/ (m.role = "tool" /\ x \in m.ids)
    BY <1>0, AppendAnswered
  <2>2. Len(d) + 1 = Len(c) + 2
    BY <1>1
  <2>3. x \in OpenCalls(d) <=>
           i # 0 /\ x \in DOMAIN d[i].calls /\ ~Answered(d, i, Len(c) + 2, x)
    BY <1>1, <1>2, <2>2, OpenCallsIs
  <2>4. x \in OpenCalls(c) <=>
           i # 0 /\ x \in DOMAIN c[i].calls /\ ~Answered(c, i, Len(c) + 1, x)
    BY OpenCallsIs
  <2> QED BY <1>3, <2>1, <2>3, <2>4
<1> HIDE DEF d
<1>5. OpenCalls(d) = IF m.role = "tool" THEN OpenCalls(c) \ m.ids ELSE OpenCalls(c)
  BY <1>4
<1> QED BY <1>2, <1>3, <1>5 DEF d

(* After an assistant's: all its calls are open, and no other. *)
LEMMA AppendAnswer ==
  ASSUME NEW c \in Seq(Msg), NEW m \in Msg, m.role = "assistant"
  PROVE  /\ LastAssistant(Append(c, m)) = Len(c) + 1
         /\ Append(c, m)[Len(c) + 1] = m
         /\ OpenCalls(Append(c, m)) = DOMAIN m.calls
<1> DEFINE d == Append(c, m)
<1>1. d \in Seq(Msg) /\ Len(d) = Len(c) + 1 /\ d[Len(c) + 1] = m
  BY AppendIs
<1>2. LastAssistant(d) = Len(c) + 1
  <2>1. Len(c) + 1 \in 1..Len(d) /\ \A j \in (Len(c) + 1)+1..Len(d) : FALSE
    BY <1>1
  <2> HIDE DEF d
  <2> QED BY <1>1, <2>1, LastAssistantIs
<1> HIDE DEF d
<1>3. ASSUME NEW x PROVE x \in OpenCalls(d) <=> x \in DOMAIN m.calls
  <2>1. ~Answered(d, Len(c) + 1, Len(d) + 1, x)
    BY <1>1 DEF Answered
  <2> QED BY <1>1, <1>2, <2>1, OpenCallsIs
<1> QED BY <1>1, <1>2, <1>3 DEF d

LEMMA NoCallsTyped == NoCalls \in CallMaps /\ DOMAIN NoCalls = {}
<1>1. NoCalls \in [{} -> Kinds] /\ DOMAIN NoCalls = {}
  BY DEF NoCalls
<1>2. {} \in SUBSET Ids
  OBVIOUS
<1> QED BY <1>1, <1>2 DEF CallMaps

LEMMA CallsTyped ==
  ASSUME NEW m \in Msg
  PROVE  DOMAIN m.calls \subseteq Ids /\ \A x \in DOMAIN m.calls : m.calls[x] \in Kinds
<1>1. m.calls \in CallMaps
  BY DEF Msg
<1>2. PICK D \in SUBSET Ids : m.calls \in [D -> Kinds]
  BY <1>1 DEF CallMaps
<1> QED BY <1>2

(* The conversation goes on only when no call is open, and a tool message  *)
(* answers calls that are: such a message keeps the context in order.      *)
LEMMA AppendKeepsContext ==
  ASSUME NEW c \in Seq(Msg), NEW m \in Msg, NEW n \in Nat, NEW p \in Nat, n <= p,
         ContextOK(c, n),
         m.role \in {"user", "assistant"} => OpenCalls(c) = {},
         m.role = "tool" => m.ids \subseteq OpenCalls(c) /\ m.ids # {},
         \A x \in DOMAIN m.calls : x[1] <= p
  PROVE  ContextOK(Append(c, m), p)
<1> DEFINE d == Append(c, m)
           l == LastAssistant(c)
           z == Len(c)
<1>0. /\ z \in Nat /\ l \in 0..z
      /\ l # 0 => c[l].role = "assistant"
      /\ \A i \in 1..z : c[i].role = "assistant" => i <= l
  BY LastAssistantIs
<1>1. /\ d \in Seq(Msg) /\ Len(d) = z + 1 /\ d[z + 1] = m
      /\ \A i \in 1..z : d[i] = c[i]
  BY AppendIs
<1>2. \A i \in Nat, j \in 0..z + 1 : \A x : Answered(d, i, j, x) <=> Answered(c, i, j, x)
  BY AppendAnswered
<1> HIDE DEF d, l, z
<1>3. ASSUME NEW i \in 1..z + 1, NEW j \in 1..z + 1, i < j, d[i].role = "assistant",
             d[j].role \in {"user", "assistant"}, NEW x \in DOMAIN d[i].calls
      PROVE  Answered(d, i, j, x)
  <2>1. i \in 1..z /\ i \in Nat /\ d[i] = c[i] /\ j \in 0..z + 1
    BY <1>0, <1>1, <1>3
  <2>2. CASE j \in 1..z
    <3>1. Answered(c, i, j, x)
      BY <1>1, <1>3, <2>1, <2>2 DEF ContextOK, z
    <3> QED BY <1>2, <2>1, <3>1
  <2>3. CASE j = z + 1
    <3>1. OpenCalls(c) = {}
      BY <1>1, <1>3, <2>3
    <3>2. i <= l /\ l \in 1..z
      BY <1>0, <1>3, <2>1
    <3>3. CASE i = l
      <4>1. Answered(c, i, z + 1, x)
        BY <1>3, <2>1, <3>1, <3>2, <3>3, OpenCallsIs DEF l, z
      <4> QED BY <1>2, <2>1, <2>3, <4>1
    <3>4. CASE i < l
      <4>1. Answered(c, i, l, x)
        BY <1>0, <1>3, <2>1, <3>2, <3>4 DEF ContextOK, z
      <4>2. PICK k \in i+1..l-1 : c[k].role = "tool" /\ x \in c[k].ids
        BY <4>1 DEF Answered
      <4>3. k \in i+1..(z+1)-1
        BY <1>0, <3>2
      <4>4. Answered(c, i, z + 1, x)
        BY <4>2, <4>3 DEF Answered
      <4> QED BY <1>2, <2>1, <2>3, <4>4
    <3> QED BY <2>1, <3>2, <3>3, <3>4
  <2> QED BY <1>0, <2>2, <2>3
<1>4. ASSUME NEW j \in 1..z + 1, d[j].role = "tool"
      PROVE  \E i \in 1..j-1 : Answers(d, i, j)
  <2>1. CASE j \in 1..z
    <3>1. PICK i \in 1..j-1 : Answers(c, i, j)
      BY <1>1, <1>4, <2>1 DEF ContextOK, z
    <3>2. /\ i \in 1..z /\ d[i] = c[i] /\ d[j] = c[j]
          /\ \A k \in i+1..j-1 : d[k] = c[k]
      BY <1>0, <1>1, <2>1
    <3> QED BY <3>1, <3>2 DEF Answers
  <2>2. CASE j = z + 1
    <3>1. m.role = "tool" /\ m.ids \subseteq OpenCalls(c) /\ m.ids # {}
      BY <1>1, <1>4, <2>2
    <3>2. /\ l # 0
          /\ \A x \in m.ids : x \in DOMAIN c[l].calls /\ ~Answered(c, l, z + 1, x)
      BY <3>1, OpenCallsIs DEF l, z
    <3>3. l \in 1..z /\ l \in 1..j-1 /\ d[l] = c[l] /\ d[j] = m
      BY <1>0, <1>1, <2>2, <3>2
    <3>4. ASSUME NEW k \in l+1..j-1
          PROVE  /\ d[k].role # "assistant"
                 /\ d[k].role = "tool" => d[k].ids \cap m.ids = {}
      <4>1. k \in 1..z /\ d[k] = c[k] /\ ~(k <= l) /\ k \in l+1..(z+1)-1
        BY <1>0, <1>1, <2>2, <3>3
      <4>2. d[k].role # "assistant"
        BY <1>0, <4>1
      <4>3. ASSUME d[k].role = "tool", NEW x \in m.ids, x \in d[k].ids PROVE FALSE
        <5>1. Answered(c, l, z + 1, x)
          BY <4>1, <4>3 DEF Answered
        <5> QED BY <3>2, <5>1
      <4> QED BY <4>2, <4>3
    <3>5. Answers(d, l, j)
      BY <1>0, <3>1, <3>2, <3>3, <3>4 DEF Answers
    <3> QED BY <3>3, <3>5
  <2> QED BY <1>0, <2>1, <2>2
<1>5. ASSUME NEW i \in 1..z + 1, NEW x \in DOMAIN d[i].calls PROVE x[1] <= p
  <2>1. CASE i \in 1..z
    <3>1. d[i] = c[i] /\ c[i] \in Msg /\ x[1] <= n
      BY <1>1, <1>5, <2>1 DEF ContextOK, z
    <3>2. x \in Ids
      BY <1>5, <3>1, CallsTyped
    <3> QED BY <3>1, <3>2 DEF Ids
  <2>2. CASE i = z + 1
    BY <1>1, <1>5, <2>2
  <2> QED BY <1>0, <2>1, <2>2
<1> QED BY <1>1, <1>3, <1>4, <1>5 DEF ContextOK, d

(* Decisions a context holds. *)
LEMMA AppendDecided ==
  ASSUME NEW c \in Seq(Msg), NEW m \in Msg
  PROVE  Decided(Append(c, m)) =
           IF m.role = "decision" THEN Decided(c) \cup m.ids ELSE Decided(c)
<1> DEFINE d == Append(c, m)
           z == Len(c)
<1>1. /\ z \in Nat /\ Len(d) = z + 1 /\ d[z + 1] = m
      /\ \A i \in 1..z : d[i] = c[i]
  BY AppendIs
<1> HIDE DEF d, z
<1>2. \A x : x \in Decided(d) <=> \E k \in 1..z+1 : d[k].role = "decision" /\ x \in d[k].ids
  BY <1>1 DEF Decided
<1>3. \A x : x \in Decided(c) <=> \E k \in 1..z : c[k].role = "decision" /\ x \in c[k].ids
  BY DEF Decided, z
<1>4. ASSUME NEW x
      PROVE  x \in Decided(d) <=> x \in Decided(c) \/ (m.role = "decision" /\ x \in m.ids)
  <2>1. \A k \in 1..z+1 : k \in 1..z \/ k = z + 1
    BY <1>1
  <2>2. z + 1 \in 1..z+1 /\ \A k \in 1..z : k \in 1..z+1
    BY <1>1
  <2> QED BY <1>1, <1>2, <1>3, <2>1, <2>2
<1> QED BY <1>4 DEF d

(* d has the same last answer of the model as c. *)
SameAnswer(c, d) ==
  /\ LastAssistant(d) = LastAssistant(c)
  /\ LastAssistant(c) # 0 => d[LastAssistant(c)] = c[LastAssistant(c)]

(* Closing open calls answers just those. *)
LEMMA CloseKeepsContext ==
  ASSUME NEW c \in Seq(Msg), NEW S \in SUBSET OpenCalls(c)
  PROVE  /\ CloseCalls(c, S) \in Seq(Msg)
         /\ SameAnswer(c, CloseCalls(c, S))
         /\ OpenCalls(CloseCalls(c, S)) = OpenCalls(c) \ S
         /\ Decided(CloseCalls(c, S)) = Decided(c)
         /\ \A n \in Nat : ContextOK(c, n) => ContextOK(CloseCalls(c, S), n)
<1>1. CASE S = {}
  BY <1>1 DEF CloseCalls, SameAnswer
<1>2. CASE S # {}
  <2> DEFINE m == ToolMessages(S)
  <2>1. /\ m \in Msg /\ m.role = "tool" /\ m.ids = S
        /\ \A x \in DOMAIN m.calls : FALSE
    <3>1. NoCalls \in CallMaps /\ DOMAIN NoCalls = {}
      BY NoCallsTyped
    <3>2. S \in SUBSET Ids
      BY OpenTyped
    <3> QED BY <3>1, <3>2 DEF ToolMessages, Message, Msg, Roles
  <2>2. CloseCalls(c, S) = Append(c, m)
    BY <1>2 DEF CloseCalls
  <2> HIDE DEF m
  <2>3. \A n \in Nat : ContextOK(c, n) => ContextOK(Append(c, m), n)
    BY <1>2, <2>1, AppendKeepsContext
  <2>4. /\ Append(c, m) \in Seq(Msg)
        /\ SameAnswer(c, Append(c, m))
        /\ OpenCalls(Append(c, m)) = OpenCalls(c) \ S
    BY <2>1, AppendIs, AppendReply DEF SameAnswer
  <2>5. Decided(Append(c, m)) = Decided(c)
    BY <2>1, AppendDecided
  <2> QED BY <2>2, <2>3, <2>4, <2>5
<1> QED BY <1>1, <1>2

(* The last answer needs neither a decision nor a client.                  *)
Pure(c) ==
  \A x \in DOMAIN c[LastAssistant(c)].calls :
    c[LastAssistant(c)].calls[x] \notin {"approval", "client"}

(* OpenToolCallCloser: what preSend closes is open; it is all but the      *)
(* sub-agents' calls when the answer needs nobody, and nothing otherwise.  *)
LEMMA ClosableIs ==
  ASSUME NEW c \in Seq(Msg), NEW n \in Nat, ContextOK(c, n)
  PROVE  /\ ClosableCalls(c) \subseteq OpenCalls(c)
         /\ \A x \in OpenCalls(c) :
              Pure(c) /\ c[LastAssistant(c)].calls[x] # "thread" => x \in ClosableCalls(c)
         /\ LastAssistant(c) # 0 /\ ~Pure(c) => ClosableCalls(c) = {}
<1> DEFINE l == LastAssistant(c)
           S == {k \in 1..Len(c) : c[k].role = "assistant" /\ c[k].calls # NoCalls}
           i == LastIn(S)
<1>0. /\ Len(c) \in Nat /\ l \in 0..Len(c)
      /\ l # 0 => c[l].role = "assistant"
      /\ \A k \in 1..Len(c) : c[k].role = "assistant" => k <= l
  BY LastAssistantIs
<1>1. /\ i \in 0..Len(c)
      /\ i # 0 => i \in S
      /\ \A j \in S : j <= i
  BY <1>0, LastInIs
<1>2. ClosableCalls(c) =
        IF i = 0 \/ (\E x \in DOMAIN c[i].calls : c[i].calls[x] \in {"approval", "client"})
        THEN {}
        ELSE {x \in DOMAIN c[i].calls : c[i].calls[x] # "thread"} \ AnsweredAfter(c, i)
  BY DEF ClosableCalls
<1>3. i # 0 => c[i].role = "assistant" /\ i <= l /\ i \in 1..Len(c)
  BY <1>0, <1>1
<1>4. l # 0 /\ c[l].calls # NoCalls => i = l
  <2>1. l # 0 /\ c[l].calls # NoCalls => l \in S
    BY <1>0
  <2> HIDE DEF S, l, i
  <2> QED BY <1>0, <1>1, <1>3, <2>1
<1> HIDE DEF S, i
<1>5. \A x : x \in AnsweredAfter(c, i) <=> Answered(c, i, Len(c) + 1, x)
  BY <1>1, AnsweredAfterIs
<1>6. \A x : x \in OpenCalls(c) <=>
               l # 0 /\ x \in DOMAIN c[l].calls /\ ~Answered(c, l, Len(c) + 1, x)
  BY OpenCallsIs
<1>7. ASSUME NEW x \in ClosableCalls(c) PROVE x \in OpenCalls(c)
  <2>1. /\ i # 0 /\ x \in DOMAIN c[i].calls
        /\ ~Answered(c, i, Len(c) + 1, x)
    BY <1>2, <1>5, <1>7
  <2>2. CASE i = l
    BY <1>6, <2>1, <2>2
  <2>3. CASE i # l
    <3>1. i < l /\ l \in 1..Len(c) /\ c[l].role = "assistant"
      BY <1>0, <1>3, <2>1, <2>3
    <3>2. Answered(c, i, l, x)
      BY <1>3, <2>1, <3>1 DEF ContextOK
    <3>3. PICK k \in i+1..l-1 : c[k].role = "tool" /\ x \in c[k].ids
      BY <3>2 DEF Answered
    <3>4. k \in i+1..(Len(c)+1)-1
      BY <1>0, <1>3, <2>1, <3>1
    <3>5. Answered(c, i, Len(c) + 1, x)
      BY <3>3, <3>4 DEF Answered
    <3> QED BY <2>1, <3>5
  <2> QED BY <2>2, <2>3
<1>8. \A x \in DOMAIN NoCalls : FALSE
  BY DEF NoCalls
<1>9. ASSUME NEW x \in OpenCalls(c), Pure(c), c[l].calls[x] # "thread"
      PROVE  x \in ClosableCalls(c)
  <2>1. l # 0 /\ x \in DOMAIN c[l].calls /\ ~Answered(c, l, Len(c) + 1, x)
    BY <1>6, <1>9
  <2>2. i = l
    BY <1>4, <1>8, <2>1
  <2> QED BY <1>2, <1>5, <1>9, <2>1, <2>2 DEF Pure
<1>10. ASSUME l # 0, ~Pure(c) PROVE ClosableCalls(c) = {}
  <2>1. PICK x \in DOMAIN c[l].calls : c[l].calls[x] \in {"approval", "client"}
    BY <1>10 DEF Pure
  <2>2. i = l
    BY <1>4, <1>8, <1>10, <2>1
  <2> QED BY <1>2, <2>1, <2>2
<1> QED BY <1>7, <1>9, <1>10

(* After preSend, an answer that needs nobody has only sub-agents' calls   *)
(* open; any other context is left as it is.                               *)
LEMMA PreSendIs ==
  ASSUME NEW c \in Seq(Msg), NEW n \in Nat, ContextOK(c, n)
  PROVE  /\ PreSend(c) \in Seq(Msg)
         /\ ContextOK(PreSend(c), n)
         /\ SameAnswer(c, PreSend(c))
         /\ OpenCalls(PreSend(c)) \subseteq OpenCalls(c)
         /\ Decided(PreSend(c)) = Decided(c)
         /\ Pure(c) => \A x \in OpenCalls(PreSend(c)) :
                         c[LastAssistant(c)].calls[x] = "thread"
         /\ LastAssistant(c) # 0 /\ ~Pure(c) => PreSend(c) = c
<1>1. /\ ClosableCalls(c) \in SUBSET OpenCalls(c)
      /\ \A x \in OpenCalls(c) :
           Pure(c) /\ c[LastAssistant(c)].calls[x] # "thread" => x \in ClosableCalls(c)
      /\ LastAssistant(c) # 0 /\ ~Pure(c) => ClosableCalls(c) = {}
  BY ClosableIs
<1>2. /\ PreSend(c) \in Seq(Msg)
      /\ ContextOK(PreSend(c), n)
      /\ SameAnswer(c, PreSend(c))
      /\ OpenCalls(PreSend(c)) = OpenCalls(c) \ ClosableCalls(c)
      /\ Decided(PreSend(c)) = Decided(c)
  BY <1>1, CloseKeepsContext DEF PreSend
<1>3. ClosableCalls(c) = {} => PreSend(c) = c
  BY DEF PreSend, CloseCalls
<1> QED BY <1>1, <1>2, <1>3

(* Nothing awaits the user when nothing is open. *)
LEMMA ClosedAwaitsNothing ==
  ASSUME NEW c, OpenCalls(c) = {}
  PROVE  PendingApproval(c) = {} /\ PendingClient(c) = {} /\ ~Awaiting(c)
BY DEF PendingApproval, PendingClient, OpenOfKind, Awaiting

(* A context with the same last answer, fewer open calls and more          *)
(* decisions waits for less.                                               *)
LEMMA LessPending ==
  ASSUME NEW c \in Seq(Msg), NEW d \in Seq(Msg), SameAnswer(c, d),
         OpenCalls(d) \subseteq OpenCalls(c), Decided(c) \subseteq Decided(d)
  PROVE  /\ PendingApproval(d) = (PendingApproval(c) \cap OpenCalls(d)) \ Decided(d)
         /\ PendingClient(d) = PendingClient(c) \cap OpenCalls(d)
<1>1. ASSUME NEW x \in OpenCalls(d)
      PROVE  x \in OpenCalls(c) /\
             d[LastAssistant(d)].calls[x] = c[LastAssistant(c)].calls[x]
  BY <1>1, OpenCallsIs DEF SameAnswer
<1> QED BY <1>1 DEF PendingApproval, PendingClient, OpenOfKind

(* send() answers all that is pending and closes no call it should not. *)
LEMMA SendIs ==
  ASSUME NEW c \in Seq(Msg), NEW n \in Nat, ContextOK(c, n), NEW D, NEW R,
         ~Skips(c, D, R), ValidBatch(c, D, R), ValidBatch(PreSend(c), D, R)
  PROVE  /\ AfterSend(c, D, R) \in Seq(Msg)
         /\ ContextOK(AfterSend(c, D, R), n)
         /\ SameAnswer(c, AfterSend(c, D, R))
         /\ OpenCalls(AfterSend(c, D, R)) \subseteq OpenCalls(PreSend(c))
         /\ OpenCalls(AfterSend(c, D, R)) \subseteq OpenCalls(c)
         /\ ~Awaiting(AfterSend(c, D, R))
<1> DEFINE p == PreSend(c)
           q == IF D = {} THEN p ELSE Append(p, Decisions(D))
           d == CloseCalls(q, R)
<1>1. /\ p \in Seq(Msg) /\ ContextOK(p, n) /\ SameAnswer(c, p)
      /\ OpenCalls(p) \subseteq OpenCalls(c)
      /\ Decided(p) = Decided(c)
  BY PreSendIs
<1>2. AfterSend(c, D, R) = d
  BY DEF AfterSend
<1>3. D \subseteq OpenCalls(p) /\ R \subseteq OpenCalls(p)
  BY DEF ValidBatch, PendingApproval, OpenOfKind
<1>4. D \subseteq Ids
  BY <1>1, <1>3, OpenTyped
<1> HIDE DEF p
<1>5. /\ q \in Seq(Msg) /\ ContextOK(q, n) /\ SameAnswer(p, q)
      /\ OpenCalls(q) = OpenCalls(p)
      /\ Decided(q) = Decided(p) \cup D
  <2>1. CASE D = {}
    BY <1>1, <2>1 DEF SameAnswer
  <2>2. CASE D # {}
    <3> DEFINE m == Decisions(D)
    <3>1. m \in Msg /\ m.role = "decision" /\ m.ids = D /\ \A x \in DOMAIN m.calls : FALSE
      BY <1>4, NoCallsTyped DEF Decisions, Message, Msg, Roles
    <3>2. q = Append(p, m)
      BY <2>2
    <3> HIDE DEF m, q
    <3>3. Append(p, m) \in Seq(Msg)
      BY <1>1, <3>1, AppendIs
    <3>4. ContextOK(Append(p, m), n)
      BY <1>1, <3>1, AppendKeepsContext
    <3>5. SameAnswer(p, Append(p, m)) /\ OpenCalls(Append(p, m)) = OpenCalls(p)
      BY <1>1, <3>1, AppendReply DEF SameAnswer
    <3>6. Decided(Append(p, m)) = Decided(p) \cup D
      BY <1>1, <3>1, AppendDecided
    <3> QED BY <3>2, <3>3, <3>4, <3>5, <3>6
  <2> QED BY <2>1, <2>2
<1> HIDE DEF q
<1>6. /\ d \in Seq(Msg) /\ ContextOK(d, n) /\ SameAnswer(q, d)
      /\ OpenCalls(d) = OpenCalls(q) \ R
      /\ Decided(d) = Decided(q)
  BY <1>3, <1>5, CloseKeepsContext
<1> HIDE DEF d
<1>7. SameAnswer(c, d)
  BY <1>1, <1>5, <1>6 DEF SameAnswer
<1>8. /\ PendingApproval(d) = (PendingApproval(c) \cap OpenCalls(d)) \ Decided(d)
      /\ PendingClient(d) = PendingClient(c) \cap OpenCalls(d)
  BY <1>1, <1>5, <1>6, <1>7, LessPending
<1>9. PendingApproval(c) \subseteq D /\ PendingClient(c) \subseteq R
  BY DEF ValidBatch
<1>10. ~Awaiting(d)
  <2>1. PendingApproval(d) = {}
    <3>1. PendingApproval(c) \subseteq Decided(d)
      BY <1>5, <1>6, <1>9
    <3> QED BY <1>8, <3>1
  <2>2. PendingClient(d) = {}
    <3>1. PendingClient(c) \cap OpenCalls(d) = {}
      BY <1>6, <1>9
    <3> QED BY <1>8, <3>1
  <2> QED BY <2>1, <2>2 DEF Awaiting
<1>11. OpenCalls(d) \subseteq OpenCalls(p)
  BY <1>5, <1>6
<1>12. OpenCalls(d) \subseteq OpenCalls(c)
  BY <1>1, <1>11
<1> QED BY <1>2, <1>6, <1>7, <1>10, <1>11, <1>12 DEF p

(* A user message finds every call of the main thread closed. *)
LEMMA ClosedForUserIs ==
  ASSUME NEW c \in Seq(Msg), NEW n \in Nat, ContextOK(c, n)
  PROVE  /\ PreSend(ClosedForUser(c)) \in Seq(Msg)
         /\ ContextOK(PreSend(ClosedForUser(c)), n)
         /\ OpenCalls(PreSend(ClosedForUser(c))) = {}
<1> DEFINE d == ClosedForUser(c)
<1>1. d \in Seq(Msg) /\ ContextOK(d, n) /\ OpenCalls(d) = {}
  BY CloseKeepsContext DEF ClosedForUser
<1> HIDE DEF d
<1> QED BY <1>1, PreSendIs DEF d

LEMMA UserMessageIs ==
  ASSUME NEW c \in Seq(Msg), NEW n \in Nat, ContextOK(c, n), OpenCalls(c) = {}
  PROVE  /\ Append(c, UserMessage) \in Seq(Msg)
         /\ ContextOK(Append(c, UserMessage), n)
         /\ OpenCalls(Append(c, UserMessage)) = {}
<1> DEFINE m == UserMessage
<1>1. m \in Msg /\ m.role = "user" /\ \A x \in DOMAIN m.calls : FALSE
  BY NoCallsTyped DEF UserMessage, Message, Msg, Roles
<1> HIDE DEF m
<1>2. Append(c, m) \in Seq(Msg)
  BY <1>1, AppendIs
<1>3. ContextOK(Append(c, m), n)
  BY <1>1, AppendKeepsContext
<1>4. OpenCalls(Append(c, m)) = {}
  BY <1>1, AppendReply
<1> QED BY <1>2, <1>3, <1>4 DEF m

(* An answer of the model, with a call per kind of its shape. *)
LEMMA CallsOfIs ==
  ASSUME NEW n \in Nat, NEW s \in Seq(Kinds)
  PROVE  /\ CallsOf(n, s) \in CallMaps
         /\ \A x \in DOMAIN CallsOf(n, s) : x \in Ids /\ x[1] = n
<1> DEFINE D == {<<n, k>> : k \in 1..Len(s)}
<1>1. D \in SUBSET Ids
  BY DEF Ids
<1>2. \A x \in D : x[1] = n /\ s[x[2]] \in Kinds
  OBVIOUS
<1>3. CallsOf(n, s) = [x \in D |-> s[x[2]]]
  BY DEF CallsOf
<1> HIDE DEF D
<1>4. CallsOf(n, s) \in [D -> Kinds] /\ DOMAIN CallsOf(n, s) = D
  BY <1>2, <1>3
<1> QED BY <1>1, <1>2, <1>4 DEF CallMaps

LEMMA ModelMessageIs ==
  ASSUME NEW c \in Seq(Msg), NEW n \in Nat, ContextOK(c, n), OpenCalls(c) = {},
         NEW s \in Seq(Kinds), NEW m, m = Message("assistant", CallsOf(n + 1, s), {})
  PROVE  /\ Append(c, m) \in Seq(Msg)
         /\ ContextOK(Append(c, m), n + 1)
         /\ OpenCalls(Append(c, m)) = DOMAIN CallsOf(n + 1, s)
         /\ \A x \in OpenCalls(Append(c, m)) : x[1] = n + 1
<1>1. n + 1 \in Nat /\ n <= n + 1
  OBVIOUS
<1>2. /\ CallsOf(n + 1, s) \in CallMaps
      /\ \A x \in DOMAIN CallsOf(n + 1, s) : x \in Ids /\ x[1] = n + 1
  BY <1>1, CallsOfIs
<1>3. m \in Msg /\ m.role = "assistant" /\ m.calls = CallsOf(n + 1, s)
  BY <1>2 DEF Message, Msg, Roles
<1>4. Append(c, m) \in Seq(Msg)
  BY <1>3, AppendIs
<1>5. ContextOK(Append(c, m), n + 1)
  <2>1. \A x \in DOMAIN m.calls : x[1] <= n + 1
    BY <1>1, <1>2, <1>3
  <2> QED BY <1>1, <1>3, <2>1, AppendKeepsContext
<1>6. OpenCalls(Append(c, m)) = DOMAIN CallsOf(n + 1, s)
  BY <1>3, AppendAnswer
<1> QED BY <1>2, <1>4, <1>5, <1>6

(* A compacted context, and a new one, have nothing open. *)
LEMMA CompactIs ==
  ASSUME NEW n \in Nat, NEW d,
         d = <<Message("assistant", NoCalls, {}), UserMessage>>
  PROVE  d \in Seq(Msg) /\ ContextOK(d, n) /\ OpenCalls(d) = {}
<1> DEFINE m == Message("assistant", NoCalls, {})
           e == <<m>>
<1>1. m \in Msg /\ m.role = "assistant" /\ DOMAIN m.calls = {}
  BY NoCallsTyped DEF Message, Msg, Roles
<1> HIDE DEF m
<1>2. e \in Seq(Msg) /\ Len(e) = 1 /\ e[1] = m /\ e = Append(<<>>, m) /\ <<>> \in Seq(Msg)
  BY <1>1
<1>3. OpenCalls(e) = {}
  BY <1>1, <1>2, AppendAnswer
<1>4. ContextOK(e, n)
  <2>1. \A i \in 1..Len(e) : i = 1 /\ e[i] = m
    BY <1>2
  <2> HIDE DEF e
  <2> QED BY <1>1, <2>1 DEF ContextOK
<1>5. d = Append(e, UserMessage)
  BY DEF e, m
<1> HIDE DEF e
<1> QED BY <1>2, <1>3, <1>4, <1>5, UserMessageIs

LEMMA EmptyIs ==
  ASSUME NEW n \in Nat
  PROVE  <<>> \in Seq(Msg) /\ ContextOK(<<>>, n) /\ OpenCalls(<<>>) = {}
<1>1. <<>> \in Seq(Msg) /\ Len(<<>>) = 0
  OBVIOUS
<1>2. LastAssistant(<<>>) = 0
  <2>1. LastAssistant(<<>>) \in 0..Len(<<>>)
    BY <1>1, LastAssistantIs
  <2> DEFINE l == LastAssistant(<<>>)
  <2> HIDE DEF l
  <2> QED BY <1>1, <2>1 DEF l
<1>3. OpenCalls(<<>>) = {}
  BY <1>1, <1>2, OpenCallsIs
<1>4. ContextOK(<<>>, n)
  BY <1>1 DEF ContextOK
<1> QED BY <1>1, <1>3, <1>4
-----------------------------------------------------------------------------
(* The state. *)

Completions == {"none", "done", "error", "cancelled"}
Places == {"off", "start", "loop", "ran", "create", "done", "sent"}
Thread ==
  [context : Seq(Msg), parent : {NoCall} \cup Ids, completion : Completions, made : Nat]
Local ==
  [state : {"none", "llm", "tool", "input"}, iterations : Nat, preSendRan : BOOLEAN,
   create : SUBSET Ids, auth : BOOLEAN, failed : BOOLEAN]

(* A thread of the snapshot: the main thread has no parent and is never    *)
(* complete, and every context is in order.                                *)
ThreadOK(t, th) ==
  /\ th \in Thread
  /\ th.parent = NoCall <=> t = Main
  /\ t = Main => th.completion = "none"
  /\ ContextOK(th.context, th.made)

ThreadsOK(ths) ==
  /\ Main \in DOMAIN ths /\ DOMAIN ths \subseteq AllThreads
  /\ ths = [t \in DOMAIN ths |-> ths[t]]
  /\ \A t \in DOMAIN ths : ThreadOK(t, ths[t])

TypeInv ==
  /\ ThreadsOK(threads)
  /\ turn \in {"idle", "running", "done", "error"}
  /\ pc \in [AllThreads -> Places] /\ pc[Main] \notin {"done", "sent"}
  /\ local \in [AllThreads -> Local]
  /\ stop \in BOOLEAN /\ abort \in BOOLEAN /\ strict \in BOOLEAN
  /\ asked \in SUBSET (AllThreads \X Ids)
  /\ executed \in SUBSET (AllThreads \X Ids)
  /\ work \in Nat

LEMMA ThreadOf ==
  ASSUME NEW ths, ThreadsOK(ths), NEW t \in DOMAIN ths
  PROVE  /\ t \in AllThreads /\ ths[t] \in Thread
         /\ ths[t].context \in Seq(Msg) /\ ths[t].made \in Nat
         /\ ths[t].parent \in {NoCall} \cup Ids /\ ths[t].completion \in Completions
         /\ ths[t].parent = NoCall <=> t = Main
         /\ t = Main => ths[t].completion = "none"
         /\ ContextOK(ths[t].context, ths[t].made)
BY DEF ThreadsOK, ThreadOK, Thread

(* One thread is replaced. *)
WithThread(ths, t, th) == [ths EXCEPT ![t] = th]

LEMMA SetThread ==
  ASSUME NEW ths, ThreadsOK(ths), NEW t \in DOMAIN ths, NEW th, ThreadOK(t, th),
         NEW new, new = WithThread(ths, t, th)
  PROVE  /\ ThreadsOK(new)
         /\ DOMAIN new = DOMAIN ths
         /\ new[t] = th
         /\ \A u \in DOMAIN ths \ {t} : new[u] = ths[u]
<1>1. DOMAIN new = DOMAIN ths /\ new[t] = th /\ \A u \in DOMAIN ths \ {t} : new[u] = ths[u]
  BY DEF WithThread
<1>2. new = [u \in DOMAIN new |-> new[u]]
  BY DEF WithThread
<1>3. \A u \in DOMAIN new : ThreadOK(u, new[u])
  BY <1>1 DEF ThreadsOK
<1> QED BY <1>1, <1>2, <1>3 DEF ThreadsOK

(* At most the context of thread t is. *)
Rewrote(ths, new, t) ==
  /\ ThreadsOK(new)
  /\ DOMAIN new = DOMAIN ths
  /\ new[t].made = ths[t].made
  /\ new[t].completion = ths[t].completion
  /\ new[t].parent = ths[t].parent
  /\ \A u \in DOMAIN ths \ {t} : new[u] = ths[u]

WithContext(th, d) == [th EXCEPT !.context = d]

LEMMA Rewrite ==
  ASSUME NEW ths, ThreadsOK(ths), NEW t \in DOMAIN ths, NEW d \in Seq(Msg),
         ContextOK(d, ths[t].made),
         NEW new, new = WithThread(ths, t, WithContext(ths[t], d))
  PROVE  Rewrote(ths, new, t) /\ new[t].context = d
<1> DEFINE th == WithContext(ths[t], d)
<1>1. ThreadOK(t, ths[t])
  BY DEF ThreadsOK
<1>2. /\ th \in Thread /\ th.context = d /\ th.made = ths[t].made
      /\ th.completion = ths[t].completion /\ th.parent = ths[t].parent
  BY <1>1 DEF ThreadOK, Thread, WithContext
<1>3. new = WithThread(ths, t, th)
  OBVIOUS
<1> HIDE DEF th
<1>4. ThreadOK(t, th)
  BY <1>1, <1>2 DEF ThreadOK
<1>5. /\ ThreadsOK(new)
      /\ DOMAIN new = DOMAIN ths
      /\ new[t] = th
      /\ \A u \in DOMAIN ths \ {t} : new[u] = ths[u]
  BY <1>3, <1>4, SetThread
<1> QED BY <1>2, <1>5 DEF Rewrote

LEMMA FreshTyped == FreshLocal \in Local /\ ~FreshLocal.preSendRan /\ ~FreshLocal.failed
BY DEF FreshLocal, Local

LEMMA NewThreadIs ==
  ASSUME NEW x \in {NoCall} \cup Ids, NEW t, x = NoCall <=> t = Main
  PROVE  /\ ThreadOK(t, NewThread(x))
         /\ NewThread(x).context = <<>> /\ NewThread(x).completion = "none"
<1>1. <<>> \in Seq(Msg) /\ ContextOK(<<>>, 0)
  BY EmptyIs
<1> QED BY <1>1 DEF NewThread, ThreadOK, Thread, Completions

LEMMA InitTyped == Init => TypeInv
<1> SUFFICES ASSUME Init PROVE TypeInv
  OBVIOUS
<1> USE ThreadsAssumption DEF Init
<1>1. ThreadsOK(threads)
  <2>1. ThreadOK(Main, NewThread(NoCall))
    BY NewThreadIs
  <2>2. DOMAIN threads = {Main} /\ threads[Main] = NewThread(NoCall)
        /\ threads = [t \in DOMAIN threads |-> threads[t]]
    OBVIOUS
  <2> QED BY <2>1, <2>2 DEF ThreadsOK, AllThreads
<1>2. local \in [AllThreads -> Local]
  BY FreshTyped
<1>3. pc \in [AllThreads -> Places] /\ pc[Main] = "off"
  BY DEF Places, AllThreads
<1> QED BY <1>1, <1>2, <1>3 DEF TypeInv
-----------------------------------------------------------------------------
(* Steps of the turn. *)

(* send(): a batch that a thread accepts and does not skip is for an       *)
(* unfinished thread, which awaits nothing afterwards.                     *)
LEMMA AfterSendIs ==
  ASSUME NEW t, NEW th, ThreadOK(t, th), NEW D, NEW R, AcceptsSend(th, D, R)
  PROVE  /\ AfterSend(th.context, D, R) \in Seq(Msg)
         /\ ContextOK(AfterSend(th.context, D, R), th.made)
         /\ ~Awaiting(AfterSend(th.context, D, R))
         /\ Skips(th.context, D, R) => AfterSend(th.context, D, R) = th.context
         /\ ~Skips(th.context, D, R) =>
              /\ th.completion = "none"
              /\ SameAnswer(th.context, AfterSend(th.context, D, R))
              /\ OpenCalls(AfterSend(th.context, D, R)) \subseteq OpenCalls(PreSend(th.context))
<1> DEFINE c == th.context
<1>1. c \in Seq(Msg) /\ th.made \in Nat /\ ContextOK(c, th.made)
  BY DEF ThreadOK, Thread
<1>2. CASE Skips(c, D, R)
  BY <1>1, <1>2 DEF AfterSend, Skips
<1>3. CASE ~Skips(c, D, R)
  <2>1. th.completion = "none" /\ ValidBatch(c, D, R) /\ ValidBatch(PreSend(c), D, R)
    BY <1>3 DEF AcceptsSend
  <2> HIDE DEF c
  <2> QED BY <1>1, <1>3, <2>1, SendIs DEF c
<1> QED BY <1>2, <1>3

(* The snapshot that a user message leaves: main's calls are closed, and   *)
(* every sub-agent is complete.                                            *)
LEMMA UserSnapshot ==
  ASSUME TypeInv, CreateTurnUser
  PROVE  /\ ThreadsOK(threads') /\ DOMAIN threads' = Live
         /\ threads'[Main].context \in Seq(Msg)
         /\ OpenCalls(threads'[Main].context) = {}
         /\ \A t \in Live : threads'[t].made = threads[t].made
         /\ \A t \in Subs : threads'[t].context = threads[t].context
                            /\ threads'[t].completion # "none"
<1>0. ThreadsOK(threads)
  BY DEF TypeInv
<1>1. threads' =
       [t \in Live |->
          IF t = Main
          THEN [threads[t] EXCEPT !.context = Append(PreSend(ClosedForUser(@)), UserMessage)]
          ELSE [threads[t] EXCEPT !.completion = IF @ = "none" THEN "cancelled" ELSE @]]
  BY DEF CreateTurnUser
<1> DEFINE m == threads[Main]
           d == Append(PreSend(ClosedForUser(m.context)), UserMessage)
<1>2. Main \in Live /\ Main \in DOMAIN threads
  BY <1>0 DEF ThreadsOK, Live
<1>3. d \in Seq(Msg) /\ ContextOK(d, m.made) /\ OpenCalls(d) = {}
  <2> DEFINE e == PreSend(ClosedForUser(m.context))
  <2>1. m.context \in Seq(Msg) /\ m.made \in Nat /\ ContextOK(m.context, m.made)
    BY <1>0, <1>2, ThreadOf
  <2>2. e \in Seq(Msg) /\ ContextOK(e, m.made) /\ OpenCalls(e) = {}
    BY <2>1, ClosedForUserIs
  <2> HIDE DEF e
  <2> QED BY <2>1, <2>2, UserMessageIs DEF e
<1>4. /\ threads'[Main] = [m EXCEPT !.context = d]
      /\ DOMAIN threads' = Live
      /\ \A t \in Subs : threads'[t] =
           [threads[t] EXCEPT !.completion = IF @ = "none" THEN "cancelled" ELSE @]
      /\ threads' = [t \in DOMAIN threads' |-> threads'[t]]
  BY <1>1, <1>2 DEF Subs
<1> HIDE DEF d
<1>5. /\ ThreadOK(Main, threads'[Main]) /\ threads'[Main].context = d
      /\ threads'[Main].made = threads[Main].made
  <2>1. ThreadOK(Main, m)
    BY <1>0, <1>2 DEF ThreadsOK
  <2> QED BY <1>3, <1>4, <2>1 DEF ThreadOK, Thread
<1>6. ASSUME NEW t \in Subs
      PROVE  /\ ThreadOK(t, threads'[t]) /\ threads'[t].context = threads[t].context
             /\ threads'[t].completion # "none" /\ threads'[t].made = threads[t].made
  <2>1. ThreadOK(t, threads[t]) /\ t # Main
    BY <1>0, <1>6 DEF ThreadsOK, Subs, Live
  <2> DEFINE x == IF threads[t].completion = "none" THEN "cancelled"
                  ELSE threads[t].completion
  <2>2. threads'[t] = [threads[t] EXCEPT !.completion = x]
    BY <1>4
  <2>3. threads[t] \in Thread /\ threads[t].completion \in Completions
    BY <2>1 DEF ThreadOK, Thread
  <2>4. x \in Completions /\ x # "none"
    BY <2>3 DEF Completions
  <2> HIDE DEF x
  <2>5. /\ threads'[t] \in Thread /\ threads'[t].context = threads[t].context
        /\ threads'[t].completion = x /\ threads'[t].made = threads[t].made
        /\ threads'[t].parent = threads[t].parent
    BY <2>2, <2>3, <2>4 DEF Thread
  <2> QED BY <2>1, <2>4, <2>5 DEF ThreadOK
<1>7. ThreadsOK(threads')
  BY <1>0, <1>2, <1>4, <1>5, <1>6 DEF ThreadsOK, Subs, Live
<1> QED BY <1>3, <1>4, <1>5, <1>6, <1>7 DEF Subs

(* The snapshot that answers, or a resume, leave: each thread that does    *)
(* not skip its batch has taken it.                                        *)
LEMMA AnswerSnapshot ==
  ASSUME TypeInv, NEW D, NEW R, CreateTurnAnswer(D, R)
  PROVE  /\ ThreadsOK(threads') /\ DOMAIN threads' = Live
         /\ \A t \in Live :
              /\ AcceptsSend(threads[t], For(D, t), For(R, t))
              /\ threads'[t].context = AfterSend(threads[t].context, For(D, t), For(R, t))
              /\ threads'[t].made = threads[t].made
              /\ threads'[t].completion = threads[t].completion
<1>0. ThreadsOK(threads)
  BY DEF TypeInv
<1>1. threads' = [t \in Live |->
         [threads[t] EXCEPT !.context = AfterSend(@, For(D, t), For(R, t))]]
  BY DEF CreateTurnAnswer
<1>2. DOMAIN threads' = Live /\ threads' = [t \in DOMAIN threads' |-> threads'[t]]
  BY <1>1
<1>3. ASSUME NEW t \in Live
      PROVE  /\ ThreadOK(t, threads'[t])
             /\ AcceptsSend(threads[t], For(D, t), For(R, t))
             /\ threads'[t].context = AfterSend(threads[t].context, For(D, t), For(R, t))
             /\ threads'[t].made = threads[t].made
             /\ threads'[t].completion = threads[t].completion
  <2> DEFINE d == AfterSend(threads[t].context, For(D, t), For(R, t))
  <2>1. AcceptsSend(threads[t], For(D, t), For(R, t))
    BY DEF CreateTurnAnswer, AcceptsAnswers
  <2>2. ThreadOK(t, threads[t])
    BY <1>0 DEF ThreadsOK, Live
  <2>3. d \in Seq(Msg) /\ ContextOK(d, threads[t].made)
    BY <2>1, <2>2, AfterSendIs
  <2>4. threads'[t] = [threads[t] EXCEPT !.context = d]
    BY <1>1
  <2> HIDE DEF d
  <2> QED BY <2>1, <2>2, <2>3, <2>4 DEF d, ThreadOK, Thread
<1>4. ThreadsOK(threads')
  BY <1>0, <1>2, <1>3 DEF ThreadsOK, Live
<1> QED BY <1>2, <1>3, <1>4

LEMMA BeginTyped ==
  ASSUME TypeInv, ThreadsOK(threads'), NEW sent, BeginTurn(sent)
  PROVE  TypeInv'
<1>1. local' \in [AllThreads -> Local]
  <2>1. \A b \in BOOLEAN : [FreshLocal EXCEPT !.preSendRan = b] \in Local
    BY DEF FreshLocal, Local
  <2>2. \A t \in AllThreads : (t \in sent) \in BOOLEAN
    OBVIOUS
  <2> QED BY <2>1, <2>2 DEF BeginTurn
<1> QED BY <1>1 DEF BeginTurn, Costs, TypeInv

LEMMA EndTyped ==
  ASSUME TypeInv, NEW o \in {"idle", "done", "error"}, EndTurn(o),
         asked' \in {{}, asked}, work' \in Nat
  PROVE  TypeInv'
<1>1. local' \in [AllThreads -> Local]
  BY FreshTyped DEF EndTurn
<1>2. pc' \in [AllThreads -> Places] /\ pc'[Main] = "off"
  BY DEF EndTurn, Places, AllThreads
<1> QED BY <1>1, <1>2 DEF EndTurn, TypeInv
-----------------------------------------------------------------------------
(* What each step of a thread does to the snapshot. *)

LEMMA LiveIs ==
  ASSUME TypeInv
  PROVE  /\ ThreadsOK(threads) /\ Main \in Live /\ Live \subseteq AllThreads
         /\ \A t \in Live :
              /\ t \in AllThreads /\ threads[t] \in Thread
              /\ Context(t) \in Seq(Msg) /\ threads[t].made \in Nat
              /\ ContextOK(Context(t), threads[t].made)
              /\ IsChild(t) <=> t # Main
              /\ t = Main => threads[t].completion = "none"
              /\ threads[t].completion \in Completions
              /\ threads[t].parent \in {NoCall} \cup Ids
BY ThreadOf DEF TypeInv, ThreadsOK, Live, Context, IsChild

LEMMA SameSnapshot ==
  ASSUME NEW ths, ThreadsOK(ths), NEW t
  PROVE  Rewrote(ths, ths, t)
BY DEF Rewrote

LEMMA StartStep ==
  ASSUME TypeInv, NEW t \in Live, Start(t)
  PROVE  /\ Rewrote(threads, threads', t)
         /\ threads[t].completion # "none" => threads' = threads /\ local' = local
         /\ threads[t].completion = "none" =>
              threads'[t].context =
                IF local[t].preSendRan THEN Context(t) ELSE PreSend(Context(t))
<1>0. ThreadsOK(threads) /\ t \in DOMAIN threads /\ threads[t].made \in Nat
      /\ Context(t) \in Seq(Msg) /\ ContextOK(Context(t), threads[t].made)
  BY LiveIs DEF Live
<1>1. CASE threads[t].completion # "none"
  BY <1>0, <1>1, SameSnapshot DEF Start
<1>2. CASE threads[t].completion = "none"
  <2> DEFINE d == IF local[t].preSendRan THEN Context(t) ELSE PreSend(Context(t))
  <2>1. threads' = WithThread(threads, t, WithContext(threads[t], d))
    BY <1>2 DEF Start, Context, WithContext, WithThread
  <2>2. d \in Seq(Msg) /\ ContextOK(d, threads[t].made)
    BY <1>0, PreSendIs
  <2> HIDE DEF d
  <2>3. Rewrote(threads, threads', t) /\ threads'[t].context = d
    BY <1>0, <2>1, <2>2, Rewrite
  <2> QED BY <1>2, <2>3 DEF d
<1> QED BY <1>1, <1>2

LEMMA CompactStep ==
  ASSUME TypeInv, NEW t \in Live, Compact(t)
  PROVE  Rewrote(threads, threads', t) /\ OpenCalls(threads'[t].context) = {}
<1> DEFINE d == <<Message("assistant", NoCalls, {}), UserMessage>>
<1>0. ThreadsOK(threads) /\ t \in DOMAIN threads /\ threads[t].made \in Nat
  BY LiveIs DEF Live
<1>1. d \in Seq(Msg) /\ ContextOK(d, threads[t].made) /\ OpenCalls(d) = {}
  BY <1>0, CompactIs
<1>2. threads' = WithThread(threads, t, WithContext(threads[t], d))
  BY DEF Compact, WithContext, WithThread
<1> HIDE DEF d
<1>3. Rewrote(threads, threads', t) /\ threads'[t].context = d
  BY <1>0, <1>1, <1>2, Rewrite
<1> QED BY <1>1, <1>3

(* The loop's state is read off the context. *)
LEMMA EntersIs ==
  ASSUME NEW t
  PROVE  /\ Enters(t, "llm") => OpenCalls(Context(t)) = {}
         /\ Enters(t, "tool") => OpenCalls(Context(t)) # {} /\ ~Awaiting(Context(t))
BY DEF Enters, DeriveState

LEMMA ModelStep ==
  ASSUME TypeInv, NEW t \in Live, NEW shape \in Shapes(t), NEW failed \in BOOLEAN,
         ModelAnswers(t, shape, failed)
  PROVE  /\ ThreadsOK(threads') /\ DOMAIN threads' = Live
         /\ \A u \in Live \ {t} : threads'[u] = threads[u]
         /\ threads'[t].made = threads[t].made + 1
         /\ threads'[t].parent = threads[t].parent
         /\ \A x \in OpenCalls(threads'[t].context) : x[1] = threads[t].made + 1
         /\ Len(shape) = 0 => OpenCalls(threads'[t].context) = {}
         /\ t # Main /\ (failed \/ Len(shape) = 0) => threads'[t].completion # "none"
         /\ ~failed /\ Len(shape) # 0 => threads'[t].completion = "none"
         /\ t = Main => threads'[t].completion = "none"
<1> DEFINE th == threads[t]
           m == Message("assistant", CallsOf(th.made + 1, shape), {})
           d == Append(th.context, m)
           cm == IF ~IsChild(t) THEN "none"
                 ELSE IF failed THEN "error"
                 ELSE IF Len(shape) = 0 THEN "done" ELSE "none"
           n == [th EXCEPT !.context = d, !.completion = cm, !.made = @ + 1]
<1>0. /\ ThreadsOK(threads) /\ t \in DOMAIN threads
      /\ th \in Thread /\ th.made \in Nat /\ th.context \in Seq(Msg)
      /\ ContextOK(th.context, th.made)
      /\ IsChild(t) <=> t # Main
      /\ th.parent = NoCall <=> t = Main
  BY LiveIs DEF Live, Context, IsChild
<1>1. OpenCalls(th.context) = {}
  BY EntersIs DEF ModelAnswers, Context
<1>2. shape \in Seq(Kinds)
  <2>1. \A s \in Seq({"tool", "approval"}) : s \in Seq(Kinds)
    BY DEF Kinds
  <2> QED BY <2>1, ThreadsAssumption DEF Shapes
<1>3. threads' = WithThread(threads, t, n)
  BY DEF ModelAnswers, WithThread
<1>4. cm \in Completions
      /\ (t # Main /\ (failed \/ Len(shape) = 0) => cm # "none")
      /\ (~failed /\ Len(shape) # 0 => cm = "none")
      /\ (t = Main => cm = "none")
  BY <1>0 DEF Completions
<1>5. /\ d \in Seq(Msg) /\ ContextOK(d, th.made + 1)
      /\ OpenCalls(d) = DOMAIN CallsOf(th.made + 1, shape)
      /\ \A x \in OpenCalls(d) : x[1] = th.made + 1
  <2> HIDE DEF m
  <2> QED BY <1>0, <1>1, <1>2, ModelMessageIs DEF m
<1>6. Len(shape) = 0 => OpenCalls(d) = {}
  <2>1. Len(shape) = 0 => DOMAIN CallsOf(th.made + 1, shape) = {}
    BY DEF CallsOf
  <2> QED BY <1>5, <2>1
<1> HIDE DEF cm, d
<1>7. /\ n \in Thread /\ n.context = d /\ n.completion = cm /\ n.made = th.made + 1
      /\ n.parent = th.parent
  <2>1. th.made + 1 \in Nat
    BY <1>0
  <2> DEFINE k == th.made + 1
  <2>2. n = [th EXCEPT !.context = d, !.completion = cm, !.made = k]
    OBVIOUS
  <2> HIDE DEF k, th, n
  <2>3. /\ n \in Thread /\ n.context = d /\ n.completion = cm /\ n.made = k
        /\ n.parent = th.parent
    BY ONLY <1>0, <1>4, <1>5, <2>1, <2>2 DEF Thread, k
  <2> QED BY <2>3 DEF k
<1> HIDE DEF n, th
<1>8. ThreadOK(t, n)
  BY <1>0, <1>4, <1>5, <1>7 DEF ThreadOK
<1>9. /\ ThreadsOK(threads') /\ DOMAIN threads' = DOMAIN threads /\ threads'[t] = n
      /\ \A u \in DOMAIN threads \ {t} : threads'[u] = threads[u]
  BY <1>0, <1>3, <1>8, SetThread
<1> QED BY <1>4, <1>5, <1>6, <1>7, <1>9 DEF Live, th

LEMMA AppendStep ==
  ASSUME TypeInv, NEW t \in Live, AppendResults(t)
  PROVE  /\ Rewrote(threads, threads', t)
         /\ SameAnswer(Context(t), threads'[t].context)
         /\ OpenCalls(threads'[t].context) \subseteq OpenCalls(Context(t))
         /\ Decided(threads'[t].context) = Decided(Context(t))
         /\ local[t].create = {} => OpenCalls(threads'[t].context) = {}
<1> DEFINE c == Context(t)
           S == OpenCalls(c) \ local[t].create
           d == CloseCalls(c, S)
<1>0. ThreadsOK(threads) /\ t \in DOMAIN threads /\ threads[t].made \in Nat
      /\ c \in Seq(Msg) /\ ContextOK(c, threads[t].made)
  BY LiveIs DEF Live
<1>1. /\ d \in Seq(Msg) /\ SameAnswer(c, d) /\ OpenCalls(d) = OpenCalls(c) \ S
      /\ Decided(d) = Decided(c) /\ ContextOK(d, threads[t].made)
  <2>1. S \in SUBSET OpenCalls(c)
    OBVIOUS
  <2> HIDE DEF S, c
  <2> QED BY <1>0, <2>1, CloseKeepsContext
<1>2. threads' = WithThread(threads, t, WithContext(threads[t], d))
  BY DEF AppendResults, Context, WithContext, WithThread
<1> HIDE DEF d, c
<1>3. Rewrote(threads, threads', t) /\ threads'[t].context = d
  BY <1>0, <1>1, <1>2, Rewrite
<1> QED BY <1>1, <1>3 DEF c

LEMMA CreateStep ==
  ASSUME TypeInv, NEW t \in Live, NEW x \in local[t].create, NEW child \in Children,
         CreateThread(t, x, child)
  PROVE  /\ ThreadsOK(threads') /\ DOMAIN threads' = Live \cup {child}
         /\ child \notin Live /\ child # Main /\ child \in AllThreads
         /\ \A u \in Live : threads'[u] = threads[u] /\ u # child
         /\ threads'[child] = NewThread(x)
<1>0. /\ ThreadsOK(threads) /\ Main \in Live /\ Live \subseteq AllThreads
      /\ t \in AllThreads
  BY LiveIs
<1>1. x \in Ids /\ x # NoCall
  <2>1. local[t] \in Local
    BY <1>0 DEF TypeInv
  <2> QED BY <2>1, ThreadsAssumption DEF Local, Ids
<1>2. /\ child \in Children \ Live /\ child # Main /\ child \in AllThreads
      /\ threads' = [u \in Live \cup {child} |->
                       IF u = child THEN NewThread(x) ELSE threads[u]]
  BY <1>0, ThreadsAssumption DEF CreateThread, AllThreads
<1>3. ThreadOK(child, NewThread(x))
  BY <1>1, <1>2, NewThreadIs
<1>4. /\ DOMAIN threads' = Live \cup {child}
      /\ threads' = [u \in DOMAIN threads' |-> threads'[u]]
      /\ threads'[child] = NewThread(x)
      /\ \A u \in Live : threads'[u] = threads[u] /\ u # child
  BY <1>2
<1>5. ThreadsOK(threads')
  BY <1>0, <1>2, <1>3, <1>4 DEF ThreadsOK, Live
<1> QED BY <1>2, <1>4, <1>5

(* A result that main's context still waits for is sent to it. *)
LEMMA DeliverStep ==
  ASSUME TypeInv, NEW t \in Live, DeliverResult(t)
  PROVE  /\ t # Main
         /\ Rewrote(threads, threads', Main)
         /\ \/ threads' = threads /\ local' = local
            \/ /\ local' = [local EXCEPT ![Main].preSendRan = TRUE]
               /\ SameAnswer(Context(Main), threads'[Main].context)
               /\ OpenCalls(threads'[Main].context) \subseteq OpenCalls(PreSend(Context(Main)))
               /\ ~Awaiting(threads'[Main].context)
<1> DEFINE R == {threads[t].parent}
           c == Context(Main)
           d == AfterSend(c, {}, R)
<1>0. /\ ThreadsOK(threads) /\ Main \in DOMAIN threads /\ t \in AllThreads
      /\ ThreadOK(Main, threads[Main]) /\ c = threads[Main].context
      /\ pc[t] = "done" /\ pc[Main] # "done"
  BY LiveIs DEF Live, ThreadsOK, DeliverResult, At, TypeInv, Context
<1>1. CASE threads[t].parent \notin OpenCalls(c)
  BY <1>0, <1>1, SameSnapshot DEF DeliverResult
<1>2. CASE threads[t].parent \in OpenCalls(c)
  <2>1. /\ AcceptsSend(threads[Main], {}, R)
        /\ local' = [local EXCEPT ![Main].preSendRan = TRUE]
        /\ threads' = WithThread(threads, Main, WithContext(threads[Main], d))
    BY <1>2 DEF DeliverResult, Context, WithContext, WithThread
  <2>2. ~Skips(c, {}, R)
    BY DEF Skips
  <2>3. /\ d \in Seq(Msg) /\ ContextOK(d, threads[Main].made)
        /\ ~Awaiting(d) /\ SameAnswer(c, d)
        /\ OpenCalls(d) \subseteq OpenCalls(PreSend(c))
    <3> HIDE DEF R
    <3> QED BY <1>0, <2>1, <2>2, AfterSendIs
  <2> HIDE DEF d
  <2>4. Rewrote(threads, threads', Main) /\ threads'[Main].context = d
    BY <1>0, <2>1, <2>3, Rewrite
  <2> QED BY <1>0, <2>1, <2>3, <2>4
<1> QED BY <1>1, <1>2

LEMMA RemoveStep ==
  ASSUME TypeInv, NEW t \in Live, RemoveThread(t)
  PROVE  /\ t # Main
         /\ ThreadsOK(threads') /\ DOMAIN threads' = Live \ {t}
         /\ \A u \in Live \ {t} : threads'[u] = threads[u]
<1>0. ThreadsOK(threads) /\ Main \in Live /\ t # Main
  BY LiveIs DEF RemoveThread, TypeInv
<1>1. threads' = [u \in Live \ {t} |-> threads[u]]
  BY DEF RemoveThread
<1>2. /\ DOMAIN threads' = Live \ {t}
      /\ threads' = [u \in DOMAIN threads' |-> threads'[u]]
      /\ \A u \in Live \ {t} : threads'[u] = threads[u]
  BY <1>1
<1> QED BY <1>0, <1>2 DEF ThreadsOK, Live

-----------------------------------------------------------------------------
(* Types. *)

LEMMA PlaceTyped ==
  ASSUME TypeInv, NEW t \in Live, NEW p \in Places, p \in {"done", "sent"} => t # Main
  PROVE  [pc EXCEPT ![t] = p] \in [AllThreads -> Places]
         /\ [pc EXCEPT ![t] = p][Main] \notin {"done", "sent"}
<1>1. t \in AllThreads /\ Main \in AllThreads
  BY LiveIs
<1> QED BY <1>1 DEF TypeInv

LEMMA DoneTyped ==
  ASSUME TypeInv, NEW t \in Live, Done(t)
  PROVE  /\ pc' \in [AllThreads -> Places] /\ pc'[Main] \notin {"done", "sent"}
         /\ stop' \in BOOLEAN
<1>1. IsChild(t) <=> t # Main
  BY LiveIs
<1> DEFINE p == IF IsChild(t) THEN "done" ELSE "off"
<1>2. p \in Places /\ (p \in {"done", "sent"} => t # Main)
  BY <1>1 DEF Places
<1>3. pc' = [pc EXCEPT ![t] = p] /\ stop' \in BOOLEAN
  BY DEF Done, TypeInv
<1> HIDE DEF p
<1> QED BY <1>2, <1>3, PlaceTyped

LEMMA ExitTyped ==
  ASSUME TypeInv, NEW t \in Live, Exit(t)
  PROVE  pc' \in [AllThreads -> Places] /\ pc'[Main] \notin {"done", "sent"}
BY PlaceTyped DEF Exit, Places

LEMMA LocalTyped ==
  ASSUME TypeInv, NEW t \in AllThreads, NEW r \in Local
  PROVE  [local EXCEPT ![t] = r] \in [AllThreads -> Local]
BY DEF TypeInv

LEMMA StepTyped ==
  ASSUME TypeInv, NEW t \in Live, ThreadStep(t)
  PROVE  TypeInv'
<1>0. /\ t \in AllThreads /\ ThreadsOK(threads) /\ Context(t) \in Seq(Msg)
      /\ local[t] \in Local /\ local \in [AllThreads -> Local]
      /\ Main \in AllThreads /\ local[Main] \in Local
  BY LiveIs DEF TypeInv
<1>1. CASE Start(t)
  <2>1. ThreadsOK(threads')
    BY <1>1, StartStep DEF Rewrote
  <2>2. /\ pc' \in [AllThreads -> Places] /\ pc'[Main] \notin {"done", "sent"}
        /\ stop' \in BOOLEAN
    <3>1. \/ Done(t)
          \/ pc' = [pc EXCEPT ![t] = "loop"] /\ stop' = stop
          \/ Exit(t) /\ stop' = TRUE
      BY <1>1 DEF Start
    <3>2. "loop" \in Places /\ "loop" \notin {"done", "sent"}
      BY DEF Places
    <3> QED BY <3>1, <3>2, DoneTyped, ExitTyped, PlaceTyped DEF TypeInv
  <2>3. local' \in [AllThreads -> Local]
    <3>1. \/ local' = local
          \/ local' = [local EXCEPT ![t] = [local[t] EXCEPT !.preSendRan = FALSE,
                                                            !.state = "none"]]
      BY <1>1 DEF Start
    <3>2. [local[t] EXCEPT !.preSendRan = FALSE, !.state = "none"] \in Local
      BY <1>0 DEF Local
    <3> QED BY <1>0, <3>1, <3>2, LocalTyped
  <2> QED BY <1>1, <2>1, <2>2, <2>3 DEF Start, TypeInv
<1>2. CASE Compact(t)
  BY <1>2, CompactStep DEF Compact, Rewrote, TypeInv
<1>3. ASSUME NEW shape \in Shapes(t), NEW failed \in BOOLEAN, ModelAnswers(t, shape, failed)
      PROVE  TypeInv'
  <2>1. ThreadsOK(threads')
    BY <1>3, ModelStep
  <2>2. /\ pc' \in [AllThreads -> Places] /\ pc'[Main] \notin {"done", "sent"}
        /\ stop' \in BOOLEAN
    BY <1>3, DoneTyped DEF ModelAnswers, TypeInv
  <2>3. local' \in [AllThreads -> Local]
    <3> DEFINE n == local[t].iterations + 1
    <3>1. local' = [local EXCEPT ![t] = [local[t] EXCEPT !.state = "llm",
                                            !.iterations = n, !.failed = failed]]
      BY <1>3 DEF ModelAnswers
    <3>2. n \in Nat
      BY <1>0 DEF Local
    <3> HIDE DEF n
    <3>3. [local[t] EXCEPT !.state = "llm", !.iterations = n, !.failed = failed] \in Local
      BY <1>0, <3>2 DEF Local
    <3> QED BY <1>0, <3>1, <3>3, LocalTyped
  <2> QED BY <1>3, <2>1, <2>2, <2>3 DEF ModelAnswers, Costs, TypeInv
<1>4. CASE ThreadFails(t)
  <2>1. /\ pc' \in [AllThreads -> Places] /\ pc'[Main] \notin {"done", "sent"}
        /\ stop' \in BOOLEAN
    BY <1>4, DoneTyped DEF ThreadFails
  <2>2. local' \in [AllThreads -> Local]
    <3> DEFINE n == Smaller(local[t].iterations + 1, IterationLimit)
    <3>1. local' = [local EXCEPT ![t] = [local[t] EXCEPT !.iterations = n, !.failed = TRUE]]
      BY <1>4 DEF ThreadFails
    <3>2. n \in Nat
      BY <1>0, ThreadsAssumption DEF Local, Smaller
    <3> HIDE DEF n
    <3>3. [local[t] EXCEPT !.iterations = n, !.failed = TRUE] \in Local
      BY <1>0, <3>2 DEF Local
    <3> QED BY <1>0, <3>1, <3>3, LocalTyped
  <2> QED BY <1>4, <2>1, <2>2 DEF ThreadFails, TypeInv
<1>5. CASE AbortExits(t)
  BY <1>5, ExitTyped DEF AbortExits, TypeInv
<1>6. CASE RunTools(t)
  <2>1. OpenCalls(Context(t)) \subseteq Ids
    BY <1>0, OpenTyped
  <2>2. executed' \in SUBSET (AllThreads \X Ids)
    <3> DEFINE X == ToRun(t) \ Undecided(t)
    <3>1. executed' = executed \cup {<<t, x>> : x \in X}
      BY <1>6 DEF RunTools
    <3>2. X \subseteq Ids
      BY <2>1 DEF ToRun
    <3> HIDE DEF X
    <3>3. {<<t, x>> : x \in X} \subseteq AllThreads \X Ids
      BY <1>0, <3>2
    <3> QED BY <3>1, <3>3 DEF TypeInv
  <2>3. CASE Undecided(t) # {}
    <3>1. /\ pc' \in [AllThreads -> Places] /\ pc'[Main] \notin {"done", "sent"}
          /\ stop' \in BOOLEAN
      BY <1>6, <2>3, DoneTyped DEF RunTools
    <3>2. local' \in [AllThreads -> Local]
      <4>1. local' = [local EXCEPT ![t] = [local[t] EXCEPT !.failed = TRUE]]
        BY <1>6, <2>3 DEF RunTools
      <4>2. [local[t] EXCEPT !.failed = TRUE] \in Local
        BY <1>0 DEF Local
      <4> QED BY <1>0, <4>1, <4>2, LocalTyped
    <3> QED BY <1>6, <2>2, <3>1, <3>2 DEF RunTools, TypeInv
  <2>4. CASE Undecided(t) = {}
    <3>1. /\ pc' \in [AllThreads -> Places] /\ pc'[Main] \notin {"done", "sent"}
          /\ stop' = stop
      <4>1. pc' = [pc EXCEPT ![t] = "ran"] /\ stop' = stop
        BY <1>6, <2>4 DEF RunTools
      <4>2. "ran" \in Places /\ "ran" \notin {"done", "sent"}
        BY DEF Places
      <4> QED BY <4>1, <4>2, PlaceTyped
    <3>2. local' \in [AllThreads -> Local]
      <4>0. PICK create \in SUBSET OpenOfKind(Context(t), "thread"), auth \in BOOLEAN :
               local' = [local EXCEPT ![t].state = "tool", ![t].create = create,
                                      ![t].auth = auth]
        BY <1>6, <2>4 DEF RunTools
      <4>1. local' = [local EXCEPT ![t] = [local[t] EXCEPT !.state = "tool",
                                             !.create = create, !.auth = auth]]
        BY <4>0
      <4>2. create \in SUBSET Ids
        BY <2>1 DEF OpenOfKind
      <4>3. [local[t] EXCEPT !.state = "tool", !.create = create, !.auth = auth] \in Local
        BY <1>0, <4>2 DEF Local
      <4> QED BY <1>0, <4>1, <4>3, LocalTyped
    <3> QED BY <1>6, <2>2, <3>1, <3>2 DEF RunTools, TypeInv
  <2> QED BY <2>3, <2>4
<1>7. CASE AppendResults(t)
  <2>1. ThreadsOK(threads')
    BY <1>7, AppendStep DEF Rewrote
  <2>2. /\ pc' \in [AllThreads -> Places] /\ pc'[Main] \notin {"done", "sent"}
        /\ stop' \in BOOLEAN
    <3>1. \/ Exit(t) /\ stop' = TRUE
          \/ \E p \in {"loop", "create"} : pc' = [pc EXCEPT ![t] = p] /\ stop' = stop
      BY <1>7 DEF AppendResults
    <3>2. \A p \in {"loop", "create"} : p \in Places /\ p \notin {"done", "sent"}
      BY DEF Places
    <3> QED BY <3>1, <3>2, ExitTyped, PlaceTyped DEF TypeInv
  <2> QED BY <1>7, <2>1, <2>2 DEF AppendResults, TypeInv
<1>8. ASSUME NEW x \in local[t].create, NEW child \in Children, CreateThread(t, x, child)
      PROVE  TypeInv'
  <2>1. ThreadsOK(threads') /\ child \in AllThreads
    BY <1>8, CreateStep
  <2>2. pc' \in [AllThreads -> Places] /\ pc'[Main] \notin {"done", "sent"}
    <3>1. \E p \in {"off", "create"} : pc' = [pc EXCEPT ![t] = p]
      BY <1>8 DEF CreateThread
    <3>2. \A p \in {"off", "create"} : p \in Places /\ p \notin {"done", "sent"}
      BY DEF Places
    <3> QED BY <3>1, <3>2, PlaceTyped
  <2>3. local' \in [AllThreads -> Local]
    <3> DEFINE r == [local[t] EXCEPT !.create = local[t].create \ {x}]
               one == [local EXCEPT ![t] = r]
    <3>1. r \in Local
      BY <1>0 DEF Local
    <3>2. local' = [one EXCEPT ![child] = FreshLocal]
      BY <1>8 DEF CreateThread
    <3> HIDE DEF r
    <3>3. one \in [AllThreads -> Local]
      BY <1>0, <3>1
    <3> HIDE DEF one
    <3> QED BY <2>1, <3>2, <3>3, FreshTyped
  <2> QED BY <1>8, <2>1, <2>2, <2>3 DEF CreateThread, TypeInv
<1>9. CASE AskUser(t)
  <2>1. OpenCalls(Context(t)) \subseteq Ids
    BY <1>0, OpenTyped
  <2>2. asked' \in SUBSET (AllThreads \X Ids)
    BY <1>0, <1>9, <2>1 DEF AskUser, PendingApproval, PendingClient, OpenOfKind, TypeInv
  <2>3. local' \in [AllThreads -> Local]
    <3>1. local' = [local EXCEPT ![t] = [local[t] EXCEPT !.state = "input"]]
      BY <1>9 DEF AskUser
    <3>2. [local[t] EXCEPT !.state = "input"] \in Local
      BY <1>0 DEF Local
    <3> QED BY <1>0, <3>1, <3>2, LocalTyped
  <2>4. pc' \in [AllThreads -> Places] /\ pc'[Main] \notin {"done", "sent"}
    BY <1>9, ExitTyped DEF AskUser
  <2> QED BY <1>9, <2>2, <2>3, <2>4 DEF AskUser, TypeInv
<1>10. CASE DeliverResult(t)
  <2>1. ThreadsOK(threads') /\ t # Main
    BY <1>10, DeliverStep DEF Rewrote
  <2>2. local' \in [AllThreads -> Local]
    <3>1. \/ local' = local
          \/ local' = [local EXCEPT ![Main] = [local[Main] EXCEPT !.preSendRan = TRUE]]
      BY <1>10 DEF DeliverResult
    <3>2. [local[Main] EXCEPT !.preSendRan = TRUE] \in Local
      BY <1>0 DEF Local
    <3> QED BY <1>0, <3>1, <3>2, LocalTyped
  <2>3. pc' \in [AllThreads -> Places] /\ pc'[Main] \notin {"done", "sent"}
    <3>1. pc' = [pc EXCEPT ![t] = "sent"] /\ "sent" \in Places
      BY <1>10 DEF DeliverResult, Places
    <3> QED BY <2>1, <3>1, PlaceTyped
  <2> QED BY <1>10, <2>1, <2>2, <2>3 DEF DeliverResult, TypeInv
<1>11. CASE RemoveThread(t)
  <2>1. ThreadsOK(threads')
    BY <1>11, RemoveStep
  <2>2. local' \in [AllThreads -> Local]
    BY <1>0, <1>11, FreshTyped, LocalTyped DEF RemoveThread
  <2>3. pc' \in [AllThreads -> Places] /\ pc'[Main] \notin {"done", "sent"}
    BY <1>11, ExitTyped DEF RemoveThread
  <2> QED BY <1>11, <2>1, <2>2, <2>3 DEF RemoveThread, TypeInv
<1> QED BY <1>1, <1>2, <1>3, <1>4, <1>5, <1>6, <1>7, <1>8, <1>9, <1>10, <1>11
        DEF ThreadStep

LEMMA NextTyped == TypeInv /\ [Next]_vars => TypeInv'
<1> SUFFICES ASSUME TypeInv, [Next]_vars PROVE TypeInv'
  OBVIOUS
<1>1. CASE StartBatch
  <2>1. PICK batch : pc' = [t \in AllThreads |-> IF t \in batch THEN "start" ELSE "off"]
    BY <1>1 DEF StartBatch
  <2>2. pc' \in [AllThreads -> Places] /\ pc'[Main] \notin {"done", "sent"}
    BY <2>1 DEF Places, AllThreads
  <2> QED BY <1>1, <2>2 DEF StartBatch, TypeInv
<1>2. CASE FinishTurn
  <2> DEFINE o == IF local[Main].failed THEN "error" ELSE "done"
  <2>1. o \in {"idle", "done", "error"} /\ EndTurn(o) /\ asked' = asked /\ work' = work
    BY <1>2 DEF FinishTurn
  <2>2. work \in Nat
    BY DEF TypeInv
  <2> HIDE DEF o
  <2> QED BY <2>1, <2>2, EndTyped
<1>3. CASE \E t \in Live : ThreadStep(t)
  BY <1>3, StepTyped
<1>4. CASE CreateTurnUser
  BY <1>4, UserSnapshot, BeginTyped DEF CreateTurnUser
<1>5. ASSUME NEW D, NEW R, CreateTurnAnswer(D, R) PROVE TypeInv'
  BY <1>5, AnswerSnapshot, BeginTyped DEF CreateTurnAnswer
<1>6. CASE EditSpec
  BY <1>6 DEF EditSpec, TypeInv
<1>7. CASE AbortTurn
  BY <1>7 DEF AbortTurn, Costs, TypeInv
<1>8. CASE CutTurn
  <2>1. EndTurn("idle") /\ asked' = {} /\ work' \in Nat
    BY <1>8 DEF CutTurn, Costs, TypeInv
  <2> QED BY <2>1, EndTyped
<1>9. CASE UNCHANGED vars
  BY <1>9 DEF vars, TypeInv
<1> QED BY <1>1, <1>2, <1>3, <1>4, <1>5, <1>6, <1>7, <1>8, <1>9
        DEF Next, Execute, CreateTurn

(* Every context that a turn leaves, or works on, is a sequence of         *)
(* messages in order, and each thread object has the fields its generator  *)
(* reads: getOpenToolCallIds and deriveState always find what they index.  *)
THEOREM ThreadsTyped == Spec => []TypeInv
<1>1. Init => TypeInv
  BY InitTyped
<1>2. TypeInv /\ [Next]_vars => TypeInv'
  BY NextTyped
<1> QED BY <1>1, <1>2, PTL DEF Spec

-----------------------------------------------------------------------------
(* What a context in order gives. *)

LEMMA AnsweredOnce ==
  ASSUME NEW c \in Seq(Msg), NEW n \in Nat, ContextOK(c, n)
  PROVE
    /\ \A i \in 1..Len(c) : c[i].role = "assistant" =>
         \A j \in i+1..Len(c) : c[j].role \in {"user", "assistant"} =>
           DOMAIN c[i].calls \subseteq
             UNION {c[k].ids : k \in {k \in i+1..j-1 : c[k].role = "tool"}}
    /\ \A j \in 1..Len(c) : c[j].role = "tool" =>
         LET i == LastAssistant(SubSeq(c, 1, j))
         IN  /\ i > 0 /\ c[j].ids \subseteq DOMAIN c[i].calls
             /\ \A k \in i+1..j-1 : c[k].role = "tool" => c[k].ids \cap c[j].ids = {}
<1>1. ASSUME NEW i \in 1..Len(c), c[i].role = "assistant", NEW j \in i+1..Len(c),
             c[j].role \in {"user", "assistant"}, NEW x \in DOMAIN c[i].calls
      PROVE  x \in UNION {c[k].ids : k \in {k \in i+1..j-1 : c[k].role = "tool"}}
  <2>1. j \in 1..Len(c) /\ i < j
    OBVIOUS
  <2>2. Answered(c, i, j, x)
    BY <1>1, <2>1 DEF ContextOK
  <2> QED BY <2>2 DEF Answered
<1>2. ASSUME NEW j \in 1..Len(c), c[j].role = "tool"
      PROVE  LET i == LastAssistant(SubSeq(c, 1, j))
             IN  /\ i > 0 /\ c[j].ids \subseteq DOMAIN c[i].calls
                 /\ \A k \in i+1..j-1 : c[k].role = "tool" => c[k].ids \cap c[j].ids = {}
  <2> DEFINE s == SubSeq(c, 1, j)
  <2>1. s \in Seq(Msg) /\ Len(s) = j /\ \A k \in 1..j : s[k] = c[k]
    OBVIOUS
  <2>2. PICK i \in 1..j-1 : Answers(c, i, j)
    BY <1>2 DEF ContextOK
  <2> HIDE DEF s
  <2>3. i \in 1..Len(s) /\ s[i].role = "assistant"
    BY <2>1, <2>2 DEF Answers
  <2>4. \A k \in i+1..Len(s) : s[k].role # "assistant"
    <3> TAKE k \in i+1..Len(s)
    <3>1. k \in 1..j /\ s[k] = c[k] /\ (k = j \/ k \in i+1..j-1)
      BY <2>1, <2>2
    <3> QED BY <1>2, <2>2, <3>1 DEF Answers
  <2>5. LastAssistant(s) = i
    BY <2>1, <2>3, <2>4, LastAssistantIs
  <2>6. i > 0
    OBVIOUS
  <2> QED BY <2>2, <2>5, <2>6 DEF s, Answers
<1> QED BY <1>1, <1>2

(* Every tool call is answered once, by messages that follow its assistant *)
(* message directly, whatever approvals, sub-agents, new user messages and *)
(* cut turns did in between: what getOpenToolCallIds assumes of the        *)
(* assistant messages it does not look at.                                 *)
THEOREM CallsAnswered == Spec => []CallsAnsweredOnce
<1>1. TypeInv => CallsAnsweredOnce
  <2> SUFFICES ASSUME TypeInv PROVE CallsAnsweredOnce
    OBVIOUS
  <2>1. \A t \in Live : /\ Context(t) \in Seq(Msg) /\ threads[t].made \in Nat
                        /\ ContextOK(Context(t), threads[t].made)
    BY LiveIs
  <2> QED BY <2>1, AnsweredOnce DEF CallsAnsweredOnce
<1> QED BY <1>1, ThreadsTyped, PTL
-----------------------------------------------------------------------------
(* The passes over the leaves. *)

(* The main thread runs alone: a turn starts it when it has no sub-agent,  *)
(* and what it creates waits for the next pass.  A generator that is past  *)
(* its start belongs to an unfinished thread, and between turns nothing    *)
(* is left of a turn.                                                      *)
BatchInv ==
  /\ \A t \in AllThreads : pc[t] # "off" => t \in Live \ todo
  /\ todo \subseteq Subs
  /\ pc[Main] # "off" =>
       /\ \A t \in Children : pc[t] = "off"
       /\ todo = {}
       /\ \A t \in Subs : threads[t].completion = "none"
  /\ pc[Main] \notin {"off", "create"} => Subs = {}
  /\ \A t \in Live : pc[t] \in {"loop", "ran", "create"} => threads[t].completion = "none"
  /\ turn # "running" =>
       /\ \A t \in AllThreads : pc[t] = "off" /\ local[t] = FreshLocal
       /\ todo = {} /\ ~stop

LEMMA InitBatch == Init => BatchInv
<1> SUFFICES ASSUME Init PROVE BatchInv
  OBVIOUS
<1>1. Main \in AllThreads /\ DOMAIN threads = {Main}
  BY DEF Init, AllThreads
<1> QED BY <1>1 DEF Init, BatchInv, Subs, Live

LEMMA Moves ==
  ASSUME TypeInv, BatchInv, turn = "running", turn' = "running",
         NEW t \in Live, pc[t] \notin {"off", "create"},
         NEW p, pc' = [pc EXCEPT ![t] = p], todo' = todo,
         DOMAIN threads' = Live,
         \A u \in Live \ {t} : threads'[u].completion = threads[u].completion,
         p \in {"loop", "ran", "create"} => threads'[t].completion = "none"
  PROVE  BatchInv'
<1>0. Main \in Live /\ Live \subseteq AllThreads /\ pc \in [AllThreads -> Places]
      /\ Main \notin Children /\ AllThreads = {Main} \cup Children
  BY LiveIs, ThreadsAssumption DEF TypeInv, AllThreads
<1>1. pc'[t] = p /\ \A u \in AllThreads : u # t => pc'[u] = pc[u]
  BY <1>0
<1>2. Live' = Live /\ Subs' = Subs
  BY DEF Live, Subs
<1>3. t \in AllThreads /\ t \notin todo /\ (t # Main => pc[Main] = "off")
      /\ (t = Main => Subs = {} /\ todo = {} /\ \A u \in Children : pc[u] = "off")
  BY <1>0 DEF BatchInv
<1>4. \A u \in AllThreads : pc'[u] # "off" => u \in Live \ todo
  BY <1>0, <1>1, <1>3 DEF BatchInv
<1>5. pc'[Main] # "off" =>
       /\ \A u \in Children : pc'[u] = "off"
       /\ todo = {} /\ Subs = {}
  <2>1. CASE t = Main
    BY <1>0, <1>1, <1>3, <2>1
  <2>2. CASE t # Main
    BY <1>0, <1>1, <1>3, <2>2
  <2> QED BY <2>1, <2>2
<1>6. \A u \in Live : pc'[u] \in {"loop", "ran", "create"} => threads'[u].completion = "none"
  BY <1>0, <1>1 DEF BatchInv
<1> QED BY <1>2, <1>4, <1>5, <1>6 DEF BatchInv

LEMMA StepBatch ==
  ASSUME TypeInv, BatchInv, NEW t \in Live, ThreadStep(t)
  PROVE  BatchInv'
<1>0. /\ Main \in Live /\ Live \subseteq AllThreads /\ t \in AllThreads
      /\ pc \in [AllThreads -> Places]
      /\ Main \notin Children /\ AllThreads = {Main} \cup Children
      /\ IsChild(t) <=> t # Main
  BY LiveIs, ThreadsAssumption DEF TypeInv, AllThreads
<1>1. CASE Start(t)
  <2>1. /\ Rewrote(threads, threads', t)
        /\ turn = "running" /\ pc[t] = "start" /\ turn' = turn /\ todo' = todo
    BY <1>1, StartStep DEF Start, At
  <2>2. \E p : pc' = [pc EXCEPT ![t] = p]
               /\ (p \in {"loop", "ran", "create"} => threads[t].completion = "none")
    BY <1>1 DEF Start, Done, Exit
  <2> QED BY <2>1, <2>2, Moves DEF Rewrote, Live
<1>2. CASE Compact(t)
  <2>1. /\ Rewrote(threads, threads', t)
        /\ turn = "running" /\ pc[t] = "loop" /\ turn' = turn /\ todo' = todo /\ pc' = pc
    BY <1>2, CompactStep DEF Compact, Enters, At
  <2>2. pc' = [pc EXCEPT ![t] = "loop"]
    BY <1>0, <2>1
  <2>3. threads'[t].completion = "none"
    BY <2>1 DEF Rewrote, BatchInv
  <2> QED BY <2>1, <2>2, <2>3, Moves DEF Rewrote, Live
<1>3. ASSUME NEW shape \in Shapes(t), NEW failed \in BOOLEAN, ModelAnswers(t, shape, failed)
      PROVE  BatchInv'
  <2>1. /\ DOMAIN threads' = Live /\ \A u \in Live \ {t} : threads'[u] = threads[u]
        /\ turn = "running" /\ pc[t] = "loop" /\ turn' = turn /\ todo' = todo
    BY <1>3, ModelStep DEF ModelAnswers, Enters, At
  <2>2. CASE failed \/ Len(shape) = 0
    <3>1. \E p \in {"done", "off"} : pc' = [pc EXCEPT ![t] = p]
      BY <1>3, <2>2 DEF ModelAnswers, Done
    <3> QED BY <2>1, <3>1, Moves
  <2>3. CASE ~(failed \/ Len(shape) = 0)
    <3>1. pc' = [pc EXCEPT ![t] = "loop"]
      BY <1>0, <1>3, <2>1, <2>3 DEF ModelAnswers
    <3>2. threads'[t].completion = "none"
      BY <1>3, <2>3, ModelStep
    <3> QED BY <2>1, <3>1, <3>2, Moves
  <2> QED BY <2>2, <2>3
<1>4. CASE ThreadFails(t) \/ AbortExits(t) \/ AskUser(t)
  <2>1. /\ turn = "running" /\ pc[t] = "loop" /\ turn' = turn /\ todo' = todo
        /\ threads' = threads
    BY <1>4 DEF ThreadFails, AbortExits, AskUser, Enters, At
  <2>2. \E p \in {"done", "off"} : pc' = [pc EXCEPT ![t] = p]
    BY <1>4 DEF ThreadFails, AbortExits, AskUser, Done, Exit
  <2> QED BY <2>1, <2>2, Moves DEF Live
<1>5. CASE RunTools(t)
  <2>1. /\ turn = "running" /\ pc[t] = "loop" /\ turn' = turn /\ todo' = todo
        /\ threads' = threads /\ threads[t].completion = "none"
    BY <1>5 DEF RunTools, Enters, At, BatchInv
  <2>2. \E p \in {"done", "off", "ran"} : pc' = [pc EXCEPT ![t] = p]
    BY <1>5 DEF RunTools, Done
  <2> QED BY <2>1, <2>2, Moves DEF Live
<1>6. CASE AppendResults(t)
  <2>1. /\ Rewrote(threads, threads', t) /\ threads[t].completion = "none"
        /\ turn = "running" /\ pc[t] = "ran" /\ turn' = turn /\ todo' = todo
    BY <1>6, AppendStep DEF AppendResults, At, BatchInv
  <2>2. \E p : pc' = [pc EXCEPT ![t] = p]
    BY <1>6 DEF AppendResults, Exit
  <2> QED BY <2>1, <2>2, Moves DEF Rewrote, Live
<1>7. ASSUME NEW x \in local[t].create, NEW child \in Children, CreateThread(t, x, child)
      PROVE  BatchInv'
  <2>1. /\ DOMAIN threads' = Live \cup {child} /\ child \notin Live /\ child # Main
        /\ child \in AllThreads
        /\ \A u \in Live : threads'[u] = threads[u] /\ u # child
        /\ threads'[child].completion = "none"
        /\ turn = "running" /\ turn' = turn /\ todo' = todo /\ pc[t] = "create"
    BY <1>7, CreateStep DEF CreateThread, At, NewThread
  <2>2. PICK p \in {"off", "create"} : pc' = [pc EXCEPT ![t] = p]
    BY <1>7 DEF CreateThread
  <2>3. pc'[t] = p /\ (\A u \in AllThreads : u # t => pc'[u] = pc[u])
        /\ pc[child] = "off" /\ pc'[child] = "off"
    BY <1>0, <2>1, <2>2 DEF BatchInv
  <2>4. Live' = Live \cup {child} /\ Subs' = Subs \cup {child}
    BY <2>1 DEF Live, Subs
  <2>5. \A u \in AllThreads : pc'[u] # "off" => u \in Live' \ todo'
    BY <1>0, <2>1, <2>2, <2>3, <2>4 DEF BatchInv
  <2>6. todo' \subseteq Subs'
    BY <2>1, <2>4 DEF BatchInv
  <2>7. pc'[Main] # "off" => /\ \A u \in Children : pc'[u] = "off"
                             /\ todo' = {}
                             /\ \A u \in Subs' : threads'[u].completion = "none"
    <3>1. CASE t = Main
      <4>1. /\ \A u \in Children : pc[u] = "off"
            /\ todo = {} /\ \A u \in Subs : threads[u].completion = "none"
        BY <2>1, <3>1 DEF BatchInv
      <4>2. \A u \in Children : pc'[u] = "off"
        BY <1>0, <2>3, <3>1, <4>1
      <4>3. \A u \in Subs' : threads'[u].completion = "none"
        BY <2>1, <2>4, <4>1 DEF Subs
      <4> QED BY <2>1, <4>1, <4>2, <4>3
    <3>2. CASE t # Main
      <4>1. pc[Main] = "off"
        BY <1>0, <2>1, <3>2 DEF BatchInv
      <4> QED BY <1>0, <2>3, <3>2, <4>1
    <3> QED BY <3>1, <3>2
  <2>8. pc'[Main] \in {"off", "create"}
    BY <1>0, <2>1, <2>2, <2>3 DEF BatchInv
  <2>9. \A u \in Live' : pc'[u] \in {"loop", "ran", "create"} => threads'[u].completion = "none"
    BY <1>0, <2>1, <2>3, <2>4 DEF BatchInv
  <2> QED BY <2>1, <2>5, <2>6, <2>7, <2>8, <2>9 DEF BatchInv
<1>8. CASE DeliverResult(t)
  <2>1. /\ t # Main /\ Rewrote(threads, threads', Main)
        /\ turn = "running" /\ pc[t] = "done" /\ turn' = turn /\ todo' = todo
        /\ pc' = [pc EXCEPT ![t] = "sent"]
    BY <1>8, DeliverStep DEF DeliverResult, At
  <2>2. DOMAIN threads' = Live /\ \A u \in Live : threads'[u].completion = threads[u].completion
    BY <2>1 DEF Rewrote, Live
  <2> QED BY <2>1, <2>2, Moves
<1>9. CASE RemoveThread(t)
  <2>1. /\ t # Main /\ DOMAIN threads' = Live \ {t}
        /\ \A u \in Live \ {t} : threads'[u] = threads[u]
        /\ turn = "running" /\ pc[t] = "sent" /\ turn' = turn /\ todo' = todo
        /\ pc' = [pc EXCEPT ![t] = "off"]
    BY <1>9, RemoveStep DEF RemoveThread, Exit
  <2>2. /\ pc'[t] = "off" /\ (\A u \in AllThreads : u # t => pc'[u] = pc[u])
        /\ pc[Main] = "off" /\ t \notin todo
    BY <1>0, <2>1 DEF BatchInv
  <2>3. Live' = Live \ {t} /\ Subs' = Subs \ {t}
    BY <2>1 DEF Live, Subs
  <2>4. todo' \subseteq Subs'
    BY <2>1, <2>2, <2>3 DEF BatchInv
  <2>5. \A u \in AllThreads : pc'[u] # "off" => u \in Live' \ todo'
    BY <1>0, <2>1, <2>2, <2>3 DEF BatchInv
  <2>6. pc'[Main] = "off"
    BY <1>0, <2>1, <2>2
  <2>7. \A u \in Live' : pc'[u] \in {"loop", "ran", "create"} => threads'[u].completion = "none"
    BY <1>0, <2>1, <2>2, <2>3 DEF BatchInv
  <2> QED BY <2>1, <2>4, <2>5, <2>6, <2>7 DEF BatchInv
<1> QED BY <1>1, <1>2, <1>3, <1>4, <1>5, <1>6, <1>7, <1>8, <1>9 DEF ThreadStep

LEMMA NextBatch == TypeInv /\ BatchInv /\ [Next]_vars => BatchInv'
<1> SUFFICES ASSUME TypeInv, BatchInv, [Next]_vars PROVE BatchInv'
  OBVIOUS
<1>0. Main \in Live /\ Live \subseteq AllThreads /\ pc \in [AllThreads -> Places]
      /\ Main \notin Children /\ AllThreads = {Main} \cup Children
  BY LiveIs, ThreadsAssumption DEF TypeInv, AllThreads
<1>1. CASE StartBatch
  <2> DEFINE pool == IF todo = {} THEN Leaves ELSE todo
  <2>1. /\ turn' = "running" /\ threads' = threads
        /\ \A t \in AllThreads : pc[t] = "off"
    BY <1>1 DEF StartBatch, Quiet
  <2>2. PICK batch \in SUBSET pool :
          /\ pc' = [t \in AllThreads |-> IF t \in batch THEN "start" ELSE "off"]
          /\ todo' = pool \ batch
          /\ Cardinality(batch) = Smaller(MaxParallel, Cardinality(pool))
    BY <1>1 DEF StartBatch
  <2>3. \/ pool = {Main} /\ Subs = {}
        \/ pool \subseteq Subs
    BY DEF Leaves, BatchInv
  <2>4. Live' = Live /\ Subs' = Subs /\ Main \notin Subs /\ Subs \subseteq Live
    BY <2>1 DEF Live, Subs
  <2>5. pool \subseteq Live
    BY <1>0, <2>3, <2>4
  <2> HIDE DEF pool
  <2>6. \A t \in AllThreads : pc'[t] = IF t \in batch THEN "start" ELSE "off"
    BY <2>2
  <2>7. \A t \in AllThreads : pc'[t] # "off" => t \in Live \ todo'
    BY <2>2, <2>5, <2>6
  <2>8. CASE pool \subseteq Subs
    <3>1. pc'[Main] = "off" /\ todo' \subseteq Subs
      BY <1>0, <2>2, <2>4, <2>6, <2>8
    <3>2. \A t \in Live : pc'[t] \notin {"loop", "ran", "create"}
      BY <1>0, <2>6
    <3> QED BY <2>1, <2>4, <2>7, <3>1, <3>2 DEF BatchInv
  <2>9. CASE pool = {Main} /\ Subs = {}
    <3>1. batch = {Main} \/ batch = {}
      BY <2>2, <2>9
    <3>2. CASE batch = {Main}
      <4>1. todo' = {} /\ \A t \in Children : pc'[t] = "off"
        BY <1>0, <2>2, <2>6, <2>9, <3>2
      <4>2. \A t \in Live : pc'[t] \notin {"loop", "ran", "create"}
        BY <1>0, <2>6
      <4> QED BY <2>1, <2>4, <2>7, <2>9, <4>1, <4>2 DEF BatchInv
    <3>3. CASE batch = {}
      <4>1. Cardinality({}) = Smaller(MaxParallel, Cardinality({Main}))
        BY <2>2, <2>9, <3>3
      <4>2. Cardinality({}) = 0 /\ Cardinality({Main}) = 1
        BY FS_EmptySet, FS_Singleton
      <4>3. MaxParallel \in Nat \ {0}
        BY ThreadsAssumption
      <4> QED BY <4>1, <4>2, <4>3 DEF Smaller
    <3> QED BY <3>1, <3>2, <3>3
  <2> QED BY <2>3, <2>8, <2>9
<1>2. CASE FinishTurn \/ CutTurn
  <2>1. PICK o \in {"idle", "error", "done"} : EndTurn(o)
    BY <1>2 DEF FinishTurn, CutTurn
  <2>2. /\ \A t \in AllThreads : pc'[t] = "off" /\ local'[t] = FreshLocal
        /\ ~stop' /\ todo' = {} /\ threads' = threads /\ Live' = Live
    BY <2>1 DEF EndTurn, Live
  <2> QED BY <1>0, <2>2 DEF BatchInv
<1>3. CASE \E t \in Live : ThreadStep(t)
  BY <1>3, StepBatch
<1>4. ASSUME NEW sent, BeginTurn(sent), DOMAIN threads' = Live, turn # "running"
      PROVE  BatchInv'
  <2>1. /\ pc' = pc /\ todo' = todo /\ turn' = "running" /\ Live' = Live /\ Subs' = Subs
        /\ \A t \in AllThreads : pc[t] = "off"
    BY <1>4 DEF BeginTurn, BatchInv, Live, Subs
  <2> QED BY <1>0, <2>1 DEF BatchInv
<1>5. CASE CreateTurnUser
  BY <1>4, <1>5, UserSnapshot DEF CreateTurnUser
<1>6. ASSUME NEW D, NEW R, CreateTurnAnswer(D, R) PROVE BatchInv'
  BY <1>4, <1>6, AnswerSnapshot DEF CreateTurnAnswer
<1>7. CASE EditSpec \/ AbortTurn \/ UNCHANGED vars
  <2>1. /\ turn' = turn /\ threads' = threads /\ pc' = pc /\ todo' = todo /\ local' = local
        /\ (turn # "running" => stop' = stop) /\ Live' = Live /\ Subs' = Subs
    BY <1>7 DEF EditSpec, AbortTurn, vars, Live, Subs
  <2> QED BY <2>1 DEF BatchInv
<1> QED BY <1>1, <1>2, <1>3, <1>5, <1>6, <1>7 DEF Next, Execute, CreateTurn
-----------------------------------------------------------------------------
(* What has run. *)

(* No call that the model may run unasked has run already, in the last     *)
(* answer c holds for thread t.                                            *)
NotRunIn(c, E, t) ==
  OpenCalls(c) # {} /\ Pure(c) =>
    \A x \in OpenCalls(c) \ OpenOfKind(c, "thread") : <<t, x>> \notin E

LEMMA NotRunFewer ==
  ASSUME NEW c \in Seq(Msg), NEW d \in Seq(Msg), NEW t, NEW E, NEW F,
         SameAnswer(c, d), OpenCalls(d) \subseteq OpenCalls(c), NotRunIn(c, E, t),
         \A x : <<t, x>> \in F => <<t, x>> \in E
  PROVE  NotRunIn(d, F, t)
<1> SUFFICES ASSUME OpenCalls(d) # {}, Pure(d),
                    NEW x \in OpenCalls(d) \ OpenOfKind(d, "thread")
             PROVE  <<t, x>> \notin F
  BY DEF NotRunIn
<1> DEFINE l == LastAssistant(c)
<1>1. l # 0 /\ LastAssistant(d) = l /\ d[l] = c[l]
  BY OpenCallsIs DEF SameAnswer
<1>2. Pure(c) /\ x \in OpenCalls(c) \ OpenOfKind(c, "thread")
  BY <1>1 DEF Pure, OpenOfKind
<1> QED BY <1>2 DEF NotRunIn

LEMMA NotRunClosed ==
  ASSUME NEW c, NEW t, NEW E, OpenCalls(c) = {}
  PROVE  NotRunIn(c, E, t)
BY DEF NotRunIn

(* preSend closes them, so that a call cannot run again after a restart.   *)
LEMMA NotRunPreSend ==
  ASSUME NEW c \in Seq(Msg), NEW n \in Nat, ContextOK(c, n), NEW t, NEW E
  PROVE  NotRunIn(PreSend(c), E, t)
<1> DEFINE d == PreSend(c)
           l == LastAssistant(c)
<1>1. /\ d \in Seq(Msg) /\ SameAnswer(c, d)
      /\ Pure(c) => \A x \in OpenCalls(d) : c[l].calls[x] = "thread"
  BY PreSendIs
<1> HIDE DEF d
<1> SUFFICES ASSUME OpenCalls(d) # {}, Pure(d),
                    NEW x \in OpenCalls(d) \ OpenOfKind(d, "thread")
             PROVE  FALSE
  BY DEF NotRunIn, d
<1>2. l # 0 /\ LastAssistant(d) = l /\ d[l] = c[l]
  BY <1>1, OpenCallsIs DEF SameAnswer
<1>3. Pure(c)
  BY <1>2 DEF Pure
<1> QED BY <1>1, <1>2, <1>3 DEF OpenOfKind

LEMMA NotRunNew ==
  ASSUME NEW c, NEW t, NEW E, NEW n \in Nat, \A x \in OpenCalls(c) : x[1] = n + 1,
         \A x : <<t, x>> \in E => x[1] <= n
  PROVE  NotRunIn(c, E, t)
<1> SUFFICES ASSUME NEW x \in OpenCalls(c), <<t, x>> \in E PROVE FALSE
  BY DEF NotRunIn
<1>1. x[1] = n + 1 /\ x[1] <= n
  OBVIOUS
<1> QED BY <1>1

ThreadExec(t, c, E, p, ran) ==
  /\ p = "loop" => NotRunIn(c, E, t)
  /\ ran => p \notin {"loop", "ran", "create"} /\ NotRunIn(c, E, t)

(* Only calls that a live thread made have run; its generator reaches its  *)
(* loop with none of them open, and so does a context that send() has      *)
(* prepared for it.                                                        *)
ExecInv ==
  /\ \A t \in AllThreads, x \in Ids : <<t, x>> \in executed =>
       t \in Live /\ x[1] <= threads[t].made
  /\ \A t \in Live :
       ThreadExec(t, Context(t), executed, pc[t], local[t].preSendRan)

LEMMA InitExec == Init => ExecInv
<1> SUFFICES ASSUME Init PROVE ExecInv
  OBVIOUS
<1>1. Main \in AllThreads /\ DOMAIN threads = {Main}
  BY DEF Init, AllThreads
<1> QED BY <1>1, FreshTyped DEF Init, ExecInv, ThreadExec, Live

(* A step of one thread t. *)
LEMMA ExecBystanders ==
  ASSUME TypeInv, ExecInv, NEW t \in Live, DOMAIN threads' = Live,
         \A u \in Live \ {t} :
           /\ threads'[u] = threads[u] /\ pc'[u] = pc[u] /\ local'[u] = local[u]
           /\ \A x : <<u, x>> \in executed' => <<u, x>> \in executed,
         \A u \in AllThreads \ Live, x \in Ids : <<u, x>> \notin executed',
         \A x \in Ids : <<t, x>> \in executed' => x[1] <= threads'[t].made,
         ThreadExec(t, threads'[t].context, executed', pc'[t], local'[t].preSendRan)
  PROVE  ExecInv'
<1>1. Live' = Live
  BY DEF Live
<1>2. ASSUME NEW u \in Live \ {t}
      PROVE  ThreadExec(u, threads'[u].context, executed', pc'[u], local'[u].preSendRan)
  <2>1. ThreadExec(u, Context(u), executed, pc[u], local[u].preSendRan)
    BY DEF ExecInv
  <2>2. Context(u) \in Seq(Msg) /\ SameAnswer(Context(u), Context(u))
    BY LiveIs DEF SameAnswer
  <2>3. NotRunIn(Context(u), executed, u) => NotRunIn(Context(u), executed', u)
    BY <2>2, NotRunFewer
  <2> QED BY <2>1, <2>3 DEF ThreadExec, Context
<1>3. \A u \in AllThreads, x \in Ids : <<u, x>> \in executed' =>
        u \in Live /\ x[1] <= threads'[u].made
  BY DEF ExecInv
<1> QED BY <1>1, <1>2, <1>3 DEF ExecInv, Context

LEMMA StepExec ==
  ASSUME TypeInv, BatchInv, ExecInv, NEW t \in Live, ThreadStep(t)
  PROVE  ExecInv'
<1> DEFINE c == Context(t)
           d == threads'[t].context
           n == threads[t].made
<1>0. /\ t \in AllThreads /\ Live \subseteq AllThreads /\ Live = DOMAIN threads
      /\ pc \in [AllThreads -> Places] /\ local \in [AllThreads -> Local]
      /\ c \in Seq(Msg) /\ n \in Nat /\ ContextOK(c, n)
      /\ ThreadExec(t, c, executed, pc[t], local[t].preSendRan)
      /\ SameAnswer(c, c)
  BY LiveIs DEF TypeInv, ExecInv, Live, SameAnswer
<1>01. /\ \A u \in AllThreads \ Live, x \in Ids : <<u, x>> \notin executed
       /\ \A x \in Ids : <<t, x>> \in executed => x[1] <= n
  BY <1>0 DEF ExecInv
<1> HIDE DEF c, d, n
<1>1. CASE Start(t)
  <2>1. /\ Rewrote(threads, threads', t) /\ executed' = executed
        /\ pc[t] = "start"
        /\ \A u \in Live \ {t} : pc'[u] = pc[u] /\ local'[u] = local[u]
    BY <1>0, <1>1, StartStep DEF Start, At, Done, Exit
  <2>2. ThreadExec(t, d, executed, pc'[t], local'[t].preSendRan)
    <3>1. CASE threads[t].completion # "none"
      <4>1. d = c /\ local' = local /\ pc'[t] \in {"done", "off"}
        BY <1>0, <1>1, <3>1, StartStep DEF Start, Done, c, d, Context
      <4> QED BY <1>0, <4>1 DEF ThreadExec
    <3>2. CASE threads[t].completion = "none"
      <4>1. d = (IF local[t].preSendRan THEN c ELSE PreSend(c))
        BY <1>1, <3>2, StartStep DEF c, d
      <4>2. ~local'[t].preSendRan
        BY <1>0, <1>1, <3>2 DEF Start, Local
      <4>3. local[t].preSendRan => NotRunIn(c, executed, t)
        BY <1>0 DEF ThreadExec
      <4>4. NotRunIn(PreSend(c), executed, t)
        BY <1>0, NotRunPreSend
      <4> QED BY <4>1, <4>2, <4>3, <4>4 DEF ThreadExec
    <3> QED BY <3>1, <3>2
  <2> QED BY <1>0, <1>01, <2>1, <2>2, ExecBystanders DEF Rewrote, d, n
<1>2. CASE Compact(t)
  <2>1. /\ Rewrote(threads, threads', t) /\ OpenCalls(d) = {}
        /\ executed' = executed /\ pc[t] = "loop" /\ pc' = pc /\ local' = local
    BY <1>2, CompactStep DEF Compact, Enters, At, d
  <2>2. NotRunIn(d, executed, t)
    BY <2>1, NotRunClosed
  <2>3. ThreadExec(t, d, executed, pc'[t], local'[t].preSendRan)
    BY <1>0, <2>1, <2>2 DEF ThreadExec
  <2> QED BY <1>0, <1>01, <2>1, <2>3, ExecBystanders DEF Rewrote, d, n
<1>3. ASSUME NEW shape \in Shapes(t), NEW failed \in BOOLEAN, ModelAnswers(t, shape, failed)
      PROVE  ExecInv'
  <2>1. /\ DOMAIN threads' = Live /\ \A u \in Live \ {t} : threads'[u] = threads[u]
        /\ threads'[t].made = n + 1
        /\ \A x \in OpenCalls(d) : x[1] = n + 1
    BY <1>3, ModelStep DEF d, n
  <2>2. /\ executed' = executed /\ pc[t] = "loop"
        /\ \A u \in Live \ {t} : pc'[u] = pc[u] /\ local'[u] = local[u]
        /\ local'[t].preSendRan = local[t].preSendRan
    BY <1>0, <1>3 DEF ModelAnswers, Enters, At, Done, Local
  <2>3. ~local[t].preSendRan
    BY <1>0, <2>2 DEF ThreadExec
  <2>4. \A x : <<t, x>> \in executed => x \in Ids
    BY DEF TypeInv
  <2>5. NotRunIn(d, executed, t)
    BY <1>0, <1>01, <2>1, <2>4, NotRunNew
  <2>6. ThreadExec(t, d, executed, pc'[t], local'[t].preSendRan)
    BY <2>2, <2>3, <2>5 DEF ThreadExec
  <2>7. \A x \in Ids : <<t, x>> \in executed' => x[1] <= n + 1
    <3>1. \A x \in Ids : x[1] \in Nat
      BY DEF Ids
    <3> QED BY <1>0, <1>01, <2>2, <3>1
  <2> QED BY <1>0, <1>01, <2>1, <2>2, <2>6, <2>7, ExecBystanders DEF d
<1>4. CASE ThreadFails(t) \/ AbortExits(t) \/ AskUser(t)
  <2>1. /\ threads' = threads /\ executed' = executed /\ pc[t] = "loop"
        /\ pc'[t] \in {"done", "off"}
        /\ \A u \in Live \ {t} : pc'[u] = pc[u] /\ local'[u] = local[u]
        /\ local'[t].preSendRan = local[t].preSendRan
    <3>1. CASE ThreadFails(t)
      BY <1>0, <3>1 DEF ThreadFails, At, Done, Local
    <3>2. CASE AbortExits(t)
      BY <1>0, <3>2 DEF AbortExits, Enters, At, Exit
    <3>3. CASE AskUser(t)
      BY <1>0, <3>3 DEF AskUser, Enters, At, Exit, Local
    <3> QED BY <1>4, <3>1, <3>2, <3>3
  <2>2. d = c /\ threads'[t].made = n
    BY <2>1 DEF c, d, n, Context
  <2>3. ThreadExec(t, d, executed, pc'[t], local'[t].preSendRan)
    BY <1>0, <2>1, <2>2 DEF ThreadExec
  <2> QED BY <1>0, <1>01, <2>1, <2>2, <2>3, ExecBystanders DEF d
<1>5. CASE RunTools(t)
  <2> DEFINE X == ToRun(t) \ Undecided(t)
  <2>1. /\ threads' = threads /\ pc[t] = "loop"
        /\ executed' = executed \cup {<<t, x>> : x \in X}
        /\ pc'[t] \in {"done", "off", "ran"}
        /\ \A u \in Live \ {t} : pc'[u] = pc[u]
    BY <1>0, <1>5 DEF RunTools, Enters, At, Done
  <2>2. /\ \A u \in Live \ {t} : local'[u] = local[u]
        /\ local'[t].preSendRan = local[t].preSendRan
    <3>1. CASE local' = [local EXCEPT ![t].failed = TRUE]
      BY <1>0, <3>1 DEF Local
    <3>2. ASSUME NEW create, NEW auth,
                 local' = [local EXCEPT ![t].state = "tool", ![t].create = create,
                                        ![t].auth = auth]
          PROVE  /\ \A u \in Live \ {t} : local'[u] = local[u]
                 /\ local'[t].preSendRan = local[t].preSendRan
      BY <1>0, <3>2 DEF Local
    <3> QED BY <1>5, <3>1, <3>2 DEF RunTools
  <2>3. X \subseteq OpenCalls(c)
    BY DEF ToRun, c
  <2> HIDE DEF X
  <2>4. d = c /\ threads'[t].made = n
    BY <2>1 DEF c, d, n, Context
  <2>5. ThreadExec(t, d, executed', pc'[t], local'[t].preSendRan)
    BY <1>0, <2>1, <2>2 DEF ThreadExec
  <2>6. \A x \in X : x[1] <= n
    <3> TAKE x \in X
    <3> DEFINE l == LastAssistant(c)
    <3>1. l \in 1..Len(c) /\ x \in DOMAIN c[l].calls
      BY <1>0, <2>3, OpenCallsIs, LastAssistantIs
    <3> QED BY <1>0, <3>1 DEF ContextOK
  <2>7. \A x \in Ids : <<t, x>> \in executed' => x[1] <= n
    BY <1>01, <2>1, <2>6
  <2>8. \A u \in AllThreads \ Live, x \in Ids : <<u, x>> \notin executed'
    BY <1>01, <2>1
  <2>9. \A u \in Live \ {t} : \A x : <<u, x>> \in executed' => <<u, x>> \in executed
    BY <2>1
  <2> QED BY <1>0, <2>1, <2>2, <2>4, <2>5, <2>7, <2>8, <2>9, ExecBystanders DEF d
<1>6. CASE AppendResults(t)
  <2>1. /\ Rewrote(threads, threads', t) /\ executed' = executed
        /\ pc[t] = "ran" /\ local' = local
        /\ local[t].create = {} => OpenCalls(d) = {}
    BY <1>6, AppendStep DEF AppendResults, At, d
  <2>2. /\ \A u \in Live \ {t} : pc'[u] = pc[u]
        /\ pc'[t] = "loop" => local[t].create = {}
    BY <1>0, <1>6 DEF AppendResults, Exit
  <2>3. OpenCalls(d) = {} => NotRunIn(d, executed, t)
    BY NotRunClosed
  <2>4. ~local[t].preSendRan
    BY <1>0, <2>1 DEF ThreadExec
  <2>5. ThreadExec(t, d, executed, pc'[t], local'[t].preSendRan)
    BY <2>1, <2>2, <2>3, <2>4 DEF ThreadExec
  <2> QED BY <1>0, <1>01, <2>1, <2>2, <2>5, ExecBystanders DEF Rewrote, d, n
<1>7. ASSUME NEW x \in local[t].create, NEW child \in Children, CreateThread(t, x, child)
      PROVE  ExecInv'
  <2>1. /\ DOMAIN threads' = Live \cup {child} /\ child \notin Live /\ child \in AllThreads
        /\ \A u \in Live : threads'[u] = threads[u] /\ u # child
        /\ executed' = executed /\ pc[t] = "create"
    BY <1>7, CreateStep DEF CreateThread, At
  <2>2. /\ pc'[t] \in {"off", "create"} /\ pc'[child] = pc[child]
        /\ \A u \in Live \ {t} : pc'[u] = pc[u]
    BY <1>0, <1>7, <2>1 DEF CreateThread
  <2>3. /\ local'[child] = FreshLocal /\ local'[t].preSendRan = local[t].preSendRan
        /\ \A u \in Live \ {t} : local'[u] = local[u]
    BY <1>0, <1>7, <2>1 DEF CreateThread, Local
  <2>4. Live' = Live \cup {child} /\ pc[child] = "off"
    BY <2>1 DEF Live, BatchInv
  <2>5. ThreadExec(child, threads'[child].context, executed, pc'[child],
                   local'[child].preSendRan)
    BY <2>2, <2>3, <2>4, FreshTyped DEF ThreadExec
  <2>6. ThreadExec(t, threads'[t].context, executed, pc'[t], local'[t].preSendRan)
    BY <1>0, <2>1, <2>2, <2>3 DEF ThreadExec
  <2>7. \A u \in Live \ {t} :
          ThreadExec(u, threads'[u].context, executed, pc'[u], local'[u].preSendRan)
    BY <2>1, <2>2, <2>3 DEF ExecInv, Context
  <2>8. \A u \in Live' :
          ThreadExec(u, threads'[u].context, executed, pc'[u], local'[u].preSendRan)
    BY <2>4, <2>5, <2>6, <2>7
  <2>9. \A u \in AllThreads, y \in Ids : <<u, y>> \in executed =>
          u \in Live' /\ y[1] <= threads'[u].made
    BY <2>1, <2>4 DEF ExecInv
  <2> QED BY <2>1, <2>8, <2>9 DEF ExecInv, Context
<1>8. CASE DeliverResult(t)
  <2>1. /\ t # Main /\ Main \in Live /\ Main \in AllThreads
        /\ Rewrote(threads, threads', Main) /\ executed' = executed
        /\ pc[t] = "done" /\ pc' = [pc EXCEPT ![t] = "sent"]
    BY <1>8, DeliverStep, LiveIs DEF DeliverResult, At
  <2>2. /\ pc[Main] = "off" /\ Live' = Live /\ DOMAIN threads' = Live
        /\ pc'[t] = "sent" /\ \A u \in Live \ {t} : pc'[u] = pc[u]
    BY <1>0, <2>1, ThreadsAssumption DEF BatchInv, AllThreads, Rewrote, Live
  <2>3. \A u \in Live \ {Main} : threads'[u] = threads[u] /\ local'[u] = local[u]
    BY <1>0, <1>8, <2>1 DEF Rewrote, Live, DeliverResult
  <2>4. NotRunIn(Context(Main), executed, Main) \/ ~local[Main].preSendRan
    BY <2>1 DEF ExecInv, ThreadExec
  <2>5. ThreadExec(Main, threads'[Main].context, executed, pc'[Main], local'[Main].preSendRan)
    <3>1. CASE threads' = threads /\ local' = local
      BY <2>1, <2>2, <2>4, <3>1 DEF ThreadExec, Context
    <3>2. CASE /\ SameAnswer(Context(Main), threads'[Main].context)
               /\ OpenCalls(threads'[Main].context) \subseteq OpenCalls(PreSend(Context(Main)))
      <4> DEFINE m == Context(Main)
                 p == PreSend(m)
                 e == threads'[Main].context
      <4>1. m \in Seq(Msg) /\ threads[Main].made \in Nat /\ ContextOK(m, threads[Main].made)
        BY LiveIs
      <4>2. e \in Seq(Msg)
        BY <2>1, <2>2, ThreadOf DEF Rewrote
      <4>3. p \in Seq(Msg) /\ SameAnswer(m, p) /\ NotRunIn(p, executed, Main)
        BY <4>1, PreSendIs, NotRunPreSend
      <4>4. SameAnswer(p, e)
        BY <3>2, <4>3 DEF SameAnswer
      <4>5. NotRunIn(e, executed, Main)
        BY <3>2, <4>2, <4>3, <4>4, NotRunFewer
      <4> QED BY <2>1, <2>2, <4>5 DEF ThreadExec
    <3> QED BY <1>8, <3>1, <3>2, DeliverStep
  <2>6. ThreadExec(t, threads'[t].context, executed, pc'[t], local'[t].preSendRan)
    BY <1>0, <2>1, <2>2, <2>3 DEF ThreadExec, c, Context
  <2>7. \A u \in Live \ {t, Main} :
          ThreadExec(u, threads'[u].context, executed, pc'[u], local'[u].preSendRan)
    BY <2>2, <2>3 DEF ExecInv, Context
  <2>8. \A u \in Live :
          ThreadExec(u, threads'[u].context, executed, pc'[u], local'[u].preSendRan)
    BY <2>5, <2>6, <2>7
  <2>9. \A u \in AllThreads, y \in Ids : <<u, y>> \in executed =>
          u \in Live /\ y[1] <= threads'[u].made
    BY <2>1, <2>3 DEF ExecInv, Rewrote
  <2> QED BY <2>1, <2>2, <2>8, <2>9 DEF ExecInv, Context
<1>9. CASE RemoveThread(t)
  <2>1. /\ Live' = Live \ {t} /\ \A u \in Live \ {t} : threads'[u] = threads[u]
        /\ executed' = {e \in executed : e[1] # t}
        /\ \A u \in Live \ {t} : pc'[u] = pc[u] /\ local'[u] = local[u]
    BY <1>0, <1>9, RemoveStep DEF RemoveThread, Exit, Live
  <2>2. ASSUME NEW u \in Live \ {t}
        PROVE  ThreadExec(u, threads'[u].context, executed', pc'[u], local'[u].preSendRan)
    <3>1. ThreadExec(u, Context(u), executed, pc[u], local[u].preSendRan)
      BY DEF ExecInv
    <3>2. Context(u) \in Seq(Msg) /\ SameAnswer(Context(u), Context(u))
      BY LiveIs DEF SameAnswer
    <3>3. \A x : <<u, x>> \in executed' => <<u, x>> \in executed
      BY <2>1
    <3>4. NotRunIn(Context(u), executed, u) => NotRunIn(Context(u), executed', u)
      BY <3>2, <3>3, NotRunFewer
    <3> QED BY <2>1, <3>1, <3>4 DEF ThreadExec, Context
  <2>3. \A u \in AllThreads, y \in Ids : <<u, y>> \in executed' =>
          u \in Live' /\ y[1] <= threads'[u].made
    <3> TAKE u \in AllThreads, y \in Ids
    <3> HAVE <<u, y>> \in executed'
    <3>1. <<u, y>> \in executed /\ u # t
      BY <2>1
    <3> QED BY <2>1, <3>1 DEF ExecInv
  <2> QED BY <2>1, <2>2, <2>3 DEF ExecInv, Context
<1> QED BY <1>1, <1>2, <1>3, <1>4, <1>5, <1>6, <1>7, <1>8, <1>9 DEF ThreadStep

LEMMA NextExec == TypeInv /\ BatchInv /\ ExecInv /\ [Next]_vars => ExecInv'
<1> SUFFICES ASSUME TypeInv, BatchInv, ExecInv, [Next]_vars PROVE ExecInv'
  OBVIOUS
<1>0. /\ Live \subseteq AllThreads /\ Live = DOMAIN threads
      /\ pc \in [AllThreads -> Places] /\ local \in [AllThreads -> Local]
  BY LiveIs DEF TypeInv, Live
<1>1. CASE StartBatch
  <2>1. threads' = threads /\ executed' = executed /\ local' = local
    BY <1>1 DEF StartBatch
  <2>2. \A t \in Live : pc'[t] \in {"start", "off"}
    BY <1>0, <1>1 DEF StartBatch
  <2> QED BY <2>1, <2>2 DEF ExecInv, ThreadExec, Live, Context
<1>2. CASE FinishTurn \/ CutTurn
  <2>1. PICK o : EndTurn(o)
    BY <1>2 DEF FinishTurn, CutTurn
  <2>2. threads' = threads /\ executed' = executed
        /\ \A t \in AllThreads : pc'[t] = "off" /\ local'[t] = FreshLocal
    BY <2>1 DEF EndTurn
  <2> QED BY <1>0, <2>2, FreshTyped DEF ExecInv, ThreadExec, Live, Context
<1>3. CASE \E t \in Live : ThreadStep(t)
  BY <1>3, StepExec
<1>4. ASSUME NEW sent, BeginTurn(sent), DOMAIN threads' = Live, turn # "running",
             \A t \in Live : threads'[t].made = threads[t].made,
             \A t \in Live : t \in sent => NotRunIn(threads'[t].context, executed, t)
      PROVE  ExecInv'
  <2>1. /\ pc' = pc /\ executed' = executed /\ Live' = Live
        /\ \A t \in AllThreads : pc[t] = "off"
    BY <1>4 DEF BeginTurn, BatchInv, Live
  <2>2. \A t \in AllThreads : local'[t].preSendRan = (t \in sent)
    BY <1>4 DEF BeginTurn, FreshLocal
  <2>3. \A t \in Live : ThreadExec(t, threads'[t].context, executed, pc'[t],
                                   local'[t].preSendRan)
    BY <1>0, <1>4, <2>1, <2>2 DEF ThreadExec
  <2> QED BY <1>4, <2>1, <2>3 DEF ExecInv, Context
<1>5. CASE CreateTurnUser
  <2>1. /\ DOMAIN threads' = Live /\ OpenCalls(threads'[Main].context) = {}
        /\ \A t \in Live : threads'[t].made = threads[t].made
    BY <1>5, UserSnapshot
  <2>2. \A t \in Live : t \in {Main} => NotRunIn(threads'[t].context, executed, t)
    BY <2>1, NotRunClosed
  <2> QED BY <1>4, <1>5, <2>1, <2>2 DEF CreateTurnUser
<1>6. ASSUME NEW D, NEW R, CreateTurnAnswer(D, R) PROVE ExecInv'
  <2> DEFINE sent == {t \in Live : ~Skips(threads[t].context, For(D, t), For(R, t))}
  <2>1. /\ DOMAIN threads' = Live
        /\ \A t \in Live : threads'[t].made = threads[t].made
    BY <1>6, AnswerSnapshot
  <2>2. ASSUME NEW t \in Live, ~Skips(threads[t].context, For(D, t), For(R, t))
        PROVE  NotRunIn(threads'[t].context, executed, t)
    <3> DEFINE c == threads[t].context
               e == threads'[t].context
               p == PreSend(c)
    <3>1. /\ ThreadsOK(threads') /\ AcceptsSend(threads[t], For(D, t), For(R, t))
          /\ e = AfterSend(c, For(D, t), For(R, t))
      BY <1>6, AnswerSnapshot
    <3>2. e \in Seq(Msg)
      BY <2>1, <3>1, ThreadOf
    <3>3. /\ ThreadOK(t, threads[t])
          /\ c \in Seq(Msg) /\ threads[t].made \in Nat /\ ContextOK(c, threads[t].made)
      BY <1>0, LiveIs DEF ThreadsOK, Context
    <3>4. SameAnswer(c, e) /\ OpenCalls(e) \subseteq OpenCalls(p)
      BY <2>2, <3>1, <3>3, AfterSendIs
    <3>5. p \in Seq(Msg) /\ SameAnswer(c, p) /\ NotRunIn(p, executed, t)
      BY <3>3, PreSendIs, NotRunPreSend
    <3> HIDE DEF c, e, p
    <3>6. SameAnswer(p, e)
      BY <3>4, <3>5 DEF SameAnswer
    <3>7. NotRunIn(e, executed, t)
      BY <3>2, <3>4, <3>5, <3>6, NotRunFewer
    <3> QED BY <3>7 DEF e
  <2>3. BeginTurn(sent) /\ turn # "running"
    BY <1>6 DEF CreateTurnAnswer
  <2>4. \A t \in Live : t \in sent => NotRunIn(threads'[t].context, executed, t)
    BY <2>2
  <2> HIDE DEF sent
  <2> QED BY <1>4, <2>1, <2>3, <2>4
<1>7. CASE EditSpec \/ AbortTurn \/ UNCHANGED vars
  BY <1>7 DEF EditSpec, AbortTurn, vars, ExecInv, Live, Context
<1> QED BY <1>1, <1>2, <1>3, <1>5, <1>6, <1>7 DEF Next, Execute, CreateTurn

(* A tool that needs nobody's word runs at most once per call: a turn cut  *)
(* after the tool ran and before its result was appended leaves the call   *)
(* open, and preSend closes it before the thread's loop is reached again.  *)
THEOREM ToolsRunOnce == Spec => []PlainToolRunsOnce
<1> DEFINE I == TypeInv /\ BatchInv /\ ExecInv
<1>1. Init => I
  BY InitTyped, InitBatch, InitExec
<1>2. I /\ [Next]_vars => I'
  BY NextTyped, NextBatch, NextExec
<1>3. I => PlainToolRunsOnce
  <2> SUFFICES ASSUME I, NEW t \in Live, pc[t] = "loop",
                      DeriveState(Context(t)) = "tool",
                      \A k \in {"approval", "client"},
                         x \in DOMAIN Context(t)[LastAssistant(Context(t))].calls :
                           Context(t)[LastAssistant(Context(t))].calls[x] # k,
                      NEW x \in ToRun(t)
               PROVE  <<t, x>> \notin executed
    BY DEF PlainToolRunsOnce
  <2>1. Pure(Context(t))
    BY DEF Pure
  <2>2. x \in OpenCalls(Context(t)) \ OpenOfKind(Context(t), "thread")
    BY DEF ToRun
  <2>3. NotRunIn(Context(t), executed, t)
    BY DEF ExecInv, ThreadExec
  <2> QED BY <2>1, <2>2, <2>3 DEF NotRunIn
<1> HIDE DEF I
<1> QED BY <1>1, <1>2, <1>3, PTL DEF Spec
-----------------------------------------------------------------------------
(* What the threads wait for. *)

WaitsIn(th) ==
  IF th.completion # "none" THEN {}
  ELSE PendingApproval(th.context) \cup PendingClient(th.context)

LEMMA WaitsInIs ==
  ASSUME NEW t, NEW th, ThreadOK(t, th)
  PROVE  /\ WaitsIn(th) \subseteq OpenCalls(th.context) /\ WaitsIn(th) \subseteq Ids
         /\ OpenCalls(th.context) = {} => WaitsIn(th) = {}
         /\ ~Awaiting(th.context) => WaitsIn(th) = {}
         /\ th.completion # "none" => WaitsIn(th) = {}
<1>1. WaitsIn(th) \subseteq OpenCalls(th.context)
  BY DEF WaitsIn, PendingApproval, PendingClient, OpenOfKind
<1>2. OpenCalls(th.context) \subseteq Ids
  BY OpenTyped DEF ThreadOK, Thread
<1> QED BY <1>1, <1>2 DEF WaitsIn, Awaiting

(* A thread that waits is in its loop, right after the model's answer, or  *)
(* has left it: the turn stops, and it has asked for all it waits for,     *)
(* unless it is the main thread and has failed.                            *)
ThreadWaits(t, th, A, p, l, stopped) ==
  /\ \A x \in Ids : <<t, x>> \in A => x \in WaitsIn(th) /\ stopped /\ p = "off"
  /\ WaitsIn(th) # {} =>
       \/ p = "loop" /\ l.state = "llm"
       \/ p = "off" /\ stopped /\ \A x \in WaitsIn(th) : <<t, x>> \in A
       \/ t = Main /\ p = "off" /\ stopped /\ l.failed

WaitInv ==
  /\ turn = "running" =>
       /\ \A t \in Live : ThreadWaits(t, threads[t], asked, pc[t], local[t], stop)
       /\ \A t \in AllThreads, x \in Ids : <<t, x>> \in asked =>
            t \in Live /\ (t = Main => Subs = {})
  /\ turn = "done" =>
       /\ \A t \in Live, x \in Ids : <<t, x>> \in asked <=> x \in WaitsIn(threads[t])
       /\ \A t \in AllThreads, x \in Ids : <<t, x>> \in asked => t \in Live

LEMMA InitWait == Init => WaitInv
BY DEF Init, WaitInv

(* A thread that neither waits nor has asked may stand anywhere. *)
LEMMA NothingToAsk ==
  ASSUME NEW t, NEW th, NEW A, NEW p, NEW l, NEW s,
         WaitsIn(th) = {}, \A x \in Ids : <<t, x>> \notin A
  PROVE  ThreadWaits(t, th, A, p, l, s)
BY DEF ThreadWaits

(* Where it neither waits nor has asked. *)
LEMMA NotWaiting ==
  ASSUME NEW t, NEW th, NEW A, NEW p, NEW l, NEW s, ThreadWaits(t, th, A, p, l, s)
  PROVE  /\ p # "off" => \A x \in Ids : <<t, x>> \notin A
         /\ p \notin {"off", "loop"} => WaitsIn(th) = {}
         /\ ~s => \A x \in Ids : <<t, x>> \notin A
         /\ p = "off" /\ ~s => WaitsIn(th) = {}
BY DEF ThreadWaits

(* A step of thread t, which asks at most for itself. *)
LEMMA WaitBystanders ==
  ASSUME TypeInv, WaitInv, turn = "running", turn' = "running",
         NEW t \in Live, DOMAIN threads' = Live, stop => stop',
         \A u \in Live \ {t} :
           threads'[u] = threads[u] /\ pc'[u] = pc[u] /\ local'[u] = local[u],
         \A u \in AllThreads, x \in Ids : <<u, x>> \in asked' =>
           <<u, x>> \in asked \/ (u = t /\ (t = Main => Subs = {})),
         asked \subseteq asked',
         ThreadWaits(t, threads'[t], asked', pc'[t], local'[t], stop')
  PROVE  WaitInv'
<1>0. Live \subseteq AllThreads /\ Live' = Live /\ Subs' = Subs
      /\ stop \in BOOLEAN
  BY LiveIs DEF Live, Subs, TypeInv
<1>1. ASSUME NEW u \in Live
      PROVE  ThreadWaits(u, threads'[u], asked', pc'[u], local'[u], stop')
  <2>1. CASE u = t
    BY <2>1
  <2>2. CASE u # t
    <3>1. ThreadWaits(u, threads[u], asked, pc[u], local[u], stop)
      BY DEF WaitInv
    <3>2. \A x \in Ids : <<u, x>> \in asked' <=> <<u, x>> \in asked
      BY <1>0, <2>2
    <3>3. WaitsIn(threads[u]) \subseteq Ids
      BY <1>0, WaitsInIs DEF TypeInv, ThreadsOK, Live
    <3> QED BY <2>2, <3>1, <3>2, <3>3 DEF ThreadWaits
  <2> QED BY <2>1, <2>2
<1>2. \A u \in AllThreads, x \in Ids : <<u, x>> \in asked' =>
        u \in Live /\ (u = Main => Subs = {})
  BY DEF WaitInv
<1> QED BY <1>0, <1>1, <1>2 DEF WaitInv

(* The same, for a step after which t does not wait. *)
LEMMA WaitQuiet ==
  ASSUME TypeInv, WaitInv, turn = "running", turn' = "running",
         NEW t \in Live, pc[t] # "off", DOMAIN threads' = Live, stop => stop',
         \A u \in Live \ {t} :
           threads'[u] = threads[u] /\ pc'[u] = pc[u] /\ local'[u] = local[u],
         asked' = asked, WaitsIn(threads'[t]) = {}
  PROVE  WaitInv'
<1>1. \A x \in Ids : <<t, x>> \notin asked
  BY NotWaiting DEF WaitInv
<1>2. ThreadWaits(t, threads'[t], asked', pc'[t], local'[t], stop')
  BY <1>1, NothingToAsk
<1> QED BY <1>2, WaitBystanders

LEMMA LessWaits ==
  ASSUME NEW t, NEW th, NEW new, ThreadOK(t, th), ThreadOK(t, new),
         new.completion = th.completion,
         SameAnswer(th.context, new.context),
         OpenCalls(new.context) \subseteq OpenCalls(th.context),
         Decided(th.context) \subseteq Decided(new.context)
  PROVE  WaitsIn(new) \subseteq WaitsIn(th)
<1> DEFINE c == th.context
           d == new.context
<1>1. c \in Seq(Msg) /\ d \in Seq(Msg)
  BY DEF ThreadOK, Thread
<1> HIDE DEF c, d
<1>2. /\ PendingApproval(d) = (PendingApproval(c) \cap OpenCalls(d)) \ Decided(d)
      /\ PendingClient(d) = PendingClient(c) \cap OpenCalls(d)
  BY <1>1, LessPending DEF c, d
<1> QED BY <1>2 DEF WaitsIn, c, d

LEMMA StepWait ==
  ASSUME TypeInv, BatchInv, WaitInv, NEW t \in Live, ThreadStep(t)
  PROVE  WaitInv'
<1> DEFINE th == threads[t]
           nt == threads'[t]
<1>0. /\ t \in AllThreads /\ Live \subseteq AllThreads /\ Live = DOMAIN threads
      /\ pc \in [AllThreads -> Places] /\ local \in [AllThreads -> Local]
      /\ stop \in BOOLEAN /\ ThreadOK(t, th)
      /\ th.context \in Seq(Msg) /\ th.made \in Nat /\ ContextOK(th.context, th.made)
      /\ IsChild(t) <=> t # Main
  BY LiveIs DEF TypeInv, Live, ThreadsOK, Context
<1>01. turn = "running" => ThreadWaits(t, th, asked, pc[t], local[t], stop)
  BY DEF WaitInv
<1> HIDE DEF th, nt
<1>1. CASE Start(t)
  <2>1. /\ Rewrote(threads, threads', t) /\ asked' = asked
        /\ pc[t] = "start" /\ turn = "running" /\ turn' = turn
        /\ \A u \in Live \ {t} : pc'[u] = pc[u] /\ local'[u] = local[u]
        /\ (stop => stop')
    <3>1. /\ Rewrote(threads, threads', t) /\ asked' = asked
          /\ pc[t] = "start" /\ turn = "running" /\ turn' = turn
      BY <1>1, StartStep DEF Start, At
    <3>2. /\ \A u \in Live \ {t} : pc'[u] = pc[u]
          /\ (stop => stop')
      <4>1. \/ Done(t)
            \/ pc' = [pc EXCEPT ![t] = "loop"] /\ stop' = stop
            \/ Exit(t) /\ stop' = TRUE
        BY <1>1 DEF Start
      <4> QED BY <1>0, <4>1 DEF Done, Exit
    <3>3. \A u \in Live \ {t} : local'[u] = local[u]
      <4>1. \/ local' = local
            \/ local' = [local EXCEPT ![t].preSendRan = FALSE, ![t].state = "none"]
        BY <1>1 DEF Start
      <4> QED BY <1>0, <4>1
    <3> QED BY <3>1, <3>2, <3>3
  <2>2. DOMAIN threads' = Live /\ \A u \in Live \ {t} : threads'[u] = threads[u]
    BY <1>0, <2>1 DEF Rewrote
  <2>3. WaitsIn(th) = {}
    BY <1>01, <2>1, NotWaiting
  <2>4. WaitsIn(nt) \subseteq WaitsIn(th)
    <3>1. CASE th.completion # "none"
      BY <1>1, <3>1, StartStep DEF th, nt
    <3>2. CASE th.completion = "none"
      <4>1. nt.context = IF local[t].preSendRan THEN th.context ELSE PreSend(th.context)
        BY <1>1, <3>2, StartStep DEF th, nt, Context
      <4>2. /\ SameAnswer(th.context, nt.context)
            /\ OpenCalls(nt.context) \subseteq OpenCalls(th.context)
            /\ Decided(th.context) \subseteq Decided(nt.context)
        <5>1. CASE local[t].preSendRan
          BY <4>1, <5>1 DEF SameAnswer
        <5>2. CASE ~local[t].preSendRan
          BY <1>0, <4>1, <5>2, PreSendIs
        <5> QED BY <5>1, <5>2
      <4>3. ThreadOK(t, nt) /\ nt.completion = th.completion
        BY <1>0, <2>1 DEF Rewrote, ThreadsOK, th, nt
      <4> QED BY <1>0, <4>2, <4>3, LessWaits
    <3> QED BY <3>1, <3>2
  <2>5. WaitsIn(nt) = {}
    BY <2>3, <2>4
  <2> QED BY <2>1, <2>2, <2>5, WaitQuiet DEF nt
<1>2. CASE Compact(t)
  <2>1. /\ Rewrote(threads, threads', t) /\ OpenCalls(nt.context) = {}
        /\ asked' = asked /\ pc[t] = "loop" /\ pc' = pc /\ local' = local
        /\ turn = "running" /\ turn' = turn /\ stop' = stop
    BY <1>2, CompactStep DEF Compact, Enters, At, nt
  <2>2. /\ DOMAIN threads' = Live /\ \A u \in Live \ {t} : threads'[u] = threads[u]
        /\ ThreadOK(t, nt)
    BY <1>0, <2>1 DEF Rewrote, ThreadsOK, nt
  <2>3. WaitsIn(nt) = {}
    BY <2>1, <2>2, WaitsInIs
  <2> QED BY <2>1, <2>2, <2>3, WaitQuiet DEF nt
<1>3. ASSUME NEW shape \in Shapes(t), NEW failed \in BOOLEAN, ModelAnswers(t, shape, failed)
      PROVE  WaitInv'
  <2>1. /\ ThreadsOK(threads') /\ DOMAIN threads' = Live
        /\ \A u \in Live \ {t} : threads'[u] = threads[u]
        /\ Len(shape) = 0 => OpenCalls(nt.context) = {}
        /\ t # Main /\ (failed \/ Len(shape) = 0) => nt.completion # "none"
    BY <1>3, ModelStep DEF nt
  <2>2. /\ asked' = asked /\ pc[t] = "loop" /\ turn = "running" /\ turn' = turn
        /\ \A u \in Live \ {t} : pc'[u] = pc[u] /\ local'[u] = local[u]
        /\ local'[t].state = "llm" /\ local'[t].failed = failed
        /\ (stop => stop')
    BY <1>0, <1>3 DEF ModelAnswers, Enters, At, Done, Local
  <2>3. ThreadOK(t, nt)
    BY <1>0, <2>1 DEF ThreadsOK, nt
  <2>4. \A x \in Ids : <<t, x>> \notin asked
    BY <1>01, <2>2, NotWaiting
  <2>5. CASE WaitsIn(nt) = {}
    BY <2>1, <2>2, <2>5, WaitQuiet DEF nt
  <2>6. CASE WaitsIn(nt) # {}
    <3>1. Len(shape) # 0 /\ (t # Main => ~failed)
      BY <2>1, <2>3, <2>6, WaitsInIs
    <3>2. CASE ~failed
      <4>1. pc'[t] = "loop"
        BY <1>3, <2>2, <3>1, <3>2 DEF ModelAnswers
      <4>2. ThreadWaits(t, nt, asked', pc'[t], local'[t], stop')
        BY <2>2, <2>4, <4>1 DEF ThreadWaits
      <4> QED BY <2>1, <2>2, <4>2, WaitBystanders DEF nt
    <3>3. CASE failed
      <4>1. t = Main /\ pc'[t] = "off" /\ stop'
        BY <1>0, <1>3, <3>1, <3>3 DEF ModelAnswers, Done
      <4>2. ThreadWaits(t, nt, asked', pc'[t], local'[t], stop')
        BY <2>2, <2>4, <3>3, <4>1 DEF ThreadWaits
      <4> QED BY <2>1, <2>2, <4>2, WaitBystanders DEF nt
    <3> QED BY <3>2, <3>3
  <2> QED BY <2>5, <2>6
<1>4. CASE ThreadFails(t) \/ AbortExits(t) \/ RunTools(t)
  <2>1. /\ threads' = threads /\ asked' = asked /\ pc[t] = "loop"
        /\ turn = "running" /\ turn' = turn
        /\ \A u \in Live \ {t} : pc'[u] = pc[u]
        /\ (stop => stop')
    <3>1. CASE ThreadFails(t)
      BY <1>0, <3>1 DEF ThreadFails, At, Done
    <3>2. CASE AbortExits(t)
      BY <1>0, <3>2 DEF AbortExits, Enters, At, Exit
    <3>3. CASE RunTools(t)
      BY <1>0, <3>3 DEF RunTools, Enters, At, Done
    <3> QED BY <1>4, <3>1, <3>2, <3>3
  <2>2. \A u \in Live \ {t} : local'[u] = local[u]
    <3>1. CASE ThreadFails(t)
      BY <1>0, <3>1 DEF ThreadFails
    <3>2. CASE AbortExits(t)
      BY <1>0, <3>2 DEF AbortExits
    <3>3. CASE RunTools(t)
      <4>1. CASE local' = [local EXCEPT ![t].failed = TRUE]
        BY <1>0, <4>1
      <4>2. ASSUME NEW create, NEW auth,
                   local' = [local EXCEPT ![t].state = "tool", ![t].create = create,
                                          ![t].auth = auth]
            PROVE  \A u \in Live \ {t} : local'[u] = local[u]
        BY <1>0, <4>2
      <4> QED BY <3>3, <4>1, <4>2 DEF RunTools
    <3> QED BY <1>4, <3>1, <3>2, <3>3
  <2>3. ~Awaiting(Context(t)) \/ (local[t].state # "llm")
    <3>1. CASE Enters(t, "llm")
      <4>1. OpenCalls(Context(t)) = {}
        BY <3>1, EntersIs
      <4> QED BY <4>1, ClosedAwaitsNothing
    <3>2. CASE Enters(t, "tool")
      BY <3>2, EntersIs
    <3>3. CASE /\ DeriveState(Context(t)) \notin ValidNext(local[t].state)
               /\ Awaiting(Context(t)) /\ local[t].state = "llm"
      <4>1. DeriveState(Context(t)) = "input"
        <5>1. OpenCalls(Context(t)) # {}
          BY <3>3, ClosedAwaitsNothing
        <5> QED BY <3>3, <5>1 DEF DeriveState
      <4>2. "input" \in ValidNext("llm")
        BY DEF ValidNext
      <4> QED BY <3>3, <4>1, <4>2
    <3> QED BY <1>4, <3>1, <3>2, <3>3 DEF ThreadFails, AbortExits, RunTools
  <2>4. WaitsIn(th) = {}
    <3>1. CASE ~Awaiting(Context(t))
      BY <1>0, <3>1, WaitsInIs DEF Context, th
    <3>2. CASE local[t].state # "llm"
      BY <1>01, <2>1, <3>2 DEF ThreadWaits
    <3> QED BY <2>3, <3>1, <3>2
  <2> QED BY <1>0, <2>1, <2>2, <2>4, WaitQuiet DEF th
<1>5. CASE AppendResults(t)
  <2>1. /\ Rewrote(threads, threads', t) /\ asked' = asked
        /\ SameAnswer(th.context, nt.context)
        /\ OpenCalls(nt.context) \subseteq OpenCalls(th.context)
        /\ Decided(nt.context) = Decided(th.context)
        /\ pc[t] = "ran" /\ turn = "running" /\ turn' = turn /\ local' = local
        /\ \A u \in Live \ {t} : pc'[u] = pc[u]
        /\ (stop => stop')
    BY <1>0, <1>5, AppendStep DEF AppendResults, At, Exit, Context, th, nt
  <2>2. /\ DOMAIN threads' = Live /\ \A u \in Live \ {t} : threads'[u] = threads[u]
        /\ ThreadOK(t, nt) /\ nt.completion = th.completion
    BY <1>0, <2>1 DEF Rewrote, ThreadsOK, nt, th
  <2>3. WaitsIn(th) = {}
    BY <1>01, <2>1, NotWaiting
  <2>4. WaitsIn(nt) \subseteq WaitsIn(th)
    BY <1>0, <2>1, <2>2, LessWaits
  <2>5. WaitsIn(nt) = {}
    BY <2>3, <2>4
  <2> QED BY <2>1, <2>2, <2>5, WaitQuiet DEF nt
<1>6. ASSUME NEW x \in local[t].create, NEW child \in Children, CreateThread(t, x, child)
      PROVE  WaitInv'
  <2>1. /\ ThreadsOK(threads') /\ DOMAIN threads' = Live \cup {child}
        /\ child \notin Live /\ child # Main /\ child \in AllThreads
        /\ \A u \in Live : threads'[u] = threads[u] /\ u # child
        /\ threads'[child].context = <<>>
        /\ asked' = asked /\ pc[t] = "create" /\ turn = "running" /\ turn' = turn
        /\ stop' = stop
    BY <1>6, CreateStep DEF CreateThread, At, NewThread
  <2>2. \A u \in Live \ {t} : pc'[u] = pc[u] /\ local'[u] = local[u]
    BY <1>0, <1>6, <2>1 DEF CreateThread
  <2>3. Live' = Live \cup {child} /\ Subs' = Subs \cup {child}
    BY <2>1 DEF Live, Subs
  <2>4. WaitsIn(threads'[child]) = {}
    <3>1. OpenCalls(<<>>) = {}
      BY EmptyIs
    <3>2. ThreadOK(child, threads'[child])
      BY <2>1 DEF ThreadsOK
    <3> QED BY <2>1, <3>1, <3>2, WaitsInIs
  <2>5. WaitsIn(th) = {} /\ \A y \in Ids : <<t, y>> \notin asked
    BY <1>01, <2>1, NotWaiting
  <2>6. \A y \in Ids : <<child, y>> \notin asked
    BY <2>1 DEF WaitInv
  <2>7. \A u \in Live' : ThreadWaits(u, threads'[u], asked', pc'[u], local'[u], stop')
    <3>1. ThreadWaits(child, threads'[child], asked, pc'[child], local'[child], stop)
      BY <2>4, <2>6, NothingToAsk
    <3>2. ThreadWaits(t, threads[t], asked, pc'[t], local'[t], stop)
      BY <2>5, NothingToAsk DEF th
    <3>3. \A u \in Live \ {t} :
            ThreadWaits(u, threads[u], asked, pc[u], local[u], stop)
      BY <2>1 DEF WaitInv
    <3>4. \A u \in Live \ {t} :
            ThreadWaits(u, threads'[u], asked, pc'[u], local'[u], stop')
      BY <2>1, <2>2, <3>3
    <3> QED BY <2>1, <2>3, <3>1, <3>2, <3>4
  <2>8. \A y \in Ids : <<Main, y>> \notin asked
    <3>1. CASE t = Main
      BY <2>5, <3>1
    <3>2. CASE t # Main
      <4>1. t \in Subs /\ Main \in AllThreads
        BY <3>2 DEF Subs, AllThreads
      <4> QED BY <2>1, <4>1 DEF WaitInv
    <3> QED BY <3>1, <3>2
  <2>9. \A u \in AllThreads, y \in Ids : <<u, y>> \in asked =>
          u \in Live' /\ (u = Main => Subs' = {})
    BY <2>1, <2>3, <2>8 DEF WaitInv
  <2> QED BY <2>1, <2>7, <2>9 DEF WaitInv
<1>7. CASE AskUser(t)
  <2> DEFINE W == PendingApproval(Context(t)) \cup PendingClient(Context(t))
  <2>1. /\ threads' = threads /\ pc[t] = "loop" /\ turn = "running" /\ turn' = turn
        /\ asked' = asked \cup {<<t, x>> : x \in W} /\ stop'
        /\ pc'[t] = "off" /\ \A u \in Live \ {t} : pc'[u] = pc[u] /\ local'[u] = local[u]
    BY <1>0, <1>7 DEF AskUser, Enters, At, Exit
  <2>2. th.completion = "none" /\ (t = Main => Subs = {})
    BY <2>1 DEF BatchInv, th
  <2>3. WaitsIn(th) = W
    BY <2>2 DEF WaitsIn, Context, th
  <2> HIDE DEF W
  <2>4. \A x \in Ids : <<t, x>> \notin asked
    BY <1>01, <2>1, NotWaiting
  <2>5. ThreadWaits(t, th, asked', pc'[t], local'[t], stop')
    BY <2>1, <2>3, <2>4 DEF ThreadWaits
  <2>6. \A u \in AllThreads, x \in Ids : <<u, x>> \in asked' =>
           <<u, x>> \in asked \/ (u = t /\ (t = Main => Subs = {}))
    BY <2>1, <2>2
  <2> QED BY <1>0, <2>1, <2>5, <2>6, WaitBystanders DEF th
<1>8. CASE DeliverResult(t)
  <2>1. /\ t # Main /\ Main \in Live /\ Main \in AllThreads
        /\ Rewrote(threads, threads', Main) /\ asked' = asked
        /\ pc[t] = "done" /\ turn = "running" /\ turn' = turn /\ stop' = stop
        /\ pc' = [pc EXCEPT ![t] = "sent"]
    BY <1>8, DeliverStep, LiveIs DEF DeliverResult, At
  <2>2. /\ Live' = Live /\ Subs' = Subs /\ DOMAIN threads' = Live
        /\ pc'[t] = "sent" /\ \A u \in Live \ {t} : pc'[u] = pc[u]
        /\ \A u \in Live \ {Main} : threads'[u] = threads[u]
        /\ \A u \in Live \ {Main} : local'[u] = local[u]
    BY <1>0, <1>8, <2>1 DEF DeliverResult, Rewrote, Live, Subs
  <2>3. \A y \in Ids : <<Main, y>> \notin asked
    BY <1>0, <2>1 DEF WaitInv, Subs
  <2>4. ThreadWaits(Main, threads'[Main], asked, pc'[Main], local'[Main], stop)
    <3>1. CASE threads' = threads /\ local' = local
      <4>1. ThreadWaits(Main, threads[Main], asked, pc[Main], local[Main], stop)
        BY <2>1 DEF WaitInv
      <4> QED BY <2>1, <2>2, <3>1, <4>1
    <3>2. CASE ~Awaiting(threads'[Main].context)
      <4>1. ThreadOK(Main, threads'[Main])
        BY <2>1, <2>2 DEF Rewrote, ThreadsOK
      <4>2. WaitsIn(threads'[Main]) = {}
        BY <3>2, <4>1, WaitsInIs
      <4> QED BY <2>3, <4>2, NothingToAsk
    <3> QED BY <1>8, <3>1, <3>2, DeliverStep
  <2>5. ThreadWaits(t, threads'[t], asked, pc'[t], local'[t], stop)
    <3>1. WaitsIn(th) = {} /\ \A y \in Ids : <<t, y>> \notin asked
      BY <1>01, <2>1, NotWaiting
    <3> QED BY <2>1, <2>2, <3>1, NothingToAsk DEF th
  <2>6. \A u \in Live \ {t, Main} :
          ThreadWaits(u, threads'[u], asked, pc'[u], local'[u], stop)
    BY <2>1, <2>2 DEF WaitInv
  <2>7. \A u \in Live : ThreadWaits(u, threads'[u], asked, pc'[u], local'[u], stop)
    BY <2>4, <2>5, <2>6
  <2> QED BY <2>1, <2>2, <2>7 DEF WaitInv
<1>9. CASE RemoveThread(t)
  <2>1. /\ Live' = Live \ {t} /\ Subs' = Subs \ {t} /\ asked' = asked /\ stop' = stop
        /\ pc[t] = "sent" /\ turn = "running" /\ turn' = turn
        /\ \A u \in Live \ {t} : threads'[u] = threads[u]
        /\ \A u \in Live \ {t} : pc'[u] = pc[u] /\ local'[u] = local[u]
    BY <1>0, <1>9, RemoveStep DEF RemoveThread, Exit, Live, Subs
  <2>2. \A y \in Ids : <<t, y>> \notin asked
    BY <1>01, <2>1, NotWaiting
  <2>3. \A u \in Live' : ThreadWaits(u, threads'[u], asked, pc'[u], local'[u], stop)
    BY <2>1 DEF WaitInv
  <2>4. \A u \in AllThreads, y \in Ids : <<u, y>> \in asked =>
          u \in Live' /\ (u = Main => Subs' = {})
    BY <2>1, <2>2 DEF WaitInv
  <2> QED BY <2>1, <2>3, <2>4 DEF WaitInv
<1> QED BY <1>1, <1>2, <1>3, <1>4, <1>5, <1>6, <1>7, <1>8, <1>9 DEF ThreadStep

LEMMA NextWait == TypeInv /\ BatchInv /\ WaitInv /\ [Next]_vars => WaitInv'
<1> SUFFICES ASSUME TypeInv, BatchInv, WaitInv, [Next]_vars PROVE WaitInv'
  OBVIOUS
<1>0. /\ Live \subseteq AllThreads /\ Live = DOMAIN threads /\ ThreadsOK(threads)
      /\ stop \in BOOLEAN /\ Main \in Live
  BY LiveIs DEF TypeInv, Live
<1>1. CASE StartBatch
  <2>1. /\ threads' = threads /\ asked' = asked /\ stop' = stop /\ ~stop
        /\ turn = "running" /\ turn' = turn /\ Live' = Live /\ Subs' = Subs
        /\ \A t \in AllThreads : pc[t] = "off"
    BY <1>1 DEF StartBatch, Quiet, Live, Subs
  <2>2. \A t \in Live : WaitsIn(threads[t]) = {} /\ \A x \in Ids : <<t, x>> \notin asked
    BY <1>0, <2>1, NotWaiting DEF WaitInv
  <2>3. \A t \in Live : ThreadWaits(t, threads[t], asked, pc'[t], local'[t], stop)
    BY <2>2, NothingToAsk
  <2> QED BY <2>1, <2>3 DEF WaitInv
<1>2. CASE FinishTurn
  <2>1. /\ turn = "running" /\ asked' = asked /\ threads' = threads /\ Live' = Live
        /\ turn' = IF local[Main].failed THEN "error" ELSE "done"
        /\ \A t \in AllThreads : pc[t] = "off"
    BY <1>2 DEF FinishTurn, EndTurn, Quiet, Live
  <2>2. CASE local[Main].failed
    BY <2>1, <2>2 DEF WaitInv
  <2>3. CASE ~local[Main].failed
    <3>1. ASSUME NEW t \in Live, NEW x \in Ids
          PROVE  <<t, x>> \in asked <=> x \in WaitsIn(threads[t])
      <4>1. ThreadWaits(t, threads[t], asked, pc[t], local[t], stop) /\ pc[t] = "off"
        BY <1>0, <2>1 DEF WaitInv
      <4> QED BY <2>3, <4>1 DEF ThreadWaits
    <3> QED BY <2>1, <2>3, <3>1 DEF WaitInv
  <2> QED BY <2>2, <2>3
<1>3. CASE CutTurn
  <2>1. turn' = "idle"
    BY <1>3 DEF CutTurn, EndTurn
  <2> QED BY <2>1 DEF WaitInv
<1>4. CASE \E t \in Live : ThreadStep(t)
  BY <1>4, StepWait
<1>5. ASSUME NEW sent, BeginTurn(sent), DOMAIN threads' = Live,
             \A t \in Live : WaitsIn(threads'[t]) = {}
      PROVE  WaitInv'
  <2>1. turn' = "running" /\ asked' = {} /\ Live' = Live
    BY <1>5 DEF BeginTurn, Live
  <2>2. \A t \in Live : ThreadWaits(t, threads'[t], {}, pc'[t], local'[t], stop')
    BY <1>5, NothingToAsk
  <2> QED BY <2>1, <2>2 DEF WaitInv
<1>6. CASE CreateTurnUser
  <2>1. /\ ThreadsOK(threads') /\ DOMAIN threads' = Live
        /\ OpenCalls(threads'[Main].context) = {}
        /\ \A t \in Subs : threads'[t].completion # "none"
    BY <1>6, UserSnapshot
  <2>2. \A t \in Live : ThreadOK(t, threads'[t])
    BY <2>1 DEF ThreadsOK
  <2>3. WaitsIn(threads'[Main]) = {}
    BY <1>0, <2>1, <2>2, WaitsInIs
  <2>4. \A t \in Subs : WaitsIn(threads'[t]) = {}
    BY <2>1 DEF WaitsIn
  <2>5. \A t \in Live : WaitsIn(threads'[t]) = {}
    BY <2>3, <2>4 DEF Subs
  <2> QED BY <1>5, <1>6, <2>1, <2>5 DEF CreateTurnUser
<1>7. ASSUME NEW D, NEW R, CreateTurnAnswer(D, R) PROVE WaitInv'
  <2>1. ThreadsOK(threads') /\ DOMAIN threads' = Live
    BY <1>7, AnswerSnapshot
  <2>2. ASSUME NEW t \in Live PROVE WaitsIn(threads'[t]) = {}
    <3>1. /\ AcceptsSend(threads[t], For(D, t), For(R, t))
          /\ threads'[t].context = AfterSend(threads[t].context, For(D, t), For(R, t))
      BY <1>7, AnswerSnapshot
    <3>2. ThreadOK(t, threads[t]) /\ ThreadOK(t, threads'[t])
      BY <1>0, <2>1 DEF ThreadsOK
    <3>3. ~Awaiting(threads'[t].context)
      BY <3>1, <3>2, AfterSendIs
    <3> QED BY <3>2, <3>3, WaitsInIs
  <2> QED BY <1>5, <1>7, <2>1, <2>2 DEF CreateTurnAnswer
<1>8. CASE EditSpec \/ UNCHANGED vars
  BY <1>8 DEF EditSpec, vars, WaitInv, Live, Subs
<1>9. CASE AbortTurn
  <2>1. /\ threads' = threads /\ asked' = asked /\ stop' /\ turn = "running" /\ turn' = turn
        /\ pc' = pc /\ local' = local /\ Live' = Live /\ Subs' = Subs
    BY <1>9 DEF AbortTurn, Live, Subs
  <2>2. \A t \in Live : ThreadWaits(t, threads[t], asked, pc[t], local[t], stop')
    BY <2>1 DEF WaitInv, ThreadWaits
  <2> QED BY <2>1, <2>2 DEF WaitInv
<1> QED BY <1>1, <1>2, <1>3, <1>4, <1>6, <1>7, <1>8, <1>9
        DEF Next, Execute, CreateTurn

(* A thread that is complete while its context still awaits input, which   *)
(* send() would refuse: a sub-agent that has just failed on its own        *)
(* answer, or one that a user message has cancelled with all the others    *)
(* and with nothing asked since.                                           *)
Stuck(th) == th.completion # "none" /\ Awaiting(th.context)

StuckInv ==
  \A t \in Live : Stuck(threads[t]) =>
    \/ turn = "running" /\ pc[t] \in {"done", "sent"}
    \/ asked = {} /\ \A u \in Subs : threads[u].completion # "none"
    \/ turn = "idle"

LEMMA InitStuck == Init => StuckInv
BY DEF Init, StuckInv

(* With every sub-agent complete, only their results are delivered.        *)
LEMMA AllComplete ==
  ASSUME TypeInv, BatchInv, NEW u \in Live, Stuck(threads[u]),
         \A v \in Subs : threads[v].completion # "none",
         NEW t \in Live, pc[t] # "off"
  PROVE  t # Main /\ pc[t] \notin {"loop", "ran", "create"}
<1>1. u # Main
  BY LiveIs DEF Stuck
<1>2. u \in Subs /\ threads[u].completion # "none"
  BY <1>1 DEF Subs, Stuck
<1>3. pc[Main] = "off"
  BY <1>2 DEF BatchInv
<1>4. t \in Subs
  BY <1>3 DEF Subs
<1> QED BY <1>3, <1>4 DEF BatchInv

LEMMA StuckMoves ==
  ASSUME TypeInv, BatchInv, StuckInv, turn = "running", turn' = turn,
         NEW t \in Live, pc[t] \in {"loop", "ran", "create"},
         \A u \in Live' \ {t} :
           \/ threads'[u].completion = "none"
           \/ u \in Live /\ threads'[u] = threads[u] /\ pc'[u] = pc[u],
         threads'[t].completion # "none" => pc'[t] = "done"
  PROVE  StuckInv'
<1> SUFFICES ASSUME NEW u \in Live', Stuck(threads'[u])
             PROVE  turn' = "running" /\ pc'[u] \in {"done", "sent"}
  BY DEF StuckInv
<1>1. CASE u = t
  BY <1>1 DEF Stuck
<1>2. CASE u # t
  <2>1. u \in Live /\ threads'[u] = threads[u] /\ pc'[u] = pc[u]
    BY <1>2 DEF Stuck
  <2>2. ~(\A v \in Subs : threads[v].completion # "none")
    BY <2>1, AllComplete
  <2> QED BY <2>1, <2>2 DEF StuckInv
<1> QED BY <1>1, <1>2

LEMMA StuckEnds ==
  ASSUME TypeInv, BatchInv, StuckInv, turn = "running", turn' = turn, asked' = asked,
         Live' \subseteq Live, NEW t \in Live,
         \A u \in Live' : /\ threads'[u].completion = threads[u].completion
                          /\ Stuck(threads'[u]) => Stuck(threads[u])
                          /\ u # t => pc'[u] = pc[u],
         t \in Live' /\ pc[t] \in {"done", "sent"} => pc'[t] \in {"done", "sent"}
  PROVE  StuckInv'
<1> SUFFICES ASSUME NEW u \in Live', Stuck(threads'[u])
             PROVE  \/ turn' = "running" /\ pc'[u] \in {"done", "sent"}
                    \/ asked' = {} /\ \A v \in Subs' : threads'[v].completion # "none"
  BY DEF StuckInv
<1>1. u \in Live /\ Stuck(threads[u])
  OBVIOUS
<1>2. CASE pc[u] \in {"done", "sent"}
  BY <1>2
<1>3. CASE asked = {} /\ \A v \in Subs : threads[v].completion # "none"
  <2>1. \A v \in Subs' : v \in Live' /\ v \in Subs
    BY DEF Subs
  <2> QED BY <1>3, <2>1
<1> QED BY <1>1, <1>2, <1>3 DEF StuckInv

LEMMA StepStuck ==
  ASSUME TypeInv, BatchInv, StuckInv, NEW t \in Live, ThreadStep(t)
  PROVE  StuckInv'
<1>0. /\ t \in AllThreads /\ Live \subseteq AllThreads /\ Live = DOMAIN threads
      /\ Live' = DOMAIN threads' /\ pc \in [AllThreads -> Places]
      /\ IsChild(t) <=> t # Main
  BY LiveIs DEF TypeInv, Live
<1>1. CASE Start(t)
  <2>1. /\ Rewrote(threads, threads', t) /\ asked' = asked
        /\ pc[t] = "start" /\ turn = "running" /\ turn' = turn
        /\ threads[t].completion # "none" => threads' = threads
    BY <1>1, StartStep DEF Start, At
  <2>2. \A u \in Live \ {t} : pc'[u] = pc[u]
    <3>1. \E p : pc' = [pc EXCEPT ![t] = p]
      BY <1>1 DEF Start, Done, Exit
    <3> QED BY <1>0, <3>1
  <2>3. Live' = Live /\ \A u \in Live : /\ threads'[u].completion = threads[u].completion
                                        /\ Stuck(threads'[u]) => Stuck(threads[u])
    BY <1>0, <2>1 DEF Rewrote, Stuck
  <2> QED BY <2>1, <2>2, <2>3, StuckEnds
<1>2. CASE Compact(t) \/ AppendResults(t)
  <2>1. /\ Rewrote(threads, threads', t) /\ turn = "running" /\ turn' = turn
        /\ pc[t] \in {"loop", "ran"}
        /\ \A u \in Live \ {t} : pc'[u] = pc[u]
    <3>1. CASE Compact(t)
      BY <3>1, CompactStep DEF Compact, Enters, At
    <3>2. CASE AppendResults(t)
      BY <1>0, <3>2, AppendStep DEF AppendResults, At, Exit
    <3> QED BY <1>2, <3>1, <3>2
  <2>2. threads'[t].completion = "none" /\ Live' = Live
    BY <1>0, <2>1 DEF Rewrote, BatchInv
  <2> QED BY <1>0, <2>1, <2>2, StuckMoves DEF Rewrote
<1>3. ASSUME NEW shape \in Shapes(t), NEW failed \in BOOLEAN, ModelAnswers(t, shape, failed)
      PROVE  StuckInv'
  <2>1. /\ Live' = Live /\ \A u \in Live \ {t} : threads'[u] = threads[u]
        /\ ~failed /\ Len(shape) # 0 => threads'[t].completion = "none"
        /\ t = Main => threads'[t].completion = "none"
    BY <1>0, <1>3, ModelStep
  <2>2. /\ turn = "running" /\ turn' = turn /\ pc[t] = "loop"
        /\ \A u \in Live \ {t} : pc'[u] = pc[u]
    BY <1>0, <1>3 DEF ModelAnswers, Enters, At, Done
  <2>3. threads'[t].completion # "none" => pc'[t] = "done"
    BY <1>0, <1>3, <2>1 DEF ModelAnswers, Done
  <2> QED BY <2>1, <2>2, <2>3, StuckMoves
<1>4. CASE ThreadFails(t) \/ AbortExits(t) \/ RunTools(t) \/ AskUser(t)
  <2>1. /\ threads' = threads /\ pc[t] = "loop" /\ turn = "running" /\ turn' = turn
        /\ \A u \in Live \ {t} : pc'[u] = pc[u]
    <3>1. CASE ThreadFails(t)
      BY <1>0, <3>1 DEF ThreadFails, At, Done
    <3>2. CASE AbortExits(t)
      BY <1>0, <3>2 DEF AbortExits, Enters, At, Exit
    <3>3. CASE RunTools(t)
      BY <1>0, <3>3 DEF RunTools, Enters, At, Done
    <3>4. CASE AskUser(t)
      BY <1>0, <3>4 DEF AskUser, Enters, At, Exit
    <3> QED BY <1>4, <3>1, <3>2, <3>3, <3>4
  <2>2. threads[t].completion = "none"
    BY <2>1 DEF BatchInv
  <2> QED BY <1>0, <2>1, <2>2, StuckMoves
<1>5. ASSUME NEW x \in local[t].create, NEW child \in Children, CreateThread(t, x, child)
      PROVE  StuckInv'
  <2>1. /\ DOMAIN threads' = Live \cup {child}
        /\ \A u \in Live : threads'[u] = threads[u] /\ u # child
        /\ threads'[child].completion = "none"
        /\ pc[t] = "create" /\ turn = "running" /\ turn' = turn
    BY <1>5, CreateStep DEF CreateThread, At, NewThread
  <2>2. \A u \in Live \ {t} : pc'[u] = pc[u]
    BY <1>0, <1>5 DEF CreateThread
  <2>3. threads[t].completion = "none"
    BY <2>1 DEF BatchInv
  <2> QED BY <1>0, <2>1, <2>2, <2>3, StuckMoves
<1>6. CASE DeliverResult(t)
  <2>1. /\ Rewrote(threads, threads', Main) /\ asked' = asked /\ Main \in Live
        /\ turn = "running" /\ turn' = turn /\ pc' = [pc EXCEPT ![t] = "sent"]
        /\ threads[Main].completion = "none"
    BY <1>6, DeliverStep, LiveIs DEF DeliverResult, At
  <2>2. /\ Live' = Live /\ pc'[t] = "sent" /\ \A u \in Live \ {t} : pc'[u] = pc[u]
        /\ \A u \in Live : /\ threads'[u].completion = threads[u].completion
                           /\ Stuck(threads'[u]) => Stuck(threads[u])
    BY <1>0, <2>1 DEF Rewrote, Stuck
  <2> QED BY <2>1, <2>2, StuckEnds
<1>7. CASE RemoveThread(t)
  <2>1. /\ Live' = Live \ {t} /\ \A u \in Live \ {t} : threads'[u] = threads[u]
        /\ turn = "running" /\ turn' = turn /\ asked' = asked
        /\ \A u \in Live \ {t} : pc'[u] = pc[u]
    BY <1>0, <1>7, RemoveStep DEF RemoveThread, Exit
  <2> QED BY <2>1, StuckEnds
<1> QED BY <1>1, <1>2, <1>3, <1>4, <1>5, <1>6, <1>7 DEF ThreadStep

LEMMA NextStuck == TypeInv /\ BatchInv /\ StuckInv /\ [Next]_vars => StuckInv'
<1> SUFFICES ASSUME TypeInv, BatchInv, StuckInv, [Next]_vars PROVE StuckInv'
  OBVIOUS
<1>0. Live \subseteq AllThreads /\ Live = DOMAIN threads /\ Live' = DOMAIN threads'
      /\ ThreadsOK(threads)
  BY LiveIs DEF TypeInv, Live
<1>1. CASE StartBatch \/ FinishTurn
  <2>1. /\ threads' = threads /\ asked' = asked /\ turn = "running"
        /\ \A t \in AllThreads : pc[t] = "off"
        /\ Live' = Live /\ Subs' = Subs
    BY <1>1 DEF StartBatch, FinishTurn, EndTurn, Quiet, Live, Subs
  <2> QED BY <1>0, <2>1 DEF StuckInv
<1>2. CASE CutTurn
  <2>1. turn' = "idle"
    BY <1>2 DEF CutTurn, EndTurn
  <2> QED BY <2>1 DEF StuckInv
<1>3. CASE \E t \in Live : ThreadStep(t)
  BY <1>3, StepStuck
<1>4. CASE CreateTurnUser
  <2>1. /\ Live' = Live /\ asked' = {}
        /\ \A t \in Subs : threads'[t].completion # "none"
    BY <1>0, <1>4, UserSnapshot DEF CreateTurnUser, BeginTurn
  <2> QED BY <2>1 DEF StuckInv, Subs
<1>5. ASSUME NEW D, NEW R, CreateTurnAnswer(D, R) PROVE StuckInv'
  <2>1. \A t \in Live : ~Awaiting(threads'[t].context)
    <3> TAKE t \in Live
    <3>1. /\ AcceptsSend(threads[t], For(D, t), For(R, t))
          /\ threads'[t].context = AfterSend(threads[t].context, For(D, t), For(R, t))
      BY <1>5, AnswerSnapshot
    <3>2. ThreadOK(t, threads[t])
      BY <1>0 DEF ThreadsOK
    <3> QED BY <3>1, <3>2, AfterSendIs
  <2>2. Live' = Live
    BY <1>0, <1>5, AnswerSnapshot
  <2> QED BY <2>1, <2>2 DEF StuckInv, Stuck
<1>6. CASE EditSpec \/ AbortTurn \/ UNCHANGED vars
  BY <1>6 DEF EditSpec, AbortTurn, vars, StuckInv, Live, Subs
<1> QED BY <1>1, <1>2, <1>3, <1>4, <1>5, <1>6 DEF Next, Execute, CreateTurn

(* An answer to all that a thread waits for is accepted by it. *)
LEMMA AnswerAccepted ==
  ASSUME NEW t, NEW th, ThreadOK(t, th), th.completion = "none"
  PROVE  AcceptsSend(th, PendingApproval(th.context), PendingClient(th.context))
<1> DEFINE c == th.context
           D == PendingApproval(c)
           R == PendingClient(c)
<1>0. c \in Seq(Msg) /\ th.made \in Nat /\ ContextOK(c, th.made)
  BY DEF ThreadOK, Thread
<1>1. CASE D \cup R = {}
  BY <1>1 DEF AcceptsSend, Skips, Awaiting
<1>2. CASE D \cup R # {}
  <2>1. ValidBatch(c, D, R)
    BY DEF ValidBatch, PendingClient, OpenOfKind
  <2>2. PreSend(c) = c
    <3>1. PICK x \in D \cup R : x \in OpenCalls(c)
                                /\ c[LastAssistant(c)].calls[x] \in {"approval", "client"}
      BY <1>2 DEF PendingApproval, PendingClient, OpenOfKind
    <3>2. LastAssistant(c) # 0 /\ ~Pure(c)
      BY <1>0, <3>1, OpenCallsIs DEF Pure
    <3> HIDE DEF c
    <3> QED BY <1>0, <3>2, PreSendIs
  <2> QED BY <2>1, <2>2 DEF AcceptsSend
<1> QED BY <1>1, <1>2

(* A turn that ended without an error of the main thread asked for exactly *)
(* what its unfinished threads wait for, and an answer to all of it is     *)
(* accepted by every thread, also by those that are complete: no required  *)
(* action of a turn.done leads to a createTurn that throws.                *)
THEOREM AskedIsNeeded == Spec => []AsksForWhatItNeeds
<1> DEFINE I == TypeInv /\ BatchInv /\ WaitInv /\ StuckInv
<1>1. Init => I
  BY InitTyped, InitBatch, InitWait, InitStuck
<1>2. I /\ [Next]_vars => I'
  BY NextTyped, NextBatch, NextWait, NextStuck
<1>3. I => AsksForWhatItNeeds
  <2> SUFFICES ASSUME I, turn = "done"
               PROVE  /\ asked = UNION {{<<t, x>> : x \in WaitsFor(t)} : t \in Live}
                      /\ asked # {} =>
                           AcceptsAnswers(
                             {a \in asked : a[2] \in PendingApproval(Context(a[1]))},
                             {a \in asked : a[2] \in PendingClient(Context(a[1]))})
    BY DEF AsksForWhatItNeeds
  <2>0. /\ Live \subseteq AllThreads /\ asked \subseteq AllThreads \X Ids
        /\ \A t \in Live : ThreadOK(t, threads[t]) /\ WaitsFor(t) = WaitsIn(threads[t])
    BY LiveIs DEF TypeInv, ThreadsOK, Live, WaitsFor, WaitsIn, Context
  <2>1. \A t, x : <<t, x>> \in asked <=> t \in Live /\ x \in WaitsFor(t)
    <3> TAKE t, x
    <3>1. ASSUME <<t, x>> \in asked PROVE t \in Live /\ x \in WaitsFor(t)
      <4>1. t \in AllThreads /\ x \in Ids
        BY <2>0, <3>1
      <4>2. t \in Live
        BY <3>1, <4>1 DEF WaitInv
      <4> QED BY <2>0, <3>1, <4>1, <4>2 DEF WaitInv
    <3>2. ASSUME t \in Live, x \in WaitsFor(t) PROVE <<t, x>> \in asked
      <4>1. x \in WaitsIn(threads[t]) /\ x \in Ids
        BY <2>0, <3>2, WaitsInIs
      <4> QED BY <3>2, <4>1 DEF WaitInv
    <3> QED BY <3>1, <3>2
  <2>2. asked = UNION {{<<t, x>> : x \in WaitsFor(t)} : t \in Live}
    <3>1. \A a \in asked : a = <<a[1], a[2]>>
      BY <2>0
    <3>2. \A a \in asked : a \in UNION {{<<t, x>> : x \in WaitsFor(t)} : t \in Live}
      BY <2>1, <3>1
    <3>3. \A a \in UNION {{<<t, x>> : x \in WaitsFor(t)} : t \in Live} : a \in asked
      BY <2>1
    <3> QED BY <3>2, <3>3
  <2>3. ASSUME asked # {}, NEW t \in Live
        PROVE  LET D == {a \in asked : a[2] \in PendingApproval(Context(a[1]))}
                   R == {a \in asked : a[2] \in PendingClient(Context(a[1]))}
               IN  AcceptsSend(threads[t], For(D, t), For(R, t))
    <3> DEFINE D == {a \in asked : a[2] \in PendingApproval(Context(a[1]))}
               R == {a \in asked : a[2] \in PendingClient(Context(a[1]))}
               th == threads[t]
    <3>1. /\ For(D, t) = {x \in WaitsIn(th) : x \in PendingApproval(th.context)}
          /\ For(R, t) = {x \in WaitsIn(th) : x \in PendingClient(th.context)}
      <4>1. \A a \in asked : a = <<a[1], a[2]>>
        BY <2>0
      <4>2. \A x : <<t, x>> \in asked <=> x \in WaitsIn(th)
        BY <2>0, <2>1
      <4>3. \A x : x \in For(D, t) <=> <<t, x>> \in asked /\ x \in PendingApproval(Context(t))
        BY <4>1 DEF For
      <4>4. \A x : x \in For(R, t) <=> <<t, x>> \in asked /\ x \in PendingClient(Context(t))
        BY <4>1 DEF For
      <4> HIDE DEF D, R
      <4> QED BY <4>2, <4>3, <4>4 DEF Context
    <3> HIDE DEF D, R
    <3>2. CASE th.completion = "none"
      <4>1. For(D, t) = PendingApproval(th.context) /\ For(R, t) = PendingClient(th.context)
        BY <3>1, <3>2 DEF WaitsIn
      <4>2. AcceptsSend(th, PendingApproval(th.context), PendingClient(th.context))
        BY <2>0, <3>2, AnswerAccepted
      <4> QED BY <4>1, <4>2 DEF D, R
    <3>3. CASE th.completion # "none"
      <4>1. For(D, t) = {} /\ For(R, t) = {}
        BY <3>1, <3>3 DEF WaitsIn
      <4>2. ~Awaiting(th.context)
        BY <2>3, <3>3 DEF StuckInv, Stuck
      <4>3. AcceptsSend(th, For(D, t), For(R, t))
        BY <4>1, <4>2 DEF AcceptsSend, Skips
      <4> QED BY <4>3 DEF D, R
    <3> QED BY <3>2, <3>3
  <2> QED BY <2>2, <2>3 DEF AcceptsAnswers
<1> HIDE DEF I
<1> QED BY <1>1, <1>2, <1>3, PTL DEF Spec
=============================================================================
