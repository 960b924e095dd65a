------------------------- MODULE MemoryIngestProofs -------------------------
(***************************************************************************)
(* Proofs about MemoryIngest, for any number of turns, any limits and      *)
(* time-outs and any faults.                                               *)
(*                                                                         *)
(* The path of a turn is a recursive function of the rows.  The first      *)
(* lemmas establish once that a path is closed under ancestors and a chain *)
(* (by least counterexample); the next ones that the exchanges of a path   *)
(* are consecutive parts of it and that a pass queues the first of them.   *)
(* The invariants rest on these facts only: what is skipped or sent too    *)
(* early (IngestInv), what is sent twice (OnceInv) and what is sent in     *)
(* time (InTimeInv).                                                       *)
(***************************************************************************)
EXTENDS MemoryIngest, FiniteSetTheorems, WellFoundedInduction, TLAPS

(* The rows of a session: each turn comes after its previous turn. *)
Rows(p) == p \in Seq(Nat) /\ \A t \in 1..Len(p) : p[t] < t

(* Ancestry, of any rows. *)
PathsOf(p) ==
  LET f[t \in 0..Len(p)] == IF t = 0 THEN {} ELSE {t} \cup f[p[t]]
  IN  f
-----------------------------------------------------------------------------
(* Numbers *)

LEMMA LeastNat ==
  ASSUME NEW S \in SUBSET Nat, S # {}
  PROVE  \E m \in S : \A x \in S : m <= x
<1> DEFINE R == OpToRel(<, Nat)
<1>1. IsWellFoundedOn(R, Nat)
  BY NatLessThanWellFounded
<1>2. \A a, b \in Nat : a < b => <<a, b>> \in R
  BY DEF OpToRel
<1> HIDE DEF R
<1>3. PICK m \in S : \A x \in S : ~(<<x, m>> \in R)
  BY <1>1, WFMin
<1>4. \A x \in S : ~(x < m)
  BY <1>2, <1>3
<1> QED BY <1>3, <1>4

(* The greatest element of a bounded set of turns. *)
LEMMA MaxIs ==
  ASSUME NEW n \in Nat, NEW S \in SUBSET (0..n), S # {}
  PROVE  Max(S) \in S /\ \A x \in S : x <= Max(S)
<1> DEFINE T == {m \in Nat : \A x \in S : x <= m}
<1>1. n \in T
  OBVIOUS
<1>2. PICK m \in T : \A k \in T : m <= k
  BY <1>1, LeastNat
<1>3. m \in S
  <2> SUFFICES ASSUME m \notin S PROVE FALSE
    OBVIOUS
  <2>1. \A x \in S : x \in Nat /\ x < m
    BY <1>2
  <2>2. m # 0
    <3>1. PICK y \in S : y \in Nat /\ y < m
      BY <2>1
    <3> QED BY <3>1
  <2>3. m - 1 \in Nat /\ \A x \in S : x <= m - 1
    BY <1>2, <2>1, <2>2
  <2>4. m - 1 \in T
    BY <2>3
  <2> QED BY <1>2, <2>4
<1>4. \A x \in S : m >= x
  BY <1>2
<1> HIDE DEF T
<1>5. Max(S) \in S /\ \A x \in S : Max(S) >= x
  BY <1>3, <1>4 DEF Max
<1> QED BY <1>5

LEMMA LastOfIs ==
  ASSUME NEW n \in Nat, NEW S \in SUBSET (1..n)
  PROVE  /\ LastOf(S) \in 0..n
         /\ S # {} => LastOf(S) \in S
         /\ \A x \in S : x <= LastOf(S)
<1>1. CASE S = {}
  BY <1>1 DEF LastOf
<1>2. CASE S # {}
  <2>1. S \in SUBSET (0..n)
    OBVIOUS
  <2>2. Max(S) \in S /\ \A x \in S : x <= Max(S)
    BY <1>2, <2>1, MaxIs
  <2>3. LastOf(S) = Max(S)
    BY <1>2 DEF LastOf
  <2> DEFINE m == Max(S)
  <2>4. m \in S /\ \A x \in S : x <= m
    BY <2>2
  <2> HIDE DEF m
  <2>5. m \in 0..n
    BY <2>1, <2>4
  <2> QED BY <2>3, <2>4, <2>5 DEF m
<1> QED BY <1>1, <1>2

LEMMA TailIs ==
  ASSUME NEW S, NEW q \in Seq(S), q # <<>>
  PROVE  /\ Tail(q) \in Seq(S) /\ Len(Tail(q)) = Len(q) - 1
         /\ Len(q) # 1 => Tail(q) # <<>>
         /\ \A i \in 1..Len(Tail(q)) : Tail(q)[i] = q[i + 1] /\ i + 1 \in 1..Len(q)
<1>1. Len(q) \in Nat /\ Len(q) # 0
  OBVIOUS
<1>2. Tail(q) \in Seq(S) /\ Len(Tail(q)) = Len(q) - 1
  OBVIOUS
<1>3. \A i \in 1..Len(Tail(q)) : Tail(q)[i] = q[i + 1]
  OBVIOUS
<1>4. Len(q) # 1 => Len(Tail(q)) # 0
  BY <1>1, <1>2
<1>5. Len(q) # 1 => Tail(q) # <<>>
  BY <1>4
<1> QED BY <1>1, <1>2, <1>3, <1>5
-----------------------------------------------------------------------------
(* Paths *)

LEMMA PathsExist ==
  ASSUME NEW p, Rows(p)
  PROVE  PathsOf(p) = [t \in 0..Len(p) |-> IF t = 0 THEN {} ELSE {t} \cup PathsOf(p)[p[t]]]
<1> DEFINE Upto(n, g) == g = [t \in 0..n |-> IF t = 0 THEN {} ELSE {t} \cup g[p[t]]]
           Bad == {n \in 0..Len(p) : ~ \E g : Upto(n, g)}
<1>0. Len(p) \in Nat /\ \A t \in 1..Len(p) : p[t] \in 0..(t - 1)
  BY DEF Rows
<1>1. Bad = {}
  <2> SUFFICES ASSUME Bad # {} PROVE FALSE
    OBVIOUS
  <2>0. Bad \in SUBSET Nat /\ \A n \in Bad : n \in 0..Len(p) /\ ~ \E g : Upto(n, g)
    BY <1>0
  <2>4. \A n \in 0..Len(p) : n \notin Bad => \E g : Upto(n, g)
    OBVIOUS
  <2> HIDE DEF Bad
  <2>1. PICK m \in Bad : \A x \in Bad : m <= x
    BY <2>0, LeastNat
  <2>2. m \in 0..Len(p) /\ ~ \E g : Upto(m, g)
    BY <2>0
  <2>3. CASE m = 0
    <3>1. Upto(0, [t \in 0..0 |-> {}])
      OBVIOUS
    <3> QED BY <2>2, <2>3, <3>1
  <2>5. CASE m # 0
    <3>1. m - 1 \in 0..Len(p) /\ m - 1 \notin Bad
      BY <1>0, <2>1, <2>2, <2>5
    <3>2. PICK g : Upto(m - 1, g)
      BY <2>4, <3>1
    <3> DEFINE h == [t \in 0..m |-> IF t = m THEN {m} \cup g[p[m]] ELSE g[t]]
    <3>3. \A t \in 0..(m - 1) : h[t] = g[t] /\ g[t] = IF t = 0 THEN {} ELSE {t} \cup g[p[t]]
      <4> TAKE t \in 0..(m - 1)
      <4>1. t \in 0..m /\ t # m
        BY <2>2
      <4>2. h[t] = g[t]
        BY <4>1
      <4> DEFINE G == [x \in 0..(m - 1) |-> IF x = 0 THEN {} ELSE {x} \cup g[p[x]]]
      <4>3. g = G
        BY <3>2
      <4>4. G[t] = IF t = 0 THEN {} ELSE {t} \cup g[p[t]]
        OBVIOUS
      <4> HIDE DEF G, h
      <4> QED BY <4>2, <4>3, <4>4
    <3>4. \A t \in 1..m : p[t] \in 0..(m - 1) /\ h[p[t]] = g[p[t]]
      BY <1>0, <2>2, <3>3
    <3>5. \A t \in 0..m : h[t] = IF t = 0 THEN {} ELSE {t} \cup h[p[t]]
      <4> TAKE t \in 0..m
      <4>1. CASE t = m
        BY <2>2, <2>5, <3>4, <4>1
      <4>2. CASE t # m
        <5>1. t \in 0..(m - 1) /\ h[t] = g[t] /\ g[t] = IF t = 0 THEN {} ELSE {t} \cup g[p[t]]
          <6>1. t \in 0..(m - 1)
            BY <2>2, <4>2
          <6> QED BY <3>3, <6>1
        <5>2. t # 0 => h[p[t]] = g[p[t]]
          BY <2>2, <3>4
        <5> QED BY <5>1, <5>2
      <4> QED BY <4>1, <4>2
    <3>6. Upto(m, h)
      BY <3>5
    <3> HIDE DEF h
    <3> QED BY <2>2, <3>6
  <2> QED BY <2>3, <2>5
<1>2. \E g : Upto(Len(p), g)
  <2>1. Len(p) \in 0..Len(p)
    BY <1>0
  <2> SUFFICES ASSUME ~ \E g : Upto(Len(p), g) PROVE FALSE
    OBVIOUS
  <2>2. Len(p) \in Bad
    BY <2>1
  <2> HIDE DEF Bad
  <2> QED BY <1>1, <2>2
<1>3. \E g : g = [t \in 0..Len(p) |-> IF t = 0 THEN {} ELSE {t} \cup g[p[t]]]
  BY <1>2
<1> QED BY <1>3 DEF PathsOf

(* The equations of a path, and where it lies. *)
LEMMA PathFacts ==
  ASSUME NEW p, Rows(p)
  PROVE  /\ PathsOf(p)[0] = {}
         /\ \A t \in 1..Len(p) : PathsOf(p)[t] = {t} \cup PathsOf(p)[p[t]]
<1> DEFINE P == PathsOf(p)
           F == [t \in 0..Len(p) |-> IF t = 0 THEN {} ELSE {t} \cup P[p[t]]]
<1>1. P = F /\ Len(p) \in Nat
  BY PathsExist DEF Rows
<1>2. \A t \in 0..Len(p) : F[t] = IF t = 0 THEN {} ELSE {t} \cup P[p[t]]
  OBVIOUS
<1> HIDE DEF P, F
<1>3. \A t \in 0..Len(p) : P[t] = IF t = 0 THEN {} ELSE {t} \cup P[p[t]]
  BY <1>1, <1>2, Zenon
<1>4. 0 \in 0..Len(p) /\ \A t \in 1..Len(p) : t \in 0..Len(p) /\ t # 0
  BY <1>1
<1> HIDE DEF P
<1>5. P[0] = {} /\ \A t \in 1..Len(p) : P[t] = {t} \cup P[p[t]]
  BY <1>3, <1>4, Zenon
<1> QED BY <1>5 DEF P

(* A path runs down from its turn. *)
LEMMA PathBelow ==
  ASSUME NEW p, Rows(p), NEW t \in 0..Len(p)
  PROVE  /\ PathsOf(p)[t] \subseteq 1..t
         /\ t # 0 => t \in PathsOf(p)[t]
<1> DEFINE P == PathsOf(p)
           Bad == {x \in 0..Len(p) : ~(P[x] \subseteq 1..x)}
<1>1. /\ P[0] = {} /\ \A x \in 1..Len(p) : P[x] = {x} \cup P[p[x]]
      /\ Len(p) \in Nat /\ \A x \in 1..Len(p) : p[x] \in 0..(x - 1)
  BY PathFacts DEF Rows
<1> HIDE DEF P
<1>2. Bad = {}
  <2> SUFFICES ASSUME Bad # {} PROVE FALSE
    OBVIOUS
  <2>1. Bad \in SUBSET Nat
    BY <1>1
  <2>2. PICK m \in Bad : \A x \in Bad : m <= x
    BY <2>1, LeastNat
  <2>3. m \in 1..Len(p)
    BY <1>1
  <2>4. p[m] \in 0..Len(p) /\ p[m] < m
    BY <1>1, <2>3
  <2>5. P[p[m]] \subseteq 1..p[m]
    BY <2>2, <2>3, <2>4
  <2>6. P[m] \subseteq 1..m
    BY <1>1, <2>3, <2>4, <2>5
  <2> QED BY <2>2, <2>6
<1>3. P[t] \subseteq 1..t
  BY <1>2
<1> QED BY <1>1, <1>3 DEF P

(* It is closed under ancestors. *)
LEMMA PathClosed ==
  ASSUME NEW p, Rows(p), NEW t \in 0..Len(p), NEW u \in PathsOf(p)[t]
  PROVE  PathsOf(p)[u] \subseteq PathsOf(p)[t]
<1> DEFINE P == PathsOf(p)
           Bad == {x \in 0..Len(p) : \E y \in P[x] : ~(P[y] \subseteq P[x])}
<1>1. /\ P[0] = {} /\ \A x \in 1..Len(p) : P[x] = {x} \cup P[p[x]]
      /\ Len(p) \in Nat /\ \A x \in 1..Len(p) : p[x] \in 0..(x - 1)
  BY PathFacts DEF Rows
<1> HIDE DEF P
<1>2. Bad = {}
  <2> SUFFICES ASSUME Bad # {} PROVE FALSE
    OBVIOUS
  <2>1. Bad \in SUBSET Nat
    BY <1>1
  <2>2. PICK m \in Bad : \A x \in Bad : m <= x
    BY <2>1, LeastNat
  <2>3. m \in 0..Len(p) /\ m # 0
    BY <1>1
  <2>4. p[m] \in 0..Len(p) /\ p[m] < m /\ P[m] = {m} \cup P[p[m]]
    BY <1>1, <2>3
  <2>5. \A y \in P[p[m]] : P[y] \subseteq P[p[m]]
    BY <2>2, <2>3, <2>4
  <2>6. \A y \in P[m] : P[y] \subseteq P[m]
    BY <2>4, <2>5
  <2> QED BY <2>2, <2>6
<1>3. \A y \in P[t] : P[y] \subseteq P[t]
  BY <1>2
<1> QED BY <1>3 DEF P

(* It is a chain: the lower of two turns on it is an ancestor of the other. *)
LEMMA PathChain ==
  ASSUME NEW p, Rows(p), NEW t \in 0..Len(p),
         NEW u \in PathsOf(p)[t], NEW v \in PathsOf(p)[t], u <= v
  PROVE  u \in PathsOf(p)[v]
<1> DEFINE P == PathsOf(p)
           Bad == {x \in 0..Len(p) : \E y, z \in P[x] : y <= z /\ y \notin P[z]}
<1>1. /\ P[0] = {} /\ \A x \in 1..Len(p) : P[x] = {x} \cup P[p[x]]
      /\ Len(p) \in Nat /\ \A x \in 1..Len(p) : p[x] \in 0..(x - 1)
      /\ \A x \in 0..Len(p) : P[x] \subseteq 1..x
  BY PathFacts, PathBelow DEF Rows
<1> HIDE DEF P
<1>2. Bad = {}
  <2> SUFFICES ASSUME Bad # {} PROVE FALSE
    OBVIOUS
  <2>1. Bad \in SUBSET Nat
    BY <1>1
  <2>2. PICK m \in Bad : \A x \in Bad : m <= x
    BY <2>1, LeastNat
  <2>3. m \in 0..Len(p) /\ m # 0
    BY <1>1
  <2>4. p[m] \in 0..Len(p) /\ p[m] < m /\ P[m] = {m} \cup P[p[m]] /\ P[p[m]] \subseteq 1..p[m]
    BY <1>1, <2>3
  <2>5. \A y, z \in P[p[m]] : y <= z => y \in P[z]
    BY <2>2, <2>3, <2>4
  <2>6. \A y, z \in P[m] : y <= z => y \in P[z]
    <3> TAKE y, z \in P[m]
    <3> HAVE y <= z
    <3>1. CASE z = m
      BY <3>1
    <3>2. CASE z # m
      <4>1. z \in P[p[m]] /\ z <= p[m]
        BY <2>4, <3>2
      <4>2. y # m
        BY <2>3, <2>4, <4>1
      <4> QED BY <2>4, <2>5, <4>1, <4>2
    <3> QED BY <3>1, <3>2
  <2> QED BY <2>2, <2>6
<1>3. \A y, z \in P[t] : y <= z => y \in P[z]
  BY <1>2
<1> QED BY <1>3 DEF P

(* Every turn of a path but the last is the previous turn of another one. *)
LEMMA PathChild ==
  ASSUME NEW p, Rows(p), NEW t \in 0..Len(p), NEW u \in PathsOf(p)[t], u # t
  PROVE  \E c \in PathsOf(p)[t] : p[c] = u
<1> DEFINE P == PathsOf(p)
           Bad == {x \in 0..Len(p) : \E y \in P[x] : y # x /\ ~ \E c \in P[x] : p[c] = y}
<1>1. /\ P[0] = {} /\ \A x \in 1..Len(p) : P[x] = {x} \cup P[p[x]]
      /\ Len(p) \in Nat /\ \A x \in 1..Len(p) : p[x] \in 0..(x - 1)
  BY PathFacts DEF Rows
<1> HIDE DEF P
<1>2. Bad = {}
  <2> SUFFICES ASSUME Bad # {} PROVE FALSE
    OBVIOUS
  <2>1. Bad \in SUBSET Nat
    BY <1>1
  <2>2. PICK m \in Bad : \A x \in Bad : m <= x
    BY <2>1, LeastNat
  <2>3. m \in 0..Len(p) /\ m # 0
    BY <1>1
  <2>4. p[m] \in 0..Len(p) /\ p[m] < m /\ P[m] = {m} \cup P[p[m]]
    BY <1>1, <2>3
  <2>5. \A y \in P[p[m]] : y # p[m] => \E c \in P[p[m]] : p[c] = y
    BY <2>2, <2>3, <2>4
  <2>6. \A y \in P[m] : y # m => \E c \in P[m] : p[c] = y
    BY <2>4, <2>5
  <2> QED BY <2>2, <2>6
<1>3. \A y \in P[t] : y # t => \E c \in P[t] : p[c] = y
  BY <1>2
<1> QED BY <1>3 DEF P

(* A new turn leaves the paths there were. *)
LEMMA PathAppend ==
  ASSUME NEW p, Rows(p), NEW x \in 0..Len(p)
  PROVE  /\ Rows(Append(p, x)) /\ Len(Append(p, x)) = Len(p) + 1
         /\ \A t \in 0..Len(p) : PathsOf(Append(p, x))[t] = PathsOf(p)[t]
         /\ PathsOf(Append(p, x))[Len(p) + 1] = {Len(p) + 1} \cup PathsOf(p)[x]
<1> DEFINE q == Append(p, x)
           P == PathsOf(p)
           Q == PathsOf(q)
           Bad == {t \in 0..Len(p) : Q[t] # P[t]}
<1>0. Len(p) \in Nat /\ p \in Seq(Nat)
  BY DEF Rows
<1>1. /\ q \in Seq(Nat) /\ Len(q) = Len(p) + 1 /\ q[Len(p) + 1] = x
      /\ \A t \in 1..Len(p) : q[t] = p[t]
  BY <1>0
<1> HIDE DEF q
<1>2. Rows(q)
  BY <1>0, <1>1 DEF Rows
<1>3. /\ P[0] = {} /\ \A t \in 1..Len(p) : P[t] = {t} \cup P[p[t]]
      /\ Q[0] = {} /\ \A t \in 1..Len(q) : Q[t] = {t} \cup Q[q[t]]
      /\ \A t \in 1..Len(p) : p[t] \in 0..(t - 1)
  <2>1. P[0] = {} /\ \A t \in 1..Len(p) : P[t] = {t} \cup P[p[t]]
    BY PathFacts
  <2>2. Q[0] = {} /\ \A t \in 1..Len(q) : Q[t] = {t} \cup Q[q[t]]
    BY <1>2, PathFacts
  <2>3. \A t \in 1..Len(p) : p[t] \in 0..(t - 1)
    BY <1>0 DEF Rows
  <2> QED BY <2>1, <2>2, <2>3
<1> HIDE DEF P, Q
<1>4. Bad = {}
  <2> SUFFICES ASSUME Bad # {} PROVE FALSE
    OBVIOUS
  <2>1. Bad \in SUBSET Nat
    BY <1>0
  <2>2. PICK m \in Bad : \A t \in Bad : m <= t
    BY <2>1, LeastNat
  <2>3. m \in 0..Len(p) /\ m # 0
    BY <1>3
  <2>4. p[m] \in 0..Len(p) /\ p[m] < m /\ q[m] = p[m] /\ P[m] = {m} \cup P[p[m]]
    BY <1>1, <1>3, <2>3
  <2>5. Q[m] = {m} \cup Q[p[m]]
    BY <1>1, <1>3, <2>3, <2>4
  <2>6. Q[p[m]] = P[p[m]]
    BY <2>2, <2>3, <2>4
  <2> QED BY <2>2, <2>4, <2>5, <2>6
<1>5. Q[Len(p) + 1] = {Len(p) + 1} \cup P[x]
  <2>1. Q[Len(p) + 1] = {Len(p) + 1} \cup Q[q[Len(p) + 1]]
    BY <1>0, <1>1, <1>3
  <2>2. Q[x] = P[x]
    BY <1>4
  <2> QED BY <1>1, <2>1, <2>2
<1>6. \A t \in 0..Len(p) : Q[t] = P[t]
  BY <1>4
<1> QED BY <1>1, <1>2, <1>5, <1>6 DEF P, Q, q
-----------------------------------------------------------------------------
(* Exchanges *)

Before(S, e) == {d \in BuildExchanges(S) : Max(d) < Max(e)}
ReadySet(S) ==
  {e \in BuildExchanges(S) :
     /\ \A d \in Before(S, e) \cup {e} : IsReady(S, d)
     /\ Cardinality(Before(S, e)) < MaxExchanges}

LEMMA ReadyExchangesAre ==
  ASSUME NEW S
  PROVE  ReadyExchanges(S) =
           [i \in 1..Cardinality(ReadySet(S)) |->
              CHOOSE e \in ReadySet(S) : Cardinality(Before(S, e)) = i - 1]
BY DEF ReadyExchanges, ReadySet, Before

(* An exchange is a part of its turns that begins where one starts and     *)
(* contains no other start.                                                *)
LEMMA ExchangeIs ==
  ASSUME NEW n \in Nat, NEW S \in SUBSET (1..n), NEW e \in BuildExchanges(S)
  PROVE  /\ e \subseteq S /\ e # {}
         /\ Max(e) \in e /\ \A x \in e : x <= Max(e)
         /\ \E s \in e : /\ StartsExchange(S, s)
                         /\ \A x \in e : s <= x /\ (x # s => ~StartsExchange(S, x))
                         /\ e = ExchangeFrom(S, s)
<1>1. PICK s \in S : StartsExchange(S, s) /\ e = ExchangeFrom(S, s)
  BY DEF BuildExchanges
<1>2. /\ s \in e /\ e \subseteq S
      /\ \A x \in e : s <= x /\ (x # s => ~StartsExchange(S, x))
  BY <1>1 DEF ExchangeFrom
<1>3. e \in SUBSET (0..n)
  BY <1>2
<1> QED BY <1>1, <1>2, <1>3, MaxIs

LEMMA ExchangeEnd ==
  ASSUME NEW n \in Nat, NEW S \in SUBSET (1..n), NEW e \in BuildExchanges(S)
  PROVE  Max(e) \in 1..n /\ Max(e) \in Nat
<1> DEFINE m == Max(e)
<1>1. e \subseteq S /\ m \in e
  BY ExchangeIs
<1> HIDE DEF m
<1>2. m \in 1..n
  BY <1>1
<1> QED BY <1>2 DEF m

(* Of two exchanges one lies before the other. *)
LEMMA ExchangesApart ==
  ASSUME NEW n \in Nat, NEW S \in SUBSET (1..n),
         NEW d \in BuildExchanges(S), NEW e \in BuildExchanges(S), Max(d) <= Max(e)
  PROVE  d = e \/ (Max(d) < Max(e) /\ \A x \in d, y \in e : x < y)
<1>0. \A x \in BuildExchanges(S) :
        \E s \in x : /\ StartsExchange(S, s) /\ x = ExchangeFrom(S, s)
                     /\ \A y \in x : s <= y
  <2> TAKE x \in BuildExchanges(S)
  <2>1. PICK s \in x : /\ StartsExchange(S, s)
                       /\ \A y \in x : s <= y /\ (y # s => ~StartsExchange(S, y))
                       /\ x = ExchangeFrom(S, s)
    BY ExchangeIs
  <2> QED BY <2>1
<1>1. PICK s \in d : /\ StartsExchange(S, s) /\ d = ExchangeFrom(S, s)
                     /\ \A x \in d : s <= x
  BY <1>0
<1>2. PICK r \in e : /\ StartsExchange(S, r) /\ e = ExchangeFrom(S, r)
                     /\ \A x \in e : r <= x
  BY <1>0
<1>3. d \subseteq S /\ e \subseteq S /\ Max(d) \in d /\ Max(e) \in e
  BY ExchangeIs
<1>4. ASSUME s < r PROVE \A x \in d, y \in e : x < y
  <2> TAKE x \in d, y \in e
  <2>1. ~(r <= x)
    BY <1>1, <1>2, <1>3, <1>4 DEF ExchangeFrom
  <2>2. x \in Nat /\ y \in Nat /\ r \in Nat /\ r <= y
    BY <1>2, <1>3
  <2> QED BY <2>1, <2>2
<1>5. ASSUME r < s PROVE FALSE
  <2>1. ~(s <= Max(e))
    BY <1>1, <1>2, <1>3, <1>5 DEF ExchangeFrom
  <2>2. Max(d) \in 1..n /\ Max(e) \in 1..n /\ s \in 1..n
    BY <1>3
  <2>3. s <= Max(d)
    BY <1>1, <1>3
  <2> QED BY <2>1, <2>2, <2>3
<1>6. s \in Nat /\ r \in Nat
  BY <1>3
<1>7. CASE s = r
  BY <1>1, <1>2, <1>7
<1>8. CASE s < r
  BY <1>3, <1>4, <1>8
<1> QED BY <1>5, <1>6, <1>7, <1>8

(* Every turn is in an exchange. *)
LEMMA ExchangesCover ==
  ASSUME NEW n \in Nat, NEW S \in SUBSET (1..n), NEW t \in S
  PROVE  \E e \in BuildExchanges(S) : t \in e
<1> DEFINE Starts == {s \in S : s <= t /\ StartsExchange(S, s)}
<1>1. Starts # {}
  <2>1. S \in SUBSET Nat /\ S # {}
    OBVIOUS
  <2>2. PICK m \in S : \A x \in S : m <= x
    BY <2>1, LeastNat
  <2>3. m \in Starts
    BY <2>2 DEF StartsExchange
  <2> QED BY <2>3
<1>2. Starts \in SUBSET (0..n)
  <2>1. Starts \subseteq S /\ S \subseteq 1..n /\ 1..n \subseteq 0..n
    OBVIOUS
  <2> HIDE DEF Starts
  <2> QED BY <2>1
<1>3. Max(Starts) \in Starts /\ \A x \in Starts : x <= Max(Starts)
  BY <1>1, <1>2, MaxIs
<1>4. PICK s \in Starts : \A x \in Starts : x <= s
  BY <1>3
<1>5. s \in S /\ s \in Nat /\ s <= t /\ StartsExchange(S, s)
  BY <1>4
<1>6. \A u \in S : s < u /\ u <= t => ~StartsExchange(S, u)
  BY <1>4, <1>5
<1>7. t \in ExchangeFrom(S, s)
  BY <1>5, <1>6 DEF ExchangeFrom
<1> QED BY <1>5, <1>7 DEF BuildExchanges

(* The rank of an exchange is the number of those before it. *)
LEMMA RankIs ==
  ASSUME NEW n \in Nat, NEW S \in SUBSET (1..n)
  PROVE  /\ IsFiniteSet(BuildExchanges(S))
         /\ \A e \in BuildExchanges(S) :
              /\ IsFiniteSet(Before(S, e))
              /\ Cardinality(Before(S, e)) \in Nat
         /\ \A d, e \in BuildExchanges(S) :
              Max(d) < Max(e) => /\ Before(S, d) \subseteq Before(S, e)
                                 /\ Cardinality(Before(S, d)) < Cardinality(Before(S, e))
<1>1. IsFiniteSet(BuildExchanges(S))
  <2>1. IsFiniteSet(S)
    <3>1. IsFiniteSet(1..n)
      BY FS_Interval
    <3> QED BY <3>1, FS_Subset
  <2>2. BuildExchanges(S) \in SUBSET (SUBSET S)
    BY ExchangeIs
  <2> QED BY <2>1, <2>2, FS_SUBSET, FS_Subset
<1>2. \A e \in BuildExchanges(S) : IsFiniteSet(Before(S, e)) /\ Cardinality(Before(S, e)) \in Nat
  <2> TAKE e \in BuildExchanges(S)
  <2>1. Before(S, e) \in SUBSET BuildExchanges(S)
    BY DEF Before
  <2>2. IsFiniteSet(Before(S, e))
    BY <1>1, <2>1, FS_Subset
  <2> QED BY <2>2, FS_CardinalityType
<1>3. ASSUME NEW d \in BuildExchanges(S), NEW e \in BuildExchanges(S), Max(d) < Max(e)
      PROVE  /\ Before(S, d) \subseteq Before(S, e)
             /\ Cardinality(Before(S, d)) < Cardinality(Before(S, e))
  <2>0. \A x \in BuildExchanges(S) : Max(x) \in Nat
    BY ExchangeEnd
  <2>1. Before(S, d) \subseteq Before(S, e) /\ d \in Before(S, e) /\ d \notin Before(S, d)
    BY <1>3, <2>0 DEF Before
  <2>2. Cardinality(Before(S, d)) <= Cardinality(Before(S, e))
        /\ (Cardinality(Before(S, d)) = Cardinality(Before(S, e)) => Before(S, d) = Before(S, e))
    BY <1>2, <2>1, FS_Subset
  <2> QED BY <1>2, <2>1, <2>2
<1> QED BY <1>1, <1>2, <1>3

LEMMA SameRank ==
  ASSUME NEW n \in Nat, NEW S \in SUBSET (1..n),
         NEW d \in BuildExchanges(S), NEW e \in BuildExchanges(S),
         Cardinality(Before(S, d)) = Cardinality(Before(S, e))
  PROVE  d = e
<1>1. Max(d) \in Nat /\ Max(e) \in Nat /\ Cardinality(Before(S, d)) \in Nat
  BY ExchangeEnd, RankIs
<1>2. Max(d) < Max(e) => Cardinality(Before(S, d)) < Cardinality(Before(S, e))
  BY RankIs
<1>3. Max(e) < Max(d) => Cardinality(Before(S, e)) < Cardinality(Before(S, d))
  BY RankIs
<1>4. Max(d) = Max(e)
  BY <1>1, <1>2, <1>3
<1>5. Max(d) <= Max(e) /\ ~(Max(d) < Max(e))
  BY <1>1, <1>4
<1> QED BY <1>5, ExchangesApart

(* Every rank below their number is that of a ready exchange. *)
LEMMA RanksFilled ==
  ASSUME NEW n \in Nat, NEW S \in SUBSET (1..n)
  PROVE  /\ IsFiniteSet(ReadySet(S)) /\ Cardinality(ReadySet(S)) \in Nat
         /\ \A e \in ReadySet(S) : Cardinality(Before(S, e)) < Cardinality(ReadySet(S))
         /\ \A i \in 1..Cardinality(ReadySet(S)) :
              \E e \in ReadySet(S) : Cardinality(Before(S, e)) = i - 1
<1> DEFINE C == ReadySet(S)
           k == Cardinality(C)
           f == [e \in C |-> Cardinality(Before(S, e))]
<1>1. C \subseteq BuildExchanges(S)
  BY DEF ReadySet
<1>2. IsFiniteSet(C) /\ k \in Nat
  <2>1. IsFiniteSet(BuildExchanges(S))
    BY RankIs
  <2>2. IsFiniteSet(C)
    BY <1>1, <2>1, FS_Subset
  <2> QED BY <2>2, FS_CardinalityType
<1>3. ASSUME NEW e \in C PROVE Cardinality(Before(S, e)) \in 0..(k - 1)
  <2>1. Before(S, e) \subseteq C
    <3> SUFFICES ASSUME NEW d \in Before(S, e) PROVE d \in ReadySet(S)
      OBVIOUS
    <3>1. d \in BuildExchanges(S) /\ Max(d) < Max(e) /\ e \in BuildExchanges(S)
      BY <1>1 DEF Before
    <3>2. Before(S, d) \subseteq Before(S, e) /\ Cardinality(Before(S, d)) < Cardinality(Before(S, e))
      BY <3>1, RankIs
    <3>3. \A x \in Before(S, d) \cup {d} : IsReady(S, x)
      BY <3>2 DEF ReadySet
    <3>4. Cardinality(Before(S, d)) < MaxExchanges
      <4>1. Cardinality(Before(S, e)) < MaxExchanges
        BY DEF ReadySet
      <4>2. Cardinality(Before(S, d)) \in Nat /\ Cardinality(Before(S, e)) \in Nat /\ MaxExchanges \in Nat
        BY <3>1, RankIs, IngestAssumption
      <4> QED BY <3>2, <4>1, <4>2
    <3> QED BY <3>1, <3>3, <3>4 DEF ReadySet
  <2>2. e \notin Before(S, e)
    <3>1. Max(e) \in Nat
      BY <1>1, ExchangeEnd
    <3> QED BY <3>1 DEF Before
  <2>3. Before(S, e) \in SUBSET C
    BY <2>1
  <2> HIDE DEF C
  <2>4. Cardinality(Before(S, e)) <= k /\ Cardinality(Before(S, e)) # k
    BY <1>2, <2>2, <2>3, FS_Subset
  <2>5. Cardinality(Before(S, e)) \in Nat
    BY <1>1, RankIs
  <2> HIDE DEF k
  <2> QED BY <1>2, <2>4, <2>5
<1>4. f \in Injection(C, 0..(k - 1))
  <2>1. f \in [C -> 0..(k - 1)]
    BY <1>3
  <2>2. ASSUME NEW d \in C, NEW e \in C, f[d] = f[e] PROVE d = e
    <3>1. d \in BuildExchanges(S) /\ e \in BuildExchanges(S)
      BY <1>1
    <3>2. Cardinality(Before(S, d)) = Cardinality(Before(S, e))
      BY <2>2
    <3> QED BY <3>1, <3>2, SameRank
  <2> QED BY <2>1, <2>2 DEF Injection, IsInjective
<1> HIDE DEF C, f
<1>5. f \in Surjection(C, 0..(k - 1))
  <2>1. 0 \in Int /\ k - 1 \in Int
    BY <1>2
  <2>2. IsFiniteSet(0..(k - 1)) /\ Cardinality(0..(k - 1)) = k
    BY <1>2, <2>1, FS_Interval
  <2> QED BY <1>2, <1>4, <2>2, FS_Injection
<1>6. \A i \in 1..k : \E e \in C : f[e] = i - 1
  <2> TAKE i \in 1..k
  <2>1. i - 1 \in 0..(k - 1)
    BY <1>2
  <2> QED BY <1>5, <2>1 DEF Surjection
<1>7. \A e \in C : f[e] = Cardinality(Before(S, e))
  BY DEF f
<1>8. \A e \in C : Cardinality(Before(S, e)) < k
  BY <1>2, <1>3
<1> QED BY <1>2, <1>6, <1>7, <1>8 DEF C

(* The queue of a pass: ready exchanges, from the first on, in order and   *)
(* without a gap.                                                          *)
LEMMA QueueIs ==
  ASSUME NEW n \in Nat, NEW S \in SUBSET (1..n), NEW R, R = ReadyExchanges(S)
  PROVE  /\ R \in Seq(SUBSET Nat) /\ Len(R) = Cardinality(ReadySet(S))
         /\ \A i \in 1..Len(R) : R[i] \in ReadySet(S) /\ R[i] \in BuildExchanges(S)
         /\ \A i \in 1..Len(R), e \in BuildExchanges(S) :
              Max(e) <= Max(R[i]) => \E j \in 1..i : R[j] = e
         /\ \A i, j \in 1..Len(R) : i < j => \A x \in R[i], y \in R[j] : x < y
<1> DEFINE C == ReadySet(S)
           k == Cardinality(C)
<1>1. R = [i \in 1..k |-> CHOOSE e \in C : Cardinality(Before(S, e)) = i - 1]
  BY ReadyExchangesAre
<1>2. k \in Nat /\ C \subseteq BuildExchanges(S)
  BY RanksFilled DEF ReadySet
<1>3. ASSUME NEW i \in 1..k
      PROVE  R[i] \in C /\ R[i] \in BuildExchanges(S) /\ Cardinality(Before(S, R[i])) = i - 1
  <2>1. \E e \in C : Cardinality(Before(S, e)) = i - 1
    BY RanksFilled
  <2>2. R[i] = CHOOSE e \in C : Cardinality(Before(S, e)) = i - 1
    BY <1>1
  <2> QED BY <1>2, <2>1, <2>2
<1> HIDE DEF C
<1>4. R \in Seq(SUBSET Nat) /\ Len(R) = k
  <2>1. \A i \in 1..k : R[i] \in SUBSET Nat
    <3> TAKE i \in 1..k
    <3>1. R[i] \subseteq S
      BY <1>3, ExchangeIs
    <3> QED BY <3>1
  <2>2. R = [i \in 1..k |-> R[i]]
    BY <1>1
  <2>3. R \in [1..k -> SUBSET Nat]
    BY <2>1, <2>2
  <2> QED BY <1>2, <2>3
<1>5. \A e \in BuildExchanges(S) : e \subseteq S /\ Max(e) \in e /\ Max(e) \in Nat
  BY ExchangeIs, ExchangeEnd
<1>6. ASSUME NEW i \in 1..k, NEW e \in BuildExchanges(S), Max(e) <= Max(R[i])
      PROVE  \E j \in 1..i : R[j] = e
  <2>1. CASE e = R[i]
    BY <2>1
  <2>2. CASE e # R[i]
    <3>1. Max(e) < Max(R[i])
      BY <1>3, <1>6, <2>2, ExchangesApart
    <3>2. e \in Before(S, R[i]) /\ Before(S, e) \subseteq Before(S, R[i])
          /\ Cardinality(Before(S, e)) < Cardinality(Before(S, R[i]))
          /\ Cardinality(Before(S, e)) \in Nat
      BY <1>3, <3>1, RankIs DEF Before
    <3>3. e \in C
      <4>1. \A d \in Before(S, e) \cup {e} : IsReady(S, d)
        BY <1>3, <3>2 DEF C, ReadySet
      <4>2. Cardinality(Before(S, R[i])) < MaxExchanges
        BY <1>3 DEF C, ReadySet
      <4>3. MaxExchanges \in Nat
        BY IngestAssumption
      <4>4. Cardinality(Before(S, e)) < MaxExchanges
        BY <1>3, <3>2, <4>2, <4>3
      <4> QED BY <4>1, <4>4 DEF C, ReadySet
    <3> DEFINE j == Cardinality(Before(S, e)) + 1
    <3>4. j \in 1..i /\ j \in 1..k /\ j - 1 = Cardinality(Before(S, e))
      BY <1>2, <1>3, <3>2
    <3>5. R[j] \in BuildExchanges(S) /\ Cardinality(Before(S, R[j])) = Cardinality(Before(S, e))
      BY <1>3, <3>4
    <3>6. R[j] = e
      BY <3>5, SameRank
    <3> QED BY <3>4, <3>6
  <2> QED BY <2>1, <2>2
<1>7. ASSUME NEW i \in 1..k, NEW j \in 1..k, i < j
      PROVE  \A x \in R[i], y \in R[j] : x < y
  <2>1. R[i] \in BuildExchanges(S) /\ R[j] \in BuildExchanges(S)
        /\ Cardinality(Before(S, R[i])) = i - 1 /\ Cardinality(Before(S, R[j])) = j - 1
    BY <1>3
  <2>2. R[i] # R[j]
    BY <1>7, <2>1
  <2>3. ~(Max(R[j]) < Max(R[i]))
    <3>1. Max(R[j]) < Max(R[i]) => j - 1 < i - 1
      BY <2>1, RankIs
    <3> QED BY <1>7, <3>1
  <2>4. Max(R[i]) <= Max(R[j])
    BY <1>5, <2>1, <2>3
  <2> QED BY <2>1, <2>2, <2>4, ExchangesApart
<1> QED BY <1>3, <1>4, <1>6, <1>7 DEF C

(* It holds every ready exchange. *)
LEMMA QueueHolds ==
  ASSUME NEW n \in Nat, NEW S \in SUBSET (1..n), NEW e \in ReadySet(S)
  PROVE  \E i \in 1..Len(ReadyExchanges(S)) : ReadyExchanges(S)[i] = e
<1> DEFINE k == Cardinality(ReadySet(S))
           i == Cardinality(Before(S, e)) + 1
           R == ReadyExchanges(S)
<1>1. e \in BuildExchanges(S) /\ Cardinality(Before(S, e)) \in Nat
      /\ Cardinality(Before(S, e)) < k /\ k \in Nat
  BY RanksFilled, RankIs DEF ReadySet
<1>2. i \in 1..k /\ i - 1 = Cardinality(Before(S, e))
  BY <1>1
<1>3. R = [j \in 1..k |-> CHOOSE d \in ReadySet(S) : Cardinality(Before(S, d)) = j - 1]
  BY ReadyExchangesAre
<1>4. Len(R) = k
  BY QueueIs
<1>5. R[i] = CHOOSE d \in ReadySet(S) : Cardinality(Before(S, d)) = i - 1
  BY <1>2, <1>3
<1>6. R[i] \in ReadySet(S) /\ Cardinality(Before(S, R[i])) = Cardinality(Before(S, e))
  BY <1>2, <1>5
<1>7. R[i] = e
  BY <1>1, <1>6, SameRank DEF ReadySet
<1> QED BY <1>2, <1>4, <1>7
-----------------------------------------------------------------------------
(* The invariants *)

States == {"running", "done", "failed", "paused"}
Working == pass \in {"send", "save", "fail"}
Paths == PathsOf(prev)

RowsInv ==
  /\ Rows(prev) /\ Len(prev) <= MaxTurns /\ tip = Len(prev)
  /\ input \in Seq(Inputs) /\ Len(input) = tip
  /\ state \in Seq(States) /\ Len(state) = tip
  /\ times \in Seq(Nat) /\ Len(times) = tip
  /\ age \in Nat /\ idle \in Nat /\ idle <= age /\ age <= Gone

PassTyped ==
  /\ cursor \in [turn : Nat, thread : Nat, error : BOOLEAN]
  /\ local \in [turn : Nat, thread : Nat, hint : BOOLEAN]
  /\ {cursor.turn, local.turn, seen, newest} \subseteq 0..tip
  /\ made \in Nat /\ cursor.thread <= made /\ local.thread <= made
  /\ pass \in {"off", "turns", "send", "save", "fail"}
  /\ queue \in Seq(SUBSET Nat)
  /\ \A i \in 1..Len(queue) : queue[i] \subseteq 1..tip /\ queue[i] # {}
  /\ Working <=> queue # <<>>
  /\ sent \subseteq 1..tip /\ covered \subseteq 1..tip
  /\ {ran, waited, excused, grown} \subseteq BOOLEAN

(* A turn that another one follows has been frozen or had ended. *)
ParentInv == \A t \in 1..tip : prev[t] # 0 => state[prev[t]] # "running"

(* What is sent or queued can no longer change. *)
FinalInv ==
  /\ \A t \in sent : state[t] # "running"
  /\ \A i \in 1..Len(queue) : \A t \in queue[i] : state[t] # "running"

(* The paths to the checkpoint, to the one the pass will write and to the  *)
(* end of each queued exchange are covered, or queued before.              *)
CoverInv ==
  /\ Paths[cursor.turn] \subseteq covered
  /\ Paths[local.turn] \subseteq covered
  /\ \A i \in 1..Len(queue) : \A t \in Paths[Max(queue[i])] :
       t \in covered \/ \E j \in 1..i : t \in queue[j]
  /\ pass = "save" => queue[1] \subseteq covered

IngestInv == RowsInv /\ PassTyped /\ ParentInv /\ FinalInv /\ CoverInv

LEMMA PathsAre == Ancestry = Paths /\ Ancestry' = Paths'
BY DEF Ancestry, Paths, PathsOf

(* A queued exchange ends at one of its turns. *)
LEMMA QueuedEnd ==
  ASSUME RowsInv, PassTyped, NEW i \in 1..Len(queue)
  PROVE  /\ Max(queue[i]) \in queue[i] /\ Max(queue[i]) \in 1..tip
         /\ \A t \in queue[i] : t <= Max(queue[i])
<1>1. tip \in Nat
  BY DEF RowsInv, Rows
<1>2. queue[i] \in SUBSET (0..tip) /\ queue[i] # {} /\ queue[i] \subseteq 1..tip
  BY <1>1 DEF PassTyped
<1>3. Max(queue[i]) \in queue[i] /\ \A t \in queue[i] : t <= Max(queue[i])
  BY <1>1, <1>2, MaxIs
<1> QED BY <1>2, <1>3

LEMMA IngestInit == Init => IngestInv
<1> SUFFICES ASSUME Init PROVE IngestInv
  OBVIOUS
<1>1. Len(<<>>) = 0 /\ \A S : <<>> \in Seq(S)
  OBVIOUS
<1>2. Rows(prev) /\ tip = 0 /\ Len(prev) = 0
  BY <1>1 DEF Init, Rows
<1>3. Paths[0] = {}
  BY <1>2, PathFacts DEF Paths
<1>4. RowsInv
  BY <1>1, <1>2, IngestAssumption DEF Init, RowsInv, Gone
<1>5. PassTyped
  <2>1. /\ cursor \in [turn : Nat, thread : Nat, error : BOOLEAN]
        /\ local \in [turn : Nat, thread : Nat, hint : BOOLEAN]
        /\ {cursor.turn, local.turn, seen, newest} \subseteq 0..tip
        /\ cursor.thread = 0 /\ local.thread = 0 /\ made = 0
    BY <1>2 DEF Init, NoCursor, NoLocal
  <2>2. queue \in Seq(SUBSET Nat) /\ Len(queue) = 0 /\ ~Working /\ queue = <<>>
    BY <1>1 DEF Init, Working
  <2>3. \A i \in 1..Len(queue) : queue[i] \subseteq 1..tip /\ queue[i] # {}
    BY <2>2
  <2>4. pass = "off" /\ sent = {} /\ covered = {} /\ {ran, waited, excused, grown} = {FALSE}
    BY DEF Init
  <2>5. made \in Nat /\ cursor.thread <= made /\ local.thread <= made
    BY <2>1
  <2>6. Working <=> queue # <<>>
    BY <2>2
  <2> QED BY <2>1, <2>2, <2>3, <2>4, <2>5, <2>6 DEF PassTyped
<1>6. ParentInv /\ FinalInv
  BY <1>1, <1>2 DEF Init, ParentInv, FinalInv
<1>7. CoverInv
  BY <1>1, <1>3 DEF Init, CoverInv, NoCursor, NoLocal
<1> QED BY <1>4, <1>5, <1>6, <1>7 DEF IngestInv
-----------------------------------------------------------------------------
(* The session moves *)

LEMMA NewTurnKeeps ==
  ASSUME IngestInv, NEW p \in 0..Len(prev), NEW i \in Inputs, NewTurn(p, i)
  PROVE  /\ IngestInv' /\ tip' = tip + 1
         /\ \A t \in 0..tip : Paths'[t] = Paths[t]
         /\ Paths'[tip + 1] = {tip + 1} \cup Paths[p]
         /\ \A t \in 1..tip : /\ prev'[t] = prev[t] /\ input'[t] = input[t] /\ times'[t] = times[t]
                              /\ state[t] # "running" => state'[t] = state[t]
                              /\ state'[t] \in {state[t], "failed"}
         /\ prev'[tip + 1] = p /\ input'[tip + 1] = i /\ times'[tip + 1] = 0
<1> DEFINE frozen == [t \in Turns |-> IF t = p /\ state[t] = "running" THEN "failed" ELSE state[t]]
<1>1. /\ Rows(prev) /\ tip = Len(prev) /\ tip \in Nat /\ prev \in Seq(Nat)
      /\ input \in Seq(Inputs) /\ Len(input) = tip
      /\ state \in Seq(States) /\ Len(state) = tip
      /\ times \in Seq(Nat) /\ Len(times) = tip
      /\ Turns = 1..tip
  BY DEF IngestInv, RowsInv, Rows, Turns
<1>2. /\ prev' = Append(prev, p) /\ input' = Append(input, i) /\ times' = Append(times, 0)
      /\ state' = Append(frozen, "running")
      /\ tip' = tip + 1 /\ age' = 0 /\ idle' = 0 /\ Len(prev) < MaxTurns
      /\ UNCHANGED <<cursor, pass, seen, waited, queue, local, ran, sent, newest, made, covered>>
  BY <1>1 DEF NewTurn, passVars
<1>3. frozen \in Seq(States) /\ Len(frozen) = tip
      /\ \A t \in 1..tip : /\ frozen[t] \in {state[t], "failed"}
                           /\ state[t] # "running" => frozen[t] = state[t]
                           /\ t = p => frozen[t] # "running"
  <2>1. \A t \in 1..tip : state[t] \in States
    BY <1>1
  <2>2. frozen \in [1..tip -> States]
    BY <1>1, <2>1 DEF States
  <2> QED BY <1>1, <2>2
<1> HIDE DEF frozen
<1>4. /\ Rows(prev') /\ Len(prev') = tip + 1
      /\ \A t \in 0..tip : Paths'[t] = Paths[t]
      /\ Paths'[tip + 1] = {tip + 1} \cup Paths[p]
  BY <1>1, <1>2, PathAppend DEF Paths
<1>5. /\ \A t \in 1..tip : /\ prev'[t] = prev[t] /\ input'[t] = input[t] /\ times'[t] = times[t]
                           /\ state'[t] = frozen[t]
      /\ prev'[tip + 1] = p /\ input'[tip + 1] = i /\ times'[tip + 1] = 0
      /\ state'[tip + 1] = "running"
  <2>1. /\ prev' = Append(prev, p) /\ input' = Append(input, i) /\ times' = Append(times, 0)
        /\ state' = Append(frozen, "running")
    BY <1>2
  <2>2. \A S, x : \A q \in Seq(S) : Len(q) = tip =>
          Append(q, x)[tip + 1] = x /\ \A t \in 1..tip : Append(q, x)[t] = q[t]
    BY <1>1
  <2> QED BY <1>1, <1>3, <2>1, <2>2
<1>6. /\ input' \in Seq(Inputs) /\ state' \in Seq(States) /\ times' \in Seq(Nat)
      /\ Len(input') = tip + 1 /\ Len(state') = tip + 1 /\ Len(times') = tip + 1
  BY <1>1, <1>2, <1>3 DEF States
<1>7. RowsInv'
  <2>1. Len(prev') <= MaxTurns /\ 0 <= Gone
    BY <1>1, <1>2, <1>4, IngestAssumption DEF Gone
  <2> QED BY <1>2, <1>4, <1>6, <2>1 DEF RowsInv, Gone
<1>8. PassTyped'
  <2>1. 0..tip \subseteq 0..tip' /\ 1..tip \subseteq 1..tip'
    BY <1>1, <1>2
  <2> QED BY <1>2, <2>1 DEF IngestInv, PassTyped, Working, NewTurn
<1>9. ParentInv'
  <2>1. ASSUME NEW t \in 1..tip', prev'[t] # 0 PROVE state'[prev'[t]] # "running"
    <3>1. CASE t = tip + 1
      BY <1>1, <1>3, <1>5, <2>1, <3>1
    <3>2. CASE t # tip + 1
      <4>1. t \in 1..tip /\ prev'[t] = prev[t]
        BY <1>1, <1>2, <1>5, <3>2
      <4>2. prev[t] \in 1..tip
        BY <1>1, <2>1, <4>1 DEF Rows
      <4>3. state[prev[t]] # "running"
        BY <2>1, <4>1 DEF IngestInv, ParentInv
      <4> QED BY <1>3, <1>5, <4>1, <4>2, <4>3
    <3> QED BY <3>1, <3>2
  <2> QED BY <2>1 DEF ParentInv
<1>10. FinalInv'
  <2>1. sent \subseteq 1..tip /\ \A k \in 1..Len(queue) : queue[k] \subseteq 1..tip
    BY DEF IngestInv, PassTyped
  <2>2. \A t \in 1..tip : state[t] # "running" => state'[t] # "running"
    BY <1>3, <1>5
  <2> QED BY <1>2, <2>1, <2>2 DEF IngestInv, FinalInv
<1>11. CoverInv'
  <2>1. cursor.turn \in 0..tip /\ local.turn \in 0..tip
    BY DEF IngestInv, PassTyped
  <2>2. \A k \in 1..Len(queue) : Max(queue[k]) \in 0..tip
    BY <1>1, QueuedEnd DEF IngestInv
  <2> QED BY <1>2, <1>4, <2>1, <2>2 DEF IngestInv, CoverInv
<1> QED BY <1>2, <1>3, <1>4, <1>5, <1>7, <1>8, <1>9, <1>10, <1>11 DEF IngestInv

LEMMA FinishTurnKeeps ==
  ASSUME IngestInv, NEW t \in Turns, NEW s \in {"done", "failed", "paused"}, FinishTurn(t, s)
  PROVE  /\ IngestInv'
         /\ \A u \in 1..tip : state[u] # "running" => state'[u] = state[u]
<1>1. /\ state \in Seq(States) /\ Len(state) = tip /\ tip \in Nat /\ t \in 1..tip
      /\ state[t] = "running" /\ state' = [state EXCEPT ![t] = s]
      /\ UNCHANGED <<prev, input, tip, age, idle, cursor, pass, seen, waited, queue, local, ran,
                     times, sent, newest, made, covered, excused, grown>>
  BY DEF IngestInv, RowsInv, Rows, Turns, FinishTurn, timeVars, passVars, provVars, histVars
<1>2. /\ state' \in Seq(States) /\ Len(state') = tip
      /\ \A u \in 1..tip : state'[u] = IF u = t THEN s ELSE state[u]
  BY <1>1 DEF States
<1>3. \A u \in 1..tip : state[u] # "running" => state'[u] = state[u]
  BY <1>1, <1>2
<1>4. RowsInv' /\ PassTyped' /\ CoverInv'
  BY <1>1, <1>2 DEF IngestInv, RowsInv, PassTyped, CoverInv, Working, Paths, Gone
<1>5. ParentInv'
  <2>1. \A u \in 1..tip : prev[u] # 0 => prev[u] \in 1..tip
    BY DEF IngestInv, RowsInv, Rows
  <2> QED BY <1>1, <1>3, <2>1 DEF IngestInv, ParentInv
<1>6. FinalInv'
  <2>1. sent \subseteq 1..tip /\ \A k \in 1..Len(queue) : queue[k] \subseteq 1..tip
    BY DEF IngestInv, PassTyped
  <2> QED BY <1>1, <1>3, <2>1 DEF IngestInv, FinalInv
<1> QED BY <1>3, <1>4, <1>5, <1>6 DEF IngestInv
-----------------------------------------------------------------------------
(* The pass moves *)

(* A pass that ends leaves nothing behind. *)
LEMMA EndPassKeeps ==
  ASSUME IngestInv, EndPass, UNCHANGED <<turnVars, timeVars, provVars>>,
         excused' \in BOOLEAN, grown' \in BOOLEAN,
         cursor' \in [turn : Nat, thread : Nat, error : BOOLEAN],
         cursor'.turn \in 0..tip, cursor'.thread <= made, Paths[cursor'.turn] \subseteq covered
  PROVE  IngestInv'
<1>1. /\ pass' = "off" /\ seen' = 0 /\ waited' = FALSE /\ queue' = <<>> /\ local' = NoLocal
      /\ ran' = TRUE
      /\ UNCHANGED <<prev, input, state, tip, age, idle, times, sent, newest, made, covered>>
  BY DEF EndPass, turnVars, timeVars, provVars
<1>2. Rows(prev) /\ tip \in Nat /\ Paths[0] = {}
  BY PathFacts DEF IngestInv, RowsInv, Rows, Paths
<1>3. RowsInv' /\ ParentInv'
  BY <1>1 DEF IngestInv, RowsInv, ParentInv, Gone
<1>4. queue' \in Seq(SUBSET Nat) /\ Len(queue') = 0 /\ ~Working'
  BY <1>1 DEF Working
<1>5. FinalInv' /\ CoverInv'
  <2>1. local'.turn = 0
    BY <1>1 DEF NoLocal
  <2> QED BY <1>1, <1>2, <1>4, <2>1 DEF IngestInv, FinalInv, CoverInv, Paths
<1>6. PassTyped'
  <2>1. local' \in [turn : Nat, thread : Nat, hint : BOOLEAN] /\ local'.turn = 0 /\ local'.thread = 0
    BY <1>1 DEF NoLocal
  <2>2. {cursor'.turn, local'.turn, seen', newest'} \subseteq 0..tip'
    BY <1>1, <1>2, <2>1 DEF IngestInv, PassTyped
  <2>3. made' \in Nat /\ cursor'.thread <= made' /\ local'.thread <= made'
    BY <1>1, <2>1 DEF IngestInv, PassTyped
  <2>4. sent' \subseteq 1..tip' /\ covered' \subseteq 1..tip'
        /\ ran' \in BOOLEAN /\ waited' \in BOOLEAN
    BY <1>1 DEF IngestInv, PassTyped
  <2>5. \A i \in 1..Len(queue') : queue'[i] \subseteq 1..tip' /\ queue'[i] # {}
    BY <1>4
  <2>6. Working' <=> queue' # <<>>
    BY <1>1, <1>4
  <2> QED BY <1>1, <1>4, <2>1, <2>2, <2>3, <2>4, <2>5, <2>6 DEF PassTyped
<1> QED BY <1>3, <1>5, <1>6 DEF IngestInv

LEMMA ListCandidatesKeeps ==
  ASSUME IngestInv, ListCandidates
  PROVE  IngestInv'
<1>1. CASE EndPass
  BY <1>1, EndPassKeeps DEF ListCandidates, IngestInv, PassTyped, CoverInv, histVars
<1>2. CASE ~EndPass
  <2>0. waited' = (idle >= PauseTimeout)
    BY <1>2 DEF ListCandidates
  <2>1. /\ pass = "off" /\ pass' = "turns" /\ seen' = tip /\ waited' \in BOOLEAN
        /\ local' = [turn |-> cursor.turn, thread |-> cursor.thread, hint |-> cursor.error]
        /\ UNCHANGED <<turnVars, timeVars, cursor, provVars, excused, grown, queue, ran>>
    <3>1. waited' \in BOOLEAN
      BY <2>0
    <3> QED BY <1>2, <3>1 DEF ListCandidates, histVars
  <2>2. /\ local' \in [turn : Nat, thread : Nat, hint : BOOLEAN]
        /\ local'.turn = cursor.turn /\ local'.thread = cursor.thread
    BY <2>1 DEF IngestInv, PassTyped
  <2>3. tip \in Nat
    BY DEF IngestInv, RowsInv, Rows
  <2>4. ~Working /\ ~Working'
    BY <2>1 DEF Working
  <2>5. UNCHANGED <<prev, input, state, tip, age, idle, times, sent, newest, made, covered>>
    BY <2>1 DEF turnVars, timeVars, provVars
  <2>6. RowsInv' /\ ParentInv'
    BY <2>5 DEF IngestInv, RowsInv, ParentInv, Gone
  <2>7. PassTyped'
    BY <2>1, <2>2, <2>3, <2>4, <2>5 DEF IngestInv, PassTyped
  <2>8. FinalInv' /\ CoverInv'
    BY <2>1, <2>2, <2>5 DEF IngestInv, FinalInv, CoverInv, Paths
  <2> QED BY <2>6, <2>7, <2>8 DEF IngestInv
<1> QED BY <1>1, <1>2

(* What is left to ingest: the turns of the path that are not on the path  *)
(* to the last ingested one, also across a fork.                           *)
Rest == Paths[seen] \ Paths[local.turn]

LEMMA RestIs ==
  ASSUME RowsInv, PassTyped
  PROVE  /\ {t \in Paths[seen] : t > ResumeAfter(Paths[seen], local.turn)} = Rest
         /\ Rest \in SUBSET (1..tip) /\ tip \in Nat
<1> DEFINE last == local.turn
           common == Paths[last] \cap Paths[seen]
           r == LastOf(common)
<1>1. Rows(prev) /\ tip = Len(prev) /\ tip \in Nat /\ last \in 0..tip /\ seen \in 0..tip
  BY DEF RowsInv, Rows, PassTyped
<1>2. ResumeAfter(Paths[seen], last) = r
  BY PathsAre DEF ResumeAfter
<1>3. Paths[seen] \subseteq 1..seen /\ Paths[seen] \subseteq 1..tip
  <2>1. Paths[seen] \subseteq 1..seen
    BY <1>1, PathBelow DEF Paths
  <2> QED BY <1>1, <2>1
<1>4. common \in SUBSET (1..tip)
  BY <1>3
<1>5. /\ r \in 0..tip /\ (common # {} => r \in common) /\ \A x \in common : x <= r
  BY <1>1, <1>4, LastOfIs
<1> HIDE DEF r
<1>6. ASSUME NEW t \in Paths[seen], t > r PROVE t \notin Paths[last]
  <2>1. t \in Nat
    BY <1>3
  <2>2. t \in Paths[last] => t <= r
    BY <1>5
  <2> QED BY <1>5, <1>6, <2>1, <2>2
<1>7. ASSUME NEW t \in Paths[seen], t \notin Paths[last] PROVE t > r
  <2>1. t \in 1..tip
    BY <1>3
  <2>2. CASE common = {}
    <3>1. r = 0
      BY <2>2 DEF r, LastOf
    <3> QED BY <2>1, <3>1
  <2>3. CASE common # {}
    <3>1. r \in Paths[last] /\ r \in Paths[seen]
      BY <1>5, <2>3
    <3>2. t <= r => t \in Paths[r]
      BY <1>1, <3>1, PathChain DEF Paths
    <3>3. Paths[r] \subseteq Paths[last]
      BY <1>1, <3>1, PathClosed DEF Paths
    <3>4. ~(t <= r)
      BY <1>7, <3>2, <3>3
    <3> QED BY <1>5, <2>1, <3>4
  <2> QED BY <2>2, <2>3
<1>8. {t \in Paths[seen] : t > r} = Rest
  BY <1>6, <1>7 DEF Rest
<1>9. Rest \subseteq 1..tip
  BY <1>3 DEF Rest
<1> QED BY <1>1, <1>2, <1>8, <1>9

(* The queue a pass starts with. *)
LEMMA QueueStarts ==
  ASSUME IngestInv, ListTurns, ~EndPass
  PROVE  /\ queue' = ReadyExchanges(Rest) /\ queue' # <<>> /\ pass = "turns" /\ pass' = "send"
         /\ queue' \in Seq(SUBSET Nat)
         /\ \A i \in 1..Len(queue') :
              /\ queue'[i] \in ReadySet(Rest) /\ queue'[i] \in BuildExchanges(Rest)
              /\ queue'[i] \subseteq Rest /\ queue'[i] # {}
              /\ Max(queue'[i]) \in queue'[i] /\ \A x \in queue'[i] : x <= Max(queue'[i])
         /\ \A i, j \in 1..Len(queue') : i < j => \A x \in queue'[i], y \in queue'[j] : x < y
         /\ \A i \in 1..Len(queue') : \A t \in Rest :
              t <= Max(queue'[i]) => \E j \in 1..i : t \in queue'[j]
         /\ \A i \in 1..Len(queue') : \A t \in Paths[Max(queue'[i])] :
              t \in Paths[local.turn] \/ \E j \in 1..i : t \in queue'[j]
         /\ UNCHANGED <<turnVars, timeVars, cursor, provVars, excused, grown, seen, waited, local, ran>>
<1>1. RowsInv /\ PassTyped
  BY DEF IngestInv
<1>2. Rest \in SUBSET (1..tip) /\ tip \in Nat
  BY <1>1, RestIs
<1>3. {t \in ActivePath(seen) : t > ResumeAfter(ActivePath(seen), local.turn)} = Rest
  BY <1>1, RestIs, PathsAre DEF ActivePath
<1>4. /\ queue' = ReadyExchanges(Rest) /\ queue' # <<>> /\ pass = "turns" /\ pass' = "send"
      /\ UNCHANGED <<turnVars, timeVars, cursor, provVars, excused, grown, seen, waited, local, ran>>
  BY <1>3 DEF ListTurns, histVars
<1>5. /\ queue' \in Seq(SUBSET Nat)
      /\ \A i \in 1..Len(queue') : queue'[i] \in ReadySet(Rest) /\ queue'[i] \in BuildExchanges(Rest)
      /\ \A i \in 1..Len(queue'), e \in BuildExchanges(Rest) :
           Max(e) <= Max(queue'[i]) => \E j \in 1..i : queue'[j] = e
      /\ \A i, j \in 1..Len(queue') : i < j => \A x \in queue'[i], y \in queue'[j] : x < y
  <2> DEFINE R == queue'
  <2>1. R = ReadyExchanges(Rest)
    BY <1>4
  <2> HIDE DEF R
  <2>2. /\ R \in Seq(SUBSET Nat)
        /\ \A i \in 1..Len(R) : R[i] \in ReadySet(Rest) /\ R[i] \in BuildExchanges(Rest)
        /\ \A i \in 1..Len(R), e \in BuildExchanges(Rest) :
             Max(e) <= Max(R[i]) => \E j \in 1..i : R[j] = e
        /\ \A i, j \in 1..Len(R) : i < j => \A x \in R[i], y \in R[j] : x < y
    BY <1>2, <2>1, QueueIs
  <2> QED BY <2>2 DEF R
<1>6. \A e \in BuildExchanges(Rest) :
        e \subseteq Rest /\ e # {} /\ Max(e) \in e /\ (\A x \in e : x <= Max(e)) /\ Max(e) \in 1..tip
  BY <1>2, ExchangeIs, ExchangeEnd
<1>7. ASSUME NEW i \in 1..Len(queue'), NEW t \in Rest, t <= Max(queue'[i])
      PROVE  \E j \in 1..i : t \in queue'[j]
  <2>1. PICK e \in BuildExchanges(Rest) : t \in e
    BY <1>2, ExchangesCover
  <2>2. CASE Max(e) <= Max(queue'[i])
    <3>1. PICK j \in 1..i : queue'[j] = e
      BY <1>5, <2>2
    <3> QED BY <2>1, <3>1
  <2>3. CASE ~(Max(e) <= Max(queue'[i]))
    <3>1. queue'[i] \in BuildExchanges(Rest) /\ Max(queue'[i]) \in Nat /\ Max(e) \in Nat
      BY <1>5, <1>6
    <3>2. Max(queue'[i]) < Max(e)
      BY <2>3, <3>1
    <3>3. Max(queue'[i]) <= Max(e)
      BY <3>1, <3>2
    <3> DEFINE d == queue'[i]
    <3>4. \A x \in d, y \in e : x < y
      <4>1. d \in BuildExchanges(Rest) /\ Max(d) <= Max(e) /\ d # e
        BY <3>1, <3>2, <3>3
      <4> HIDE DEF d
      <4> QED BY <1>2, <4>1, ExchangesApart
    <3>5. Max(queue'[i]) < t
      BY <1>6, <2>1, <3>1, <3>4
    <3>6. t \in Nat
      BY <1>2
    <3> QED BY <1>7, <3>1, <3>5, <3>6
  <2> QED BY <2>2, <2>3
<1>8. ASSUME NEW i \in 1..Len(queue'), NEW t \in Paths[Max(queue'[i])]
      PROVE  t \in Paths[local.turn] \/ \E j \in 1..i : t \in queue'[j]
  <2> DEFINE m == Max(queue'[i])
  <2>1. m \in Rest /\ m \in 1..tip
    BY <1>2, <1>5, <1>6
  <2> HIDE DEF m
  <2>2. m \in Paths[seen] /\ seen \in 0..tip /\ Rows(prev) /\ tip = Len(prev)
    BY <1>1, <2>1 DEF Rest, RowsInv, PassTyped
  <2>3. t \in Paths[seen] /\ t <= m
    <3>1. Paths[m] \subseteq Paths[seen]
      BY <2>2, PathClosed DEF Paths
    <3>2. m \in 0..Len(prev)
      BY <2>1, <2>2
    <3>3. Paths[m] \subseteq 1..m
      BY <2>2, <3>2, PathBelow DEF Paths
    <3> QED BY <1>8, <3>1, <3>3 DEF m
  <2> QED BY <1>7, <2>3 DEF m, Rest
<1> QED BY <1>4, <1>5, <1>6, <1>7, <1>8

(* A ready exchange has ended or was frozen by the turn that follows it. *)
LEMMA ReadyIsFinal ==
  ASSUME IngestInv, NEW e \in ReadySet(Rest), NEW t \in e
  PROVE  state[t] # "running"
<1>1. /\ Rest \in SUBSET (1..tip) /\ tip \in Nat /\ Rows(prev) /\ tip = Len(prev) /\ seen \in 0..tip
  BY RestIs DEF IngestInv, RowsInv, PassTyped
<1>2. e \in BuildExchanges(Rest)
  BY DEF ReadySet
<1>3. e \subseteq Rest /\ Max(e) \in e /\ \A x \in e : x <= Max(e)
  BY <1>1, <1>2, ExchangeIs
<1>4. t \in Paths[seen] /\ Rest \subseteq Paths[seen] /\ Paths[seen] \subseteq 1..seen
  BY <1>1, <1>3, PathBelow DEF Rest, Paths
<1>5. CASE t # seen
  <2>1. PICK c \in Paths[seen] : prev[c] = t
    BY <1>1, <1>4, <1>5, PathChild DEF Paths
  <2>2. c \in 1..tip /\ prev[c] # 0
    BY <1>1, <1>4, <2>1
  <2> QED BY <2>1, <2>2 DEF IngestInv, ParentInv
<1>6. CASE t = seen
  <2> DEFINE m == Max(e)
             x == Max(Rest)
  <2>1. x \in Rest /\ \A y \in Rest : y <= x
    <3>1. Rest \in SUBSET (0..tip) /\ Rest # {}
      BY <1>1, <1>3
    <3> QED BY <1>1, <3>1, MaxIs
  <2>2. m \in 1..seen /\ x \in 1..seen /\ seen <= m /\ seen <= x
    BY <1>3, <1>4, <1>6, <2>1
  <2>3. m = seen /\ x = seen
    <3> HIDE DEF m, x
    <3> QED BY <1>1, <2>2
  <2>4. IsReady(Rest, e)
    BY DEF ReadySet
  <2> HIDE DEF m, x
  <2>5. Ended(m) \/ state[m] = "paused"
    BY <2>3, <2>4 DEF IsReady, m, x
  <2> QED BY <1>6, <2>3, <2>5 DEF Ended
<1> QED BY <1>5, <1>6

LEMMA ListTurnsKeeps ==
  ASSUME IngestInv, ListTurns
  PROVE  IngestInv'
<1>1. CASE EndPass
  BY <1>1, EndPassKeeps DEF ListTurns, IngestInv, PassTyped, CoverInv, histVars
<1>2. CASE ~EndPass
  <2>1. /\ queue' # <<>> /\ pass = "turns" /\ pass' = "send" /\ queue' \in Seq(SUBSET Nat)
        /\ \A i \in 1..Len(queue') :
             queue'[i] \in ReadySet(Rest) /\ queue'[i] \subseteq Rest /\ queue'[i] # {}
        /\ \A i \in 1..Len(queue') : \A t \in Paths[Max(queue'[i])] :
             t \in Paths[local.turn] \/ \E j \in 1..i : t \in queue'[j]
        /\ UNCHANGED <<turnVars, timeVars, cursor, provVars, excused, grown, seen, waited, local, ran>>
    BY <1>2, QueueStarts
  <2>2. UNCHANGED <<prev, input, state, tip, age, idle, times, sent, newest, made, covered>>
    BY <2>1 DEF turnVars, timeVars, provVars
  <2>3. RowsInv' /\ ParentInv'
    BY <2>2 DEF IngestInv, RowsInv, ParentInv, Gone
  <2>4. PassTyped'
    <3>1. Rest \subseteq 1..tip
      BY RestIs DEF IngestInv
    <3>2. Working'
      BY <2>1 DEF Working
    <3>3. \A i \in 1..Len(queue') : queue'[i] \subseteq 1..tip' /\ queue'[i] # {}
      BY <2>1, <2>2, <3>1
    <3> QED BY <2>1, <2>2, <3>2, <3>3 DEF IngestInv, PassTyped
  <2>5. FinalInv'
    <3>1. \A i \in 1..Len(queue') : \A t \in queue'[i] : state[t] # "running"
      BY <2>1, ReadyIsFinal
    <3> QED BY <2>2, <3>1 DEF IngestInv, FinalInv
  <2>6. CoverInv'
    BY <2>1, <2>2 DEF IngestInv, CoverInv, Paths
  <2> QED BY <2>3, <2>4, <2>5, <2>6 DEF IngestInv
<1> QED BY <1>1, <1>2

(* The state an answer of the provider leaves. *)
LEMMA ProviderKeeps ==
  ASSUME IngestInv, pass = "send", pass' \in {"save", "fail"},
         \/ Store(Exchange) /\ WithThread
         \/ UNCHANGED <<times, sent, newest, made>> /\ local' = [local EXCEPT !.hint = FALSE]
         \/ UNCHANGED <<times, sent, newest, made, local>>,
         covered' = covered \cup Exchange \/ (pass' = "fail" /\ covered' = covered),
         UNCHANGED <<turnVars, timeVars, cursor, seen, waited, queue, ran, excused>>,
         grown' \in BOOLEAN
  PROVE  IngestInv'
<1>1. UNCHANGED <<prev, input, state, tip, age, idle>>
  BY DEF turnVars, timeVars
<1>2. /\ Len(queue) \in Nat /\ 1 \in 1..Len(queue) /\ Exchange = queue[1] /\ queue' = queue
      /\ Exchange \subseteq 1..tip /\ \A t \in Exchange : state[t] # "running"
  BY DEF IngestInv, PassTyped, FinalInv, Working, Exchange
<1>3. Max(Exchange) \in 1..tip /\ tip \in Nat
  <2>1. RowsInv /\ PassTyped
    BY DEF IngestInv
  <2>2. Max(queue[1]) \in 1..tip
    BY <1>2, <2>1, QueuedEnd
  <2> QED BY <1>2, <2>1, <2>2 DEF RowsInv, Rows
<1> DEFINE m == Max(Exchange)
<1>4. /\ local' \in [turn : Nat, thread : Nat, hint : BOOLEAN] /\ local'.turn = local.turn
      /\ made' \in Nat /\ made <= made' /\ local'.thread <= made'
  <2>1. local \in [turn : Nat, thread : Nat, hint : BOOLEAN] /\ made \in Nat /\ local.thread <= made
    BY DEF IngestInv, PassTyped
  <2>2. CASE WithThread
    <3>1. made' \in Nat /\ made <= made'
      BY <2>1, <2>2 DEF WithThread
    <3>2. local' = [local EXCEPT !.thread = made', !.hint = FALSE]
      BY <2>2 DEF WithThread
    <3>3. local' \in [turn : Nat, thread : Nat, hint : BOOLEAN]
      BY <2>1, <3>1, <3>2
    <3>4. local'.turn = local.turn /\ local'.thread = made'
      BY <2>1, <3>2
    <3> QED BY <3>1, <3>3, <3>4
  <2>3. CASE made' = made /\ local' = [local EXCEPT !.hint = FALSE]
    <3>1. local' \in [turn : Nat, thread : Nat, hint : BOOLEAN]
      BY <2>1, <2>3
    <3>2. local'.turn = local.turn /\ local'.thread = local.thread
      BY <2>1, <2>3
    <3> QED BY <2>1, <2>3, <3>1, <3>2
  <2>4. CASE made' = made /\ local' = local
    BY <2>1, <2>4
  <2> QED BY <2>2, <2>3, <2>4
<1>5. /\ times' \in Seq(Nat) /\ Len(times') = tip /\ newest' \in 0..tip
      /\ sent' \subseteq sent \cup Exchange
  <2>1. times \in Seq(Nat) /\ Len(times) = tip /\ newest \in 0..tip
    BY DEF IngestInv, RowsInv, PassTyped
  <2>2. CASE Store(Exchange)
    <3>1. /\ times' = [t \in 1..tip |-> IF t \in Exchange THEN times[t] + 1 ELSE times[t]]
          /\ sent' = sent \cup Exchange /\ newest' = m
      BY <2>2 DEF Store, Turns, IngestInv, RowsInv, Rows
    <3>2. times' \in [1..tip -> Nat]
      BY <2>1, <3>1
    <3>3. times' \in Seq(Nat) /\ Len(times') = tip
      BY <1>3, <3>2
    <3> HIDE DEF m
    <3>4. m \in 1..tip
      BY <1>3 DEF m
    <3> QED BY <1>3, <3>1, <3>3, <3>4
  <2>3. CASE UNCHANGED <<times, sent, newest>>
    BY <2>1, <2>3
  <2> QED BY <2>2, <2>3
<1>6. Working /\ Working' /\ covered \subseteq covered' /\ covered' \subseteq covered \cup Exchange
  BY DEF Working
<1> HIDE DEF m
<1>7. RowsInv' /\ ParentInv'
  BY <1>1, <1>5 DEF IngestInv, RowsInv, ParentInv, Gone
<1>8. PassTyped'
  <2>1. {cursor'.turn, local'.turn, seen', newest'} \subseteq 0..tip'
    BY <1>1, <1>4, <1>5 DEF IngestInv, PassTyped
  <2>2. cursor'.thread <= made'
    BY <1>4 DEF IngestInv, PassTyped
  <2>3. sent' \subseteq 1..tip' /\ covered' \subseteq 1..tip'
    BY <1>1, <1>2, <1>5, <1>6 DEF IngestInv, PassTyped
  <2>4. \A i \in 1..Len(queue') : queue'[i] \subseteq 1..tip' /\ queue'[i] # {}
    BY <1>1, <1>2 DEF IngestInv, PassTyped
  <2>5. Working' <=> queue' # <<>>
    BY <1>2, <1>6 DEF IngestInv, PassTyped
  <2> QED BY <1>2, <1>4, <2>1, <2>2, <2>3, <2>4, <2>5 DEF IngestInv, PassTyped
<1>9. FinalInv'
  BY <1>1, <1>2, <1>5 DEF IngestInv, FinalInv
<1>10. CoverInv'
  <2>1. pass' = "save" => queue'[1] \subseteq covered'
    BY <1>2
  <2> QED BY <1>1, <1>2, <1>4, <1>6, <2>1 DEF IngestInv, CoverInv, Paths
<1> QED BY <1>7, <1>8, <1>9, <1>10 DEF IngestInv

LEMMA IngestExchangeKeeps ==
  ASSUME IngestInv, IngestExchange
  PROVE  IngestInv'
BY ProviderKeeps DEF IngestExchange, IngestInv, PassTyped, histVars

LEMMA IngestFailsKeeps ==
  ASSUME IngestInv, NEW stored \in BOOLEAN, IngestFails(stored)
  PROVE  IngestInv'
<1>1. grown' \in BOOLEAN
  BY DEF IngestFails, IngestInv, PassTyped
<1> QED BY <1>1, ProviderKeeps DEF IngestFails

(* A checkpoint is at the end of a covered path. *)
LEMMA SaveCursorKeeps ==
  ASSUME IngestInv, SaveCursor
  PROVE  IngestInv'
<1> DEFINE m == Max(queue[1])
<1>1. /\ pass = "save" /\ queue \in Seq(SUBSET Nat) /\ queue # <<>> /\ Exchange = queue[1]
      /\ Len(queue) \in Nat /\ 1 \in 1..Len(queue)
      /\ cursor' = [turn |-> m, thread |-> local.thread, error |-> FALSE]
      /\ UNCHANGED <<prev, input, state, tip, age, idle, times, sent, newest, made, covered>>
      /\ UNCHANGED <<excused, grown>>
  BY DEF SaveCursor, IngestInv, PassTyped, Working, turnVars, timeVars, provVars, histVars, Exchange
<1>2. m \in 1..tip /\ tip \in Nat
  BY <1>1, QueuedEnd DEF IngestInv, RowsInv, Rows
<1>3. Paths[m] \subseteq covered
  BY <1>1 DEF IngestInv, CoverInv
<1> HIDE DEF m
<1>4. /\ cursor' \in [turn : Nat, thread : Nat, error : BOOLEAN]
      /\ cursor'.turn = m /\ cursor'.thread <= made
  BY <1>1, <1>2 DEF IngestInv, PassTyped
<1>5. CASE Len(queue) = 1
  <2>1. EndPass /\ UNCHANGED <<turnVars, timeVars, provVars>>
    BY <1>5 DEF SaveCursor
  <2>2. excused' \in BOOLEAN /\ grown' \in BOOLEAN
    BY <1>1 DEF IngestInv, PassTyped
  <2> QED BY <1>2, <1>3, <1>4, <2>1, <2>2, EndPassKeeps
<1>6. CASE Len(queue) # 1
  <2>1. /\ pass' = "send" /\ queue' = Tail(queue) /\ UNCHANGED <<seen, waited, ran>>
        /\ local' = [local EXCEPT !.turn = m]
    BY <1>1, <1>6 DEF SaveCursor, m
  <2>2. /\ queue' \in Seq(SUBSET Nat) /\ Len(queue') = Len(queue) - 1 /\ queue' # <<>>
        /\ \A i \in 1..Len(queue') : queue'[i] = queue[i + 1] /\ i + 1 \in 1..Len(queue)
    BY <1>1, <1>6, <2>1, TailIs
  <2>3. /\ local' \in [turn : Nat, thread : Nat, hint : BOOLEAN]
        /\ local'.turn = m /\ local'.thread = local.thread
    BY <1>2, <2>1 DEF IngestInv, PassTyped
  <2>4. RowsInv' /\ ParentInv'
    BY <1>1 DEF IngestInv, RowsInv, ParentInv, Gone
  <2>5. PassTyped'
    <3>1. \A i \in 1..Len(queue') : queue'[i] \subseteq 1..tip' /\ queue'[i] # {}
      BY <1>1, <2>2 DEF IngestInv, PassTyped
    <3>2. Working'
      BY <2>1 DEF Working
    <3>3. {cursor'.turn, local'.turn, seen', newest'} \subseteq 0..tip'
      BY <1>1, <1>2, <1>4, <2>1, <2>3 DEF IngestInv, PassTyped
    <3>4. made' \in Nat /\ cursor'.thread <= made' /\ local'.thread <= made'
      BY <1>1, <1>4, <2>3 DEF IngestInv, PassTyped
    <3> QED BY <1>1, <1>4, <2>1, <2>2, <2>3, <3>1, <3>2, <3>3, <3>4 DEF IngestInv, PassTyped
  <2>6. FinalInv'
    BY <1>1, <2>2 DEF IngestInv, FinalInv
  <2>7. CoverInv'
    <3>1. ASSUME NEW i \in 1..Len(queue'), NEW t \in Paths[Max(queue'[i])]
          PROVE  t \in covered \/ \E j \in 1..i : t \in queue'[j]
      <4>1. queue'[i] = queue[i + 1] /\ i + 1 \in 1..Len(queue)
        BY <2>2
      <4>2. t \in covered \/ \E j \in 1..(i + 1) : t \in queue[j]
        BY <3>1, <4>1 DEF IngestInv, CoverInv
      <4>3. ASSUME NEW j \in 1..(i + 1), t \in queue[j]
            PROVE  t \in covered \/ \E k \in 1..i : t \in queue'[k]
        <5>1. CASE j = 1
          BY <1>1, <4>3, <5>1 DEF IngestInv, CoverInv
        <5>2. CASE j # 1
          <6>1. j - 1 \in 1..i /\ j - 1 \in 1..Len(queue') /\ (j - 1) + 1 = j
            BY <2>2, <4>1, <5>2
          <6>2. queue'[j - 1] = queue[j]
            BY <2>2, <6>1
          <6> QED BY <4>3, <6>1, <6>2
        <5> QED BY <5>1, <5>2
      <4> QED BY <4>2, <4>3
    <3>2. Paths[cursor'.turn] \subseteq covered /\ Paths[local'.turn] \subseteq covered
      BY <1>3, <1>4, <2>3
    <3>3. Paths' = Paths /\ covered' = covered /\ pass' # "save"
      BY <1>1, <2>1 DEF Paths
    <3> QED BY <3>1, <3>2, <3>3 DEF CoverInv
  <2> QED BY <2>4, <2>5, <2>6, <2>7 DEF IngestInv
<1> QED BY <1>5, <1>6

LEMMA PassStops ==
  ASSUME IngestInv, SaveError \/ Interrupt \/ LoseWrite
  PROVE  IngestInv'
<1>1. CASE SaveError
  <2>1. /\ cursor' \in [turn : Nat, thread : Nat, error : BOOLEAN]
        /\ cursor'.turn = local.turn /\ cursor'.thread = local.thread
    BY <1>1 DEF SaveError, IngestInv, PassTyped
  <2>2. cursor'.turn \in 0..tip /\ cursor'.thread <= made /\ Paths[cursor'.turn] \subseteq covered
    BY <2>1 DEF IngestInv, PassTyped, CoverInv
  <2>3. EndPass /\ UNCHANGED <<turnVars, timeVars, provVars>>
        /\ excused' \in BOOLEAN /\ grown' \in BOOLEAN
    BY <1>1 DEF SaveError, IngestInv, PassTyped, histVars
  <2> QED BY <2>1, <2>2, <2>3, EndPassKeeps
<1>2. CASE Interrupt \/ LoseWrite
  <2>1. EndPass /\ UNCHANGED <<turnVars, timeVars, provVars>> /\ cursor' = cursor
        /\ excused' \in BOOLEAN /\ grown' \in BOOLEAN
    BY <1>2 DEF Interrupt, LoseWrite, IngestInv, PassTyped, histVars
  <2>2. /\ cursor' \in [turn : Nat, thread : Nat, error : BOOLEAN]
        /\ cursor'.turn \in 0..tip /\ cursor'.thread <= made /\ Paths[cursor'.turn] \subseteq covered
    BY <2>1 DEF IngestInv, PassTyped, CoverInv
  <2> QED BY <2>1, <2>2, EndPassKeeps
<1> QED BY <1>1, <1>2

LEMMA TickKeeps ==
  ASSUME IngestInv, Tick
  PROVE  IngestInv'
<1>1. /\ UNCHANGED <<prev, input, state, tip, cursor, pass, seen, waited, queue, local, times, sent,
                     newest, made, covered, excused, grown>>
      /\ ran' = FALSE /\ age' = age + 1 /\ idle' \in {0, idle + 1} /\ age < Gone
  BY DEF Tick, turnVars, passVars, provVars, histVars
<1>2. Gone \in Nat
  BY IngestAssumption DEF Gone
<1>3. RowsInv'
  <2>1. age' \in Nat /\ idle' \in Nat /\ idle' <= age' /\ age' <= Gone
    BY <1>1, <1>2 DEF IngestInv, RowsInv
  <2> QED BY <1>1, <2>1 DEF IngestInv, RowsInv, Gone
<1>4. PassTyped' /\ ParentInv' /\ FinalInv' /\ CoverInv'
  BY <1>1 DEF IngestInv, PassTyped, ParentInv, FinalInv, CoverInv, Working, Paths
<1> QED BY <1>3, <1>4 DEF IngestInv

LEMMA IngestNext == IngestInv /\ [Next]_vars => IngestInv'
<1> SUFFICES ASSUME IngestInv, [Next]_vars PROVE IngestInv'
  OBVIOUS
<1>1. ASSUME NEW p \in 0..Len(prev), NEW i \in Inputs, NewTurn(p, i) PROVE IngestInv'
  BY <1>1, NewTurnKeeps
<1>2. ASSUME NEW t \in Turns, NEW s \in {"done", "failed", "paused"}, FinishTurn(t, s)
      PROVE  IngestInv'
  BY <1>2, FinishTurnKeeps
<1>3. CASE ListCandidates
  BY <1>3, ListCandidatesKeeps
<1>4. CASE ListTurns
  BY <1>4, ListTurnsKeeps
<1>5. CASE IngestExchange
  BY <1>5, IngestExchangeKeeps
<1>6. CASE SaveCursor
  BY <1>6, SaveCursorKeeps
<1>7. CASE SaveError \/ Interrupt \/ LoseWrite
  BY <1>7, PassStops
<1>8. ASSUME NEW stored \in BOOLEAN, IngestFails(stored) PROVE IngestInv'
  BY <1>8, IngestFailsKeeps
<1>9. CASE Tick
  BY <1>9, TickKeeps
<1>10. CASE UNCHANGED vars
  BY <1>10 DEF vars, turnVars, timeVars, passVars, provVars, histVars, IngestInv, RowsInv, PassTyped,
               ParentInv, FinalInv, CoverInv, Working, Paths, Gone
<1> QED BY <1>1, <1>2, <1>3, <1>4, <1>5, <1>6, <1>7, <1>8, <1>9, <1>10 DEF Next

(* Always: rows, pass and checkpoint are typed, a followed turn is not     *)
(* running, nothing queued or sent can change, and the path to the         *)
(* checkpoint is covered.                                                  *)
THEOREM IngestInvAlways == Spec => []IngestInv
BY IngestInit, IngestNext, PTL DEF Spec

(* Type correctness (MemoryIngest!TypeOK). *)
THEOREM IngestTyped == Spec => []TypeOK
<1>1. IngestInv => TypeOK
  <2> SUFFICES ASSUME IngestInv PROVE TypeOK
    OBVIOUS
  <2>1. /\ Rows(prev) /\ tip = Len(prev) /\ tip \in Nat /\ tip <= MaxTurns /\ Turns = 1..tip
        /\ DOMAIN input = 1..tip /\ DOMAIN times = 1..tip /\ DOMAIN state = 1..tip
        /\ \A t \in 1..tip : state[t] \in States
    BY DEF IngestInv, RowsInv, Rows, Turns
  <2>2. \A t \in 1..tip : prev[t] \in 0..(t - 1)
    BY <2>1 DEF Rows
  <2>3. age \in 0..Gone /\ idle \in 0..Gone
    BY IngestAssumption DEF IngestInv, RowsInv, Gone
  <2>4. /\ cursor.turn \in 0..tip /\ covered \subseteq Turns
        /\ pass \in {"off", "turns", "send", "save", "fail"}
        /\ pass \in {"send", "save", "fail"} => queue # <<>>
    BY <2>1 DEF IngestInv, PassTyped, Working
  <2> QED BY <2>1, <2>2, <2>3, <2>4 DEF TypeOK, States
<1> QED BY <1>1, IngestInvAlways, PTL

(* The checkpoint never runs ahead: every turn on the path to it was       *)
(* accepted by the provider or had nothing to send.                        *)
THEOREM NothingSkippedAlways == Spec => []NothingSkipped
<1>1. IngestInv => NothingSkipped
  BY PathsAre DEF IngestInv, CoverInv, NothingSkipped
<1> QED BY <1>1, IngestInvAlways, PTL

(* Nothing is sent that can still change. *)
THEOREM SentIsFinalAlways == Spec => []SentIsFinal
<1>1. IngestInv => SentIsFinal
  BY DEF IngestInv, FinalInv, SentIsFinal
<1> QED BY <1>1, IngestInvAlways, PTL
-----------------------------------------------------------------------------
(* Stored once *)

(* The turns of the active path that were stored and are not behind the    *)
(* checkpoint: the attempts whose outcome was unclear, and the one going   *)
(* on.                                                                     *)
Unsaved == {t \in Paths[tip] \ Paths[cursor.turn] : times[t] > 0}

(* A turn that continues the exchange of its previous turn. *)
Inner(u) == ~(input[u] = "message" \/ Ended(prev[u]))

(* A pass continues at the checkpoint, with the thread and the hint of it. *)
PassInv ==
  /\ pass # "off" => local.turn = cursor.turn
  /\ pass = "turns" => local.thread = cursor.thread /\ local.hint = cursor.error

(* The queue is a part of the path after the checkpoint, cut into          *)
(* exchanges.                                                              *)
QueueInv ==
  /\ \A i \in 1..Len(queue) :
       /\ queue[i] \subseteq Paths[seen] \ Paths[cursor.turn]
       /\ \A t \in Paths[Max(queue[i])] :
            t \in Paths[cursor.turn] \/ \E j \in 1..i : t \in queue[j]
       /\ \A u \in queue[i] : Inner(u) \/ prev[u] \notin queue[i]
  /\ \A i, j \in 1..Len(queue) : i < j => \A t \in queue[j] : Max(queue[i]) < t

(* What is unsaved belongs to one exchange, the next one to send; the end  *)
(* of the last attempt is the newest exchange of the thread, the user has  *)
(* not gone on with it, and the checkpoint says that it is to be asked for. *)
UnsavedInv ==
  \A t \in Unsaved :
    /\ newest \in Unsaved /\ t <= newest
    /\ pass # "off" => t <= seen
    /\ pass # "save" => \A u \in Paths[tip] : prev[u] = newest => ~Inner(u)
    /\ \A u \in Paths[t] \ Paths[cursor.turn] :
         prev[u] # 0 /\ prev[u] \notin Paths[cursor.turn] => Inner(u)
    /\ pass \in {"off", "turns", "send"} => cursor.error /\ cursor.thread # 0
    /\ pass = "send" => local.hint
    /\ pass \in {"send", "fail"} => local.thread # 0
    /\ Working => t \in queue[1]

TimesInv == \A t \in 1..tip : times[t] <= 1 /\ (times[t] > 0 => t \in sent)
SeenInv == pass # "off" => seen \in Paths[tip]

OnceInv ==
  PassInv /\ QueueInv /\ (~excused /\ ~grown => SeenInv /\ UnsavedInv /\ TimesInv)

(* What the lemmas on paths say of the rows of a state. *)
LEMMA OnPath ==
  ASSUME RowsInv
  PROVE  /\ tip \in Nat /\ Paths[0] = {}
         /\ \A t \in 0..tip : Paths[t] \subseteq 1..t /\ (t # 0 => t \in Paths[t])
         /\ \A t \in 1..tip : prev[t] \in 0..(t - 1) /\ Paths[t] = {t} \cup Paths[prev[t]]
         /\ \A t \in 0..tip : \A u \in Paths[t] :
              /\ u \in 1..tip /\ u <= t /\ Paths[u] \subseteq Paths[t]
              /\ u # t => \E c \in Paths[t] : prev[c] = u
         /\ \A t \in 0..tip : \A u, v \in Paths[t] : u <= v => u \in Paths[v]
<1>1. Rows(prev) /\ tip = Len(prev) /\ tip \in Nat
  BY DEF RowsInv, Rows
<1>2. \A t \in 1..tip : prev[t] \in 0..(t - 1)
  BY <1>1 DEF Rows
<1>3. \A t \in 0..tip : Paths[t] \subseteq 1..t /\ (t # 0 => t \in Paths[t])
  BY <1>1, PathBelow DEF Paths
<1>4. \A t \in 0..tip : \A u \in Paths[t] : u \in 1..tip /\ u <= t
  BY <1>1, <1>3
<1>5. \A t \in 0..tip : \A u \in Paths[t] :
        Paths[u] \subseteq Paths[t] /\ (u # t => \E c \in Paths[t] : prev[c] = u)
  BY <1>1, PathClosed, PathChild DEF Paths
<1>6. \A t \in 0..tip : \A u, v \in Paths[t] : u <= v => u \in Paths[v]
  BY <1>1, PathChain DEF Paths
<1>7. Paths[0] = {} /\ \A t \in 1..tip : Paths[t] = {t} \cup Paths[prev[t]]
  BY <1>1, PathFacts DEF Paths
<1> QED BY <1>1, <1>2, <1>3, <1>4, <1>5, <1>6, <1>7

LEMMA OnceInit == Init => OnceInv
<1> SUFFICES ASSUME Init PROVE OnceInv
  OBVIOUS
<1>1. RowsInv
  BY IngestInit DEF IngestInv
<1>2. Paths[0] = {} /\ tip = 0 /\ Unsaved = {}
  BY <1>1, OnPath DEF Init, Unsaved
<1>3. queue = <<>> /\ Len(queue) = 0 /\ pass = "off"
  BY DEF Init
<1>4. PassInv /\ QueueInv /\ SeenInv
  BY <1>3 DEF PassInv, QueueInv, SeenInv
<1>5. UnsavedInv /\ TimesInv
  BY <1>2 DEF UnsavedInv, TimesInv
<1> QED BY <1>4, <1>5 DEF OnceInv

(* Whether a turn continues an exchange never changes: its previous turn   *)
(* is not running any more.                                                *)
LEMMA InnerStays ==
  ASSUME IngestInv, NEW u \in 1..tip,
         prev'[u] = prev[u], input'[u] = input[u],
         \A t \in 1..tip : state[t] # "running" => state'[t] = state[t]
  PROVE  Inner(u)' <=> Inner(u)
<1>1. prev[u] \in 0..(u - 1) /\ tip \in Nat
  BY OnPath DEF IngestInv
<1>2. CASE prev[u] = 0
  BY <1>2 DEF Inner, Ended
<1>3. CASE prev[u] # 0
  <2>1. prev[u] \in 1..tip /\ state[prev[u]] # "running"
    BY <1>1, <1>3 DEF IngestInv, ParentInv
  <2>2. state'[prev'[u]] = state[prev[u]]
    BY <2>1
  <2> QED BY <2>2 DEF Inner, Ended
<1> QED BY <1>2, <1>3

LEMMA FinishTurnOnce ==
  ASSUME IngestInv, OnceInv,
         NEW t \in Turns, NEW s \in {"done", "failed", "paused"}, FinishTurn(t, s)
  PROVE  OnceInv'
<1>1. /\ UNCHANGED <<prev, input, tip, cursor, pass, seen, queue, local, times, sent, newest>>
      /\ UNCHANGED <<excused, grown>>
      /\ \A u \in 1..tip : state[u] # "running" => state'[u] = state[u]
  BY FinishTurnKeeps DEF FinishTurn, passVars, provVars, histVars
<1>2. Paths' = Paths /\ Unsaved' = Unsaved
  BY <1>1 DEF Paths, Unsaved
<1>3. \A u \in 1..tip : Inner(u)' <=> Inner(u)
  BY <1>1, InnerStays
<1>4. PassInv' /\ (TimesInv => TimesInv') /\ (SeenInv => SeenInv')
  BY <1>1, <1>2 DEF OnceInv, PassInv, TimesInv, SeenInv
<1>5. QueueInv'
  <2>1. \A i \in 1..Len(queue) : queue[i] \subseteq 1..tip
    BY DEF IngestInv, PassTyped
  <2> QED BY <1>1, <1>2, <1>3, <2>1 DEF OnceInv, QueueInv
<1>6. UnsavedInv => UnsavedInv'
  <2>1. /\ \A u \in Unsaved : Paths[u] \subseteq 1..tip
        /\ Paths[tip] \subseteq 1..tip
    <3>1. \A u \in Paths[tip] : Paths[u] \subseteq Paths[tip] /\ u \in 1..tip
      BY OnPath DEF IngestInv
    <3> QED BY <3>1 DEF Unsaved
  <2> QED BY <1>1, <1>2, <1>3, <2>1 DEF UnsavedInv, Working
<1> QED BY <1>1, <1>4, <1>5, <1>6 DEF OnceInv

(* A branch leaves no unclear attempt behind, a follow-up leaves it on the *)
(* path and does not go on with it.                                        *)
LEMMA NewTurnOnce ==
  ASSUME IngestInv, OnceInv, NEW p \in 0..Len(prev), NEW i \in Inputs, NewTurn(p, i)
  PROVE  OnceInv'
<1>1. /\ tip' = tip + 1 /\ tip \in Nat /\ p \in 0..tip
      /\ \A t \in 0..tip : Paths'[t] = Paths[t]
      /\ Paths'[tip + 1] = {tip + 1} \cup Paths[p]
      /\ \A t \in 1..tip : /\ prev'[t] = prev[t] /\ input'[t] = input[t] /\ times'[t] = times[t]
                           /\ state[t] # "running" => state'[t] = state[t]
      /\ times'[tip + 1] = 0
      /\ prev'[tip + 1] = p /\ input'[tip + 1] = i
      /\ UNCHANGED <<cursor, pass, seen, queue, local, sent, newest>>
  <2>1. tip \in Nat /\ Len(prev) = tip
    BY DEF IngestInv, RowsInv, Rows
  <2>2. UNCHANGED <<cursor, pass, seen, queue, local, sent, newest>>
    BY DEF NewTurn, passVars
  <2> QED BY <2>1, <2>2, NewTurnKeeps
<1>2. PassInv'
  BY <1>1 DEF OnceInv, PassInv
<1>4. \A u \in 1..tip : Inner(u)' <=> Inner(u)
  BY <1>1, InnerStays
<1>7. cursor.turn \in 0..tip /\ (seen \in 0..tip) /\ \A k \in 1..Len(queue) :
        queue[k] \subseteq 1..tip /\ Max(queue[k]) \in 0..tip
  BY <1>1, QueuedEnd DEF IngestInv, PassTyped
<1>11. QueueInv'
  BY <1>1, <1>4, <1>7 DEF OnceInv, QueueInv
<1> SUFFICES ASSUME ~excused', ~grown' PROVE SeenInv' /\ UnsavedInv' /\ TimesInv'
  BY <1>2, <1>11 DEF OnceInv
<1>3. /\ ~excused /\ ~grown /\ SeenInv /\ UnsavedInv /\ TimesInv
      /\ p = 0 \/ p \in Paths[tip]
      /\ p = tip \/ (~cursor.error /\ pass = "off")
      /\ ~(Continues(p, i) /\ Unclear(p))
  BY PathsAre DEF NewTurn, OnceInv, ActivePath
<1>5. TimesInv'
  BY <1>1, <1>3 DEF TimesInv
<1>6. /\ Paths[0] = {} /\ Paths[p] \subseteq Paths[tip]
      /\ \A t \in Paths[tip] : t \in 1..tip /\ Paths[t] \subseteq 1..tip
  BY <1>3, OnPath DEF IngestInv
<1>8. Unsaved' \subseteq Unsaved
  BY <1>1, <1>6, <1>7 DEF Unsaved
<1>9. CASE p = tip
  <2>1. Paths'[tip'] = {tip + 1} \cup Paths[tip]
    BY <1>1, <1>9
  <2>2. SeenInv'
    BY <1>1, <1>3, <2>1 DEF SeenInv
  <2>3. Unsaved' = Unsaved
    BY <1>1, <1>6, <1>7, <2>1 DEF Unsaved
  <2>4. \A t \in Unsaved : t \in 1..tip /\ Paths[t] \subseteq 1..tip
    BY <1>6 DEF Unsaved
  <2>5. UnsavedInv'
    <3> SUFFICES ASSUME NEW t \in Unsaved
                 PROVE  /\ newest \in Unsaved /\ t <= newest
                        /\ pass # "off" => t <= seen
                        /\ pass # "save" => \A u \in Paths'[tip'] : prev'[u] = newest => ~Inner(u)'
                        /\ \A u \in Paths'[t] \ Paths'[cursor.turn] :
                             prev'[u] # 0 /\ prev'[u] \notin Paths'[cursor.turn] => Inner(u)'
                        /\ pass \in {"off", "turns", "send"} => cursor.error /\ cursor.thread # 0
                        /\ pass = "send" => local.hint
                        /\ pass \in {"send", "fail"} => local.thread # 0
                        /\ Working => t \in queue[1]
      BY <1>1, <2>3 DEF UnsavedInv, Working
    <3>1. Paths'[t] = Paths[t] /\ Paths'[cursor.turn] = Paths[cursor.turn]
      BY <1>1, <1>7, <2>4
    <3>2. ASSUME NEW u \in Paths[t] \ Paths[cursor.turn],
                 prev'[u] # 0, prev'[u] \notin Paths[cursor.turn]
          PROVE  Inner(u)'
      <4>1. u \in 1..tip /\ prev'[u] = prev[u]
        BY <1>1, <2>4
      <4> QED BY <1>3, <1>4, <3>2, <4>1 DEF UnsavedInv
    <3>3. ASSUME pass # "save", NEW u \in Paths'[tip'], prev'[u] = newest
          PROVE  ~Inner(u)'
      <4>1. CASE u \in Paths[tip]
        <5>1. u \in 1..tip /\ prev'[u] = prev[u]
          BY <1>1, <1>6, <4>1
        <5> QED BY <1>3, <1>4, <3>3, <4>1, <5>1 DEF UnsavedInv
      <4>2. CASE u = tip + 1
        <5>1. tip = newest /\ tip \in Unsaved
          BY <1>1, <1>3, <1>9, <3>3, <4>2 DEF UnsavedInv
        <5>2. tip \in 1..tip /\ times[tip] > 0 /\ tip \notin Paths[cursor.turn]
          BY <2>4, <5>1 DEF Unsaved
        <5>3. Unclear(tip)
          BY <1>3, <3>3, <5>2, PathsAre DEF TimesInv, Unclear
        <5>4. ~Continues(tip, i)
          BY <1>3, <1>9, <5>3
        <5>5. i = "message" \/ (tip # 0 /\ state[tip] \in {"done", "failed"})
          BY <5>2, <5>4 DEF Continues, Ended
        <5>6. i = "message" \/ (tip # 0 /\ state'[tip] \in {"done", "failed"})
          BY <1>1, <5>2, <5>5
        <5>7. input'[u] = i /\ prev'[u] = tip
          BY <1>1, <1>9, <4>2
        <5> QED BY <5>6, <5>7 DEF Inner, Ended
      <4> QED BY <2>1, <4>1, <4>2
    <3> QED BY <1>3, <3>1, <3>2, <3>3 DEF UnsavedInv
  <2> QED BY <1>5, <2>2, <2>5
<1>10. CASE p # tip
  <2>1. pass = "off" /\ ~cursor.error
    BY <1>3, <1>10
  <2>2. Unsaved = {}
    BY <1>3, <2>1 DEF UnsavedInv
  <2>4. UnsavedInv'
    BY <1>8, <2>2 DEF UnsavedInv
  <2>5. SeenInv'
    BY <1>1, <2>1 DEF SeenInv
  <2> QED BY <1>5, <2>4, <2>5
<1> QED BY <1>9, <1>10

LEMMA EndPassOnce ==
  ASSUME IngestInv, EndPass, UNCHANGED <<turnVars, provVars>>
  PROVE  /\ PassInv' /\ QueueInv' /\ SeenInv' /\ (TimesInv => TimesInv')
         /\ (Unsaved' = {} => UnsavedInv')
         /\ cursor' = cursor /\ pass \in {"off", "turns", "send"} /\ UnsavedInv => UnsavedInv'
<1>1. /\ pass' = "off" /\ queue' = <<>>
      /\ UNCHANGED <<prev, input, state, tip, times, sent, newest>>
  BY DEF EndPass, turnVars, provVars
<1>2. Len(queue') = 0 /\ ~Working'
  BY <1>1 DEF Working
<1>3. PassInv' /\ QueueInv' /\ SeenInv' /\ (TimesInv => TimesInv')
  BY <1>1, <1>2 DEF PassInv, QueueInv, SeenInv, TimesInv
<1>4. ASSUME cursor' = cursor, pass \in {"off", "turns", "send"}, UnsavedInv
      PROVE  UnsavedInv'
  <2>1. Unsaved' = Unsaved /\ Paths' = Paths
    BY <1>1, <1>4 DEF Unsaved, Paths
  <2>2. \A u : Inner(u)' <=> Inner(u)
    BY <1>1 DEF Inner, Ended
  <2> QED BY <1>1, <1>2, <1>4, <2>1, <2>2 DEF UnsavedInv
<1> QED BY <1>3, <1>4 DEF UnsavedInv

LEMMA ListCandidatesOnce ==
  ASSUME IngestInv, OnceInv, ListCandidates
  PROVE  OnceInv'
<1>1. UNCHANGED <<turnVars, cursor, provVars, excused, grown>> /\ pass = "off"
  BY DEF ListCandidates, histVars
<1>2. CASE EndPass
  BY <1>1, <1>2, EndPassOnce DEF OnceInv
<1>3. CASE ~EndPass
  <2>1. /\ pass' = "turns" /\ seen' = tip /\ queue' = queue
        /\ local' = [turn |-> cursor.turn, thread |-> cursor.thread, hint |-> cursor.error]
        /\ UNCHANGED <<prev, input, state, tip, times, sent, newest>>
    BY <1>1, <1>3 DEF ListCandidates, turnVars, provVars
  <2>2. Len(queue) = 0 /\ ~Working'
    BY <1>1, <2>1 DEF IngestInv, PassTyped, Working
  <2>3. PassInv' /\ QueueInv'
    BY <1>1, <2>1, <2>2 DEF PassInv, QueueInv
  <2> SUFFICES ASSUME ~excused, ~grown, UnsavedInv, TimesInv
               PROVE  SeenInv' /\ UnsavedInv' /\ TimesInv'
    BY <1>1, <2>3 DEF OnceInv
  <2>4. tip \in Nat /\ \A t \in Paths[tip] : t \in 1..tip
    BY OnPath DEF IngestInv
  <2>5. Unsaved' = Unsaved /\ Paths' = Paths /\ \A u : Inner(u)' <=> Inner(u)
    BY <1>1, <2>1 DEF Unsaved, Paths, Inner, Ended
  <2>6. Unsaved # {} => tip # 0
    BY <2>4 DEF Unsaved
  <2>7. tip \in Paths[tip]
    <3>1. tip # 0
      BY <1>1, <1>3 DEF ListCandidates, IsCandidate
    <3>2. \A t \in 0..tip : t # 0 => t \in Paths[t]
      BY OnPath DEF IngestInv
    <3> QED BY <2>4, <3>1, <3>2
  <2>8. SeenInv'
    BY <2>1, <2>5, <2>7 DEF SeenInv
  <2>9. UnsavedInv'
    <3>1. \A t \in Unsaved : t <= tip
      BY <2>4 DEF Unsaved
    <3> QED BY <1>1, <2>1, <2>2, <2>5, <3>1 DEF UnsavedInv
  <2> QED BY <1>1, <2>1, <2>8, <2>9 DEF TimesInv
<1> QED BY <1>2, <1>3

(* The retry: what was left unclear is in the exchange that the pass sends *)
(* first, although its part of the path may have grown since.              *)
LEMMA RetriedFirst ==
  ASSUME IngestInv, PassInv, SeenInv, UnsavedInv, ListTurns, ~EndPass, NEW t \in Unsaved
  PROVE  t \in queue'[1]
<1> DEFINE e == queue'[1]
           m == Max(e)
<1>0. RowsInv /\ PassTyped
  BY DEF IngestInv
<1>1. /\ pass = "turns" /\ queue' # <<>> /\ queue' \in Seq(SUBSET Nat) /\ 1 \in 1..Len(queue')
      /\ e \in BuildExchanges(Rest) /\ e \subseteq Rest /\ m \in e /\ \A x \in e : x <= m
      /\ \A x \in Rest : x <= m => x \in e
  <2>1. /\ pass = "turns" /\ queue' # <<>> /\ queue' \in Seq(SUBSET Nat)
        /\ \A i \in 1..Len(queue') :
             /\ queue'[i] \in BuildExchanges(Rest) /\ queue'[i] \subseteq Rest
             /\ Max(queue'[i]) \in queue'[i] /\ \A x \in queue'[i] : x <= Max(queue'[i])
             /\ \A x \in Rest : x <= Max(queue'[i]) => \E j \in 1..i : x \in queue'[j]
    BY QueueStarts
  <2>2. 1 \in 1..Len(queue')
    BY <2>1
  <2>3. \A j \in 1..1 : j = 1
    OBVIOUS
  <2> QED BY <2>1, <2>2, <2>3
<1>2. /\ local.turn = cursor.turn /\ cursor.turn \in 0..tip /\ seen \in 0..tip /\ tip \in Nat
      /\ t \in Paths[tip] /\ t \notin Paths[cursor.turn] /\ t <= seen /\ seen \in Paths[tip]
  BY <1>0, <1>1, OnPath DEF PassInv, SeenInv, UnsavedInv, Unsaved, PassTyped
<1>3. t \in Rest
  <2>1. t \in Paths[seen]
    BY <1>0, <1>2, OnPath
  <2> QED BY <1>2, <2>1 DEF Rest
<1> HIDE DEF m, e
<1>4. Rest \in SUBSET (1..tip) /\ m \in 1..tip /\ t \in 1..tip /\ m \in Rest
  BY <1>0, <1>1, <1>3, RestIs
<1> SUFFICES ASSUME ~(t <= m) PROVE FALSE
  BY <1>1, <1>3 DEF e
<1>5. PICK c \in Paths[t] : prev[c] = m
  <2>1. m \in Paths[seen] /\ t \in Paths[seen]
    BY <1>3, <1>4 DEF Rest
  <2>2. m \in Paths[t] /\ m # t
    BY <1>0, <1>2, <1>4, <2>1, OnPath
  <2>3. t \in 0..tip
    BY <1>4
  <2> QED BY <1>0, <2>2, <2>3, OnPath
<1>6. /\ c \in 1..tip /\ m < c /\ c \in Paths[seen] /\ Paths[c] = {c} \cup Paths[m]
  <2>1. t \in 0..tip /\ t \in Paths[seen]
    BY <1>3, <1>4 DEF Rest
  <2>2. c \in 1..tip /\ Paths[t] \subseteq Paths[seen]
    BY <1>0, <1>2, <2>1, OnPath
  <2>3. prev[c] \in 0..(c - 1) /\ Paths[c] = {c} \cup Paths[m]
    BY <1>0, <1>5, <2>2, OnPath
  <2> QED BY <1>4, <1>5, <2>2, <2>3
<1>7. m \notin Paths[cursor.turn] /\ c \notin Paths[cursor.turn]
  <2>1. m \notin Paths[cursor.turn]
    BY <1>2, <1>4 DEF Rest
  <2>2. m \in Paths[c]
    <3>1. m \in 0..tip /\ m # 0
      BY <1>4
    <3>2. m \in Paths[m]
      BY <1>0, <3>1, OnPath
    <3> QED BY <1>6, <3>2
  <2>3. c \in Paths[cursor.turn] => Paths[c] \subseteq Paths[cursor.turn]
    BY <1>0, <1>2, OnPath
  <2> QED BY <2>1, <2>2, <2>3
<1>8. Inner(c)
  BY <1>4, <1>5, <1>6, <1>7 DEF UnsavedInv
<1>9. c \in Rest /\ c \notin e
  BY <1>1, <1>2, <1>4, <1>6, <1>7 DEF Rest
<1>10. PICK s \in e : /\ StartsExchange(Rest, s)
                      /\ \A x \in e : s <= x /\ (x # s => ~StartsExchange(Rest, x))
                      /\ e = ExchangeFrom(Rest, s)
  BY <1>1, <1>2, <1>4, ExchangeIs
<1>11. PICK w \in Rest : s < w /\ w <= c /\ StartsExchange(Rest, w)
  <2>1. s <= m /\ s \in 1..tip
    BY <1>1, <1>4, <1>10
  <2>2. c >= s
    BY <1>4, <1>6, <2>1
  <2> QED BY <1>9, <1>10, <2>2 DEF ExchangeFrom
<1>12. ~(w <= m)
  <2>1. w <= m => ~StartsExchange(Rest, w)
    BY <1>1, <1>10, <1>11 DEF ExchangeFrom
  <2> QED BY <1>11, <2>1
<1>13. w = c
  <2>1. w \in Paths[seen] /\ w \in 1..tip
    BY <1>4 DEF Rest
  <2>2. w \in Paths[c]
    BY <1>0, <1>2, <1>6, <1>11, <2>1, OnPath
  <2>3. \A x \in Paths[m] : x <= m
    BY <1>0, <1>4, OnPath
  <2> QED BY <1>6, <1>12, <2>2, <2>3
<1> QED BY <1>4, <1>5, <1>6, <1>8, <1>11, <1>13 DEF StartsExchange, Inner

LEMMA ListTurnsOnce ==
  ASSUME IngestInv, OnceInv, ListTurns
  PROVE  OnceInv'
<1>1. UNCHANGED <<turnVars, cursor, provVars, excused, grown>> /\ pass = "turns"
  BY DEF ListTurns, histVars
<1>2. CASE EndPass
  BY <1>1, <1>2, EndPassOnce DEF OnceInv
<1>3. CASE ~EndPass
  <2>1. /\ pass' = "send" /\ queue' \in Seq(SUBSET Nat)
        /\ \A i \in 1..Len(queue') :
              /\ queue'[i] \in BuildExchanges(Rest) /\ queue'[i] \subseteq Rest
              /\ Max(queue'[i]) \in queue'[i]
        /\ \A i, j \in 1..Len(queue') : i < j => \A x \in queue'[i], y \in queue'[j] : x < y
        /\ \A i \in 1..Len(queue') : \A t \in Paths[Max(queue'[i])] :
              t \in Paths[local.turn] \/ \E j \in 1..i : t \in queue'[j]
        /\ UNCHANGED <<cursor, seen, local, excused>>
    BY <1>3, QueueStarts
  <2>2. UNCHANGED <<prev, input, state, tip, times, sent, newest>>
    BY <1>1 DEF turnVars, provVars
  <2>3. PassInv' /\ PassInv /\ local.turn = cursor.turn
    BY <1>1, <2>1 DEF OnceInv, PassInv
  <2>5. Unsaved' = Unsaved /\ Paths' = Paths /\ \A u : Inner(u)' <=> Inner(u)
    BY <1>1, <2>2 DEF Unsaved, Paths, Inner, Ended
  <2>6. QueueInv'
    <3>2. \A i \in 1..Len(queue') : queue'[i] \subseteq Paths[seen] \ Paths[cursor.turn]
      BY <2>1, <2>3 DEF Rest
    <3>3. ASSUME NEW i \in 1..Len(queue'), NEW u \in queue'[i], prev[u] \in queue'[i]
          PROVE  Inner(u)
      <4> DEFINE e == queue'[i]
      <4>1. e \in BuildExchanges(Rest) /\ u \in e /\ prev[u] \in e
        BY <2>1, <3>3
      <4> HIDE DEF e
      <4>2. Rest \in SUBSET (1..tip) /\ tip \in Nat /\ e \subseteq Rest
        BY <4>1, RestIs, ExchangeIs DEF IngestInv
      <4>3. prev[u] < u
        BY <4>1, <4>2, OnPath DEF IngestInv
      <4>4. PICK s \in e : /\ StartsExchange(Rest, s)
                           /\ \A x \in e : s <= x /\ (x # s => ~StartsExchange(Rest, x))
                           /\ e = ExchangeFrom(Rest, s)
        BY <4>1, <4>2, ExchangeIs
      <4>5. u # s
        <5>1. s <= prev[u]
          BY <4>1, <4>4
        <5>2. \A x \in e : x \in Nat
          BY <4>2
        <5>3. s \in Nat /\ u \in Nat /\ prev[u] \in Nat
          BY <4>1, <4>4, <5>2
        <5> QED BY <4>3, <5>1, <5>3
      <4> QED BY <4>1, <4>4, <4>5 DEF StartsExchange, Inner
    <3>4. \A i, j \in 1..Len(queue') : i < j => \A t \in queue'[j] : Max(queue'[i]) < t
      BY <2>1
    <3>5. \A i \in 1..Len(queue') : \A t \in Paths[Max(queue'[i])] :
            t \in Paths[cursor.turn] \/ \E j \in 1..i : t \in queue'[j]
      BY <2>1, <2>3
    <3> QED BY <2>1, <2>2, <2>5, <3>2, <3>3, <3>4, <3>5 DEF QueueInv
  <2> SUFFICES ASSUME ~excused, ~grown, SeenInv, UnsavedInv, TimesInv
               PROVE  SeenInv' /\ UnsavedInv' /\ TimesInv'
    BY <1>1, <2>3, <2>6 DEF OnceInv
  <2>7. UnsavedInv'
    <3>1. \A t \in Unsaved : t \in queue'[1]
      BY <1>3, <2>3, RetriedFirst
    <3>2. local.thread = cursor.thread /\ local.hint = cursor.error
      BY <1>1, <2>3 DEF PassInv
    <3> QED BY <1>1, <2>1, <2>2, <2>5, <3>1, <3>2 DEF UnsavedInv
  <2> QED BY <1>1, <2>1, <2>2, <2>5, <2>7 DEF TimesInv, SeenInv
<1> QED BY <1>2, <1>3

(* An attempt stores an exchange none of whose turns was stored: had one   *)
(* been, the newest stored turn were unsaved and in the exchange, and, as  *)
(* the user has not gone on with it, its end: found there.                 *)
LEMMA AttemptOnce ==
  ASSUME IngestInv, PassInv, QueueInv, SeenInv, UnsavedInv, TimesInv,
         pass = "send", pass' \in {"save", "fail"},
         \/ /\ Store(Exchange) /\ WithThread /\ ~AlreadyStored
            /\ pass' = "fail" => \A u \in Paths[tip] : prev[u] = Max(Exchange) => ~Inner(u)
         \/ /\ UNCHANGED <<times, sent, newest>>
            /\ local'.turn = local.turn /\ local'.thread = local.thread,
         UNCHANGED <<turnVars, cursor, seen, queue>>
  PROVE  SeenInv' /\ UnsavedInv' /\ TimesInv'
<1> DEFINE e == queue[1]
           m == Max(e)
<1>0. RowsInv /\ PassTyped
  BY DEF IngestInv
<1>1. UNCHANGED <<prev, input, state, tip>>
  BY DEF turnVars
<1>2. Paths' = Paths /\ (\A u : Inner(u)' <=> Inner(u)) /\ Working /\ Working'
  BY <1>1 DEF Paths, Inner, Ended, Working
<1>3. Exchange = e /\ 1 \in 1..Len(queue)
  BY <1>0, <1>2 DEF PassTyped, Exchange
<1>4. m \in e /\ m \in 1..tip /\ tip \in Nat /\ \A x \in e : x <= m
  BY <1>0, <1>3, QueuedEnd, OnPath
<1>5. SeenInv'
  BY <1>1, <1>2 DEF SeenInv
<1>6. CASE UNCHANGED <<times, sent, newest>> /\ local'.turn = local.turn
           /\ local'.thread = local.thread
  <2>1. Unsaved' = Unsaved
    BY <1>1, <1>2, <1>6 DEF Unsaved
  <2>2. UnsavedInv'
    BY <1>1, <1>2, <1>6, <2>1 DEF UnsavedInv
  <2>3. TimesInv'
    BY <1>1, <1>6 DEF TimesInv
  <2> QED BY <1>5, <2>2, <2>3
<1>7. CASE /\ Store(Exchange) /\ WithThread /\ ~AlreadyStored
           /\ pass' = "fail" => \A u \in Paths[tip] : prev[u] = Max(Exchange) => ~Inner(u)
  <2>0. /\ times \in Seq(Nat) /\ Len(times) = tip
        /\ local \in [turn : Nat, thread : Nat, hint : BOOLEAN] /\ made \in Nat
        /\ local.thread <= made /\ newest \in 0..tip /\ cursor.turn \in 0..tip
    BY <1>0 DEF RowsInv, PassTyped
  <2>1. /\ times' = [t \in 1..tip |-> IF t \in e THEN times[t] + 1 ELSE times[t]]
        /\ sent' = sent \cup e /\ newest' = m
    BY <1>0, <1>3, <1>7 DEF Store, Turns, RowsInv, Rows
  <2>2. e \subseteq Paths[seen] \ Paths[cursor.turn] /\ seen \in Paths[tip] /\ seen \in 1..tip
    <3>1. e \subseteq Paths[seen] \ Paths[cursor.turn] /\ seen \in Paths[tip]
      BY <1>3 DEF QueueInv, SeenInv
    <3> QED BY <1>0, <1>4, <3>1, OnPath
  <2>3. \A t \in e : t \in Paths[tip] \ Paths[cursor.turn] /\ t <= seen /\ t \in 1..tip
    <3>1. tip \in 0..tip /\ seen \in 0..tip
      BY <1>4, <2>2
    <3>2. Paths[seen] \subseteq Paths[tip] /\ \A t \in Paths[seen] : t <= seen /\ t \in 1..tip
      BY <1>0, <2>2, <3>1, OnPath
    <3> QED BY <2>2, <3>2
  <2>4. Unsaved \subseteq e
    BY <1>2 DEF UnsavedInv
  <2>5. \A t \in Paths[m] : t \in Paths[cursor.turn] \/ t \in e
    <3>1. \A t \in Paths[Max(queue[1])] : t \in Paths[cursor.turn] \/ \E j \in 1..1 : t \in queue[j]
      BY <1>3 DEF QueueInv
    <3>2. \A j \in 1..1 : j = 1
      OBVIOUS
    <3> QED BY <3>1, <3>2
  <2>6. \A t \in e : times[t] = 0
    <3> SUFFICES ASSUME NEW t \in e, times[t] # 0 PROVE FALSE
      OBVIOUS
    <3>1. t \in Unsaved
      BY <2>0, <2>3 DEF Unsaved
    <3>2. /\ newest \in Unsaved /\ newest \in e /\ local.hint /\ local.thread # 0
          /\ newest \notin Paths[cursor.turn]
          /\ \A u \in Paths[tip] : prev[u] = newest => ~Inner(u)
      BY <2>4, <3>1 DEF UnsavedInv, Unsaved
    <3> DEFINE n == m
    <3>3. ~(newest = n)
      BY <1>3, <1>7, <3>2 DEF AlreadyStored
    <3>4. n \in e /\ n \in 0..tip /\ newest <= n /\ n \in Paths[seen] /\ newest \in Paths[seen]
          /\ n \in Paths[tip]
      BY <1>4, <2>2, <2>3, <3>2
    <3>5. Paths[n] \subseteq Paths[tip]
      BY <1>0, <1>4, <3>4, OnPath
    <3>6. \A x \in Paths[n] : x \in Paths[cursor.turn] \/ x \in e
      BY <2>5
    <3> HIDE DEF m, n
    <3>7. newest \in Paths[n]
      BY <1>0, <2>2, <3>4, OnPath
    <3>8. PICK c \in Paths[n] : prev[c] = newest
      BY <1>0, <3>3, <3>4, <3>7, OnPath
    <3>9. c \in 1..tip /\ Paths[c] = {c} \cup Paths[newest] /\ newest \in Paths[c]
      <4>1. c \in 1..tip
        BY <1>0, <3>4, OnPath
      <4>2. Paths[c] = {c} \cup Paths[newest]
        BY <1>0, <3>8, <4>1, OnPath
      <4>3. newest \in Paths[newest]
        <5>1. newest # 0
          BY <2>3, <3>2
        <5> QED BY <1>0, <2>0, <5>1, OnPath
      <4> QED BY <4>1, <4>2, <4>3
    <3>10. c \in e
      <4>1. c \in Paths[cursor.turn] => Paths[c] \subseteq Paths[cursor.turn]
        BY <1>0, <2>0, OnPath
      <4> QED BY <3>2, <3>6, <3>9, <4>1
    <3>11. Inner(c)
      BY <1>3, <3>2, <3>8, <3>10 DEF QueueInv
    <3> QED BY <3>2, <3>5, <3>8, <3>11
  <2>7. /\ local'.turn = local.turn /\ local'.thread # 0
    <3>1. made' \in Nat /\ made' # 0
      BY <1>7, <2>0 DEF WithThread
    <3>2. local' = [local EXCEPT !.thread = made', !.hint = FALSE]
      BY <1>7 DEF WithThread
    <3>3. local'.turn = local.turn
      BY <2>0, <3>2
    <3>4. local'.thread = made'
      BY <2>0, <3>2
    <3> QED BY <3>1, <3>3, <3>4
  <2>8. \A t \in 1..tip : times'[t] = IF t \in e THEN 1 ELSE times[t]
    BY <2>1, <2>6
  <2>9. Unsaved' = Unsaved \cup e
    <3>1. \A t \in Paths[tip] : t \in 1..tip
      BY <1>0, <1>4, OnPath
    <3>2. cursor' = cursor /\ tip' = tip
      BY <1>1
    <3> QED BY <1>2, <2>3, <2>8, <3>1, <3>2 DEF Unsaved
  <2>10. \A x \in e : x <= m /\ x \in Paths[m]
    <3> DEFINE n == m
    <3>1. n \in Paths[seen] /\ \A x \in e : x <= n /\ x \in Paths[seen]
      BY <1>4, <2>2
    <3> HIDE DEF m, n
    <3>2. \A x \in e : x \in Paths[n]
      BY <1>0, <2>2, <3>1, OnPath
    <3> QED BY <3>1, <3>2 DEF n
  <2>11. ASSUME NEW u \in Paths[m] \ Paths[cursor.turn], prev[u] # 0, prev[u] \notin Paths[cursor.turn]
         PROVE  Inner(u)
    <3> DEFINE n == m
    <3>0. n \in 0..tip /\ u \in Paths[n]
      BY <1>4
    <3> HIDE DEF m, n
    <3>1. prev[u] \in Paths[n]
      <4>1. u \in 1..tip /\ Paths[u] \subseteq Paths[n]
        BY <1>0, <3>0, OnPath
      <4>2. prev[u] \in 0..tip /\ prev[u] # 0 /\ Paths[u] = {u} \cup Paths[prev[u]]
        BY <1>0, <1>4, <2>11, <4>1, OnPath
      <4>3. prev[u] \in Paths[prev[u]]
        BY <1>0, <4>2, OnPath
      <4> QED BY <4>1, <4>2, <4>3
    <3>2. u \in e /\ prev[u] \in e
      BY <2>5, <2>11, <3>0, <3>1 DEF n
    <3> QED BY <1>3, <3>2 DEF QueueInv
  <2> HIDE DEF m
  <2>12. UnsavedInv'
    <3> SUFFICES ASSUME NEW t \in Unsaved \cup e
                 PROVE  /\ t <= m /\ t <= seen
                        /\ \A u \in Paths[t] \ Paths[cursor.turn] :
                             prev[u] # 0 /\ prev[u] \notin Paths[cursor.turn] => Inner(u)
      <4>1. pass' = "fail" => \A u \in Paths[tip] : prev[u] = m => ~Inner(u)
        BY <1>3, <1>7 DEF m
      <4>2. m \in Unsaved'
        BY <1>4, <2>9
      <4>3. Unsaved \cup e = e
        BY <2>4
      <4> QED BY <1>1, <1>2, <2>1, <2>7, <2>9, <4>1, <4>2, <4>3 DEF UnsavedInv
    <3>1. t \in e
      BY <2>4
    <3>2. t <= m /\ t <= seen /\ t \in Paths[m]
      BY <2>3, <2>10, <3>1
    <3>3. Paths[t] \subseteq Paths[m]
      BY <1>0, <1>4, <3>2, OnPath
    <3> QED BY <2>11, <3>2, <3>3
  <2>13. TimesInv'
    <3>1. \A t \in 1..tip : times'[t] <= 1 /\ (times'[t] > 0 => t \in sent')
      BY <2>1, <2>8 DEF TimesInv
    <3> QED BY <1>1, <3>1 DEF TimesInv
  <2> QED BY <1>5, <2>12, <2>13
<1> QED BY <1>6, <1>7

LEMMA IngestExchangeOnce ==
  ASSUME IngestInv, OnceInv, IngestExchange
  PROVE  OnceInv'
<1>1. /\ pass = "send" /\ pass' = "save" /\ UNCHANGED <<turnVars, cursor, seen, queue, excused, grown>>
      /\ \/ Store(Exchange) /\ WithThread /\ ~AlreadyStored
         \/ UNCHANGED <<times, sent, newest>> /\ local' = [local EXCEPT !.hint = FALSE]
         \/ UNCHANGED <<times, sent, newest>> /\ local' = local
  BY DEF IngestExchange, histVars
<1>2. local \in [turn : Nat, thread : Nat, hint : BOOLEAN]
  BY DEF IngestInv, PassTyped
<1>3. local' = [local EXCEPT !.hint = FALSE] => local'.turn = local.turn
  BY <1>2
<1>4. local' = [local EXCEPT !.hint = FALSE] => local'.thread = local.thread
  BY <1>2
<1>5. local'.turn = local.turn
  <2>1. WithThread => local' = [local EXCEPT !.thread = made', !.hint = FALSE]
    BY DEF WithThread
  <2>2. WithThread => local'.turn = local.turn
    BY <1>2, <2>1
  <2> QED BY <1>1, <1>3, <2>2
<1>6. PassInv'
  BY <1>1, <1>5 DEF OnceInv, PassInv
<1>7. QueueInv'
  BY <1>1 DEF OnceInv, QueueInv, Paths, Inner, Ended, turnVars
<1>8. ~excused /\ ~grown => SeenInv' /\ UnsavedInv' /\ TimesInv'
  BY <1>1, <1>3, <1>4, AttemptOnce DEF OnceInv
<1> QED BY <1>1, <1>6, <1>7, <1>8 DEF OnceInv

LEMMA IngestFailsOnce ==
  ASSUME IngestInv, OnceInv, NEW stored \in BOOLEAN, IngestFails(stored)
  PROVE  OnceInv'
<1>1. /\ pass = "send" /\ pass' = "fail" /\ UNCHANGED <<turnVars, cursor, seen, queue, excused>>
      /\ \/ /\ Store(Exchange) /\ WithThread /\ ~AlreadyStored
            /\ grown' = (grown \/ GoneOn(Exchange))
         \/ UNCHANGED <<times, sent, newest, grown>> /\ local' = local
  BY DEF IngestFails
<1>2. local'.turn = local.turn
  <2>1. local \in [turn : Nat, thread : Nat, hint : BOOLEAN]
    BY DEF IngestInv, PassTyped
  <2>2. WithThread => local' = [local EXCEPT !.thread = made', !.hint = FALSE]
    BY DEF WithThread
  <2>3. WithThread => local'.turn = local.turn
    BY <2>1, <2>2
  <2> QED BY <1>1, <2>3
<1>3. PassInv'
  BY <1>1, <1>2 DEF OnceInv, PassInv
<1>4. QueueInv'
  BY <1>1 DEF OnceInv, QueueInv, Paths, Inner, Ended, turnVars
<1>5. ~GoneOn(Exchange) => \A u \in Paths[tip] : prev[u] = Max(Exchange) => ~Inner(u)
  <2> SUFFICES ASSUME ~GoneOn(Exchange), NEW u \in Paths[tip], prev[u] = Max(Exchange)
               PROVE  ~Inner(u)
    OBVIOUS
  <2>1. StartsExchange(Turns, u)
    BY PathsAre DEF GoneOn, ActivePath
  <2>2. Max(Exchange) \in 1..tip /\ tip \in Nat
    <3>1. RowsInv /\ PassTyped /\ 1 \in 1..Len(queue) /\ Exchange = queue[1]
      BY <1>1 DEF IngestInv, PassTyped, Working, Exchange
    <3> QED BY <3>1, QueuedEnd, OnPath
  <2>3. u \in 1..tip /\ prev[u] \in 0..(u - 1) /\ Turns = 1..tip
    <3>1. RowsInv /\ tip \in 0..tip
      BY <2>2 DEF IngestInv
    <3>2. u \in 1..tip
      BY <3>1, OnPath
    <3> QED BY <3>1, <3>2, OnPath DEF RowsInv, Rows, Turns
  <2>4. 1 \in Turns /\ ~(u <= 1)
    BY <2>2, <2>3
  <2> QED BY <2>1, <2>4 DEF StartsExchange, Inner
<1>6. ~excused /\ ~grown' => SeenInv' /\ UnsavedInv' /\ TimesInv'
  <2> SUFFICES ASSUME ~excused, ~grown' PROVE SeenInv' /\ UnsavedInv' /\ TimesInv'
    OBVIOUS
  <2>1. ~grown
    BY <1>1
  <2>2. SeenInv /\ UnsavedInv /\ TimesInv /\ PassInv /\ QueueInv
    BY <2>1 DEF OnceInv
  <2> QED BY <1>1, <1>5, <2>2, AttemptOnce
<1> QED BY <1>1, <1>3, <1>4, <1>6 DEF OnceInv

(* The checkpoint after an exchange passes no turn of the path before it   *)
(* and the rest of the queue is what follows it.                           *)
LEMMA CheckpointMoves ==
  ASSUME IngestInv, OnceInv, SaveCursor
  PROVE  /\ pass = "save" /\ queue # <<>> /\ queue \in Seq(SUBSET Nat) /\ 1 \in 1..Len(queue)
         /\ cursor'.turn = Max(queue[1]) /\ seen \in 0..tip
         /\ queue[1] \subseteq Paths[seen] \ Paths[cursor.turn]
         /\ Max(queue[1]) \in queue[1] /\ Max(queue[1]) \in 1..tip
         /\ \A t \in Paths[seen] : t <= Max(queue[1]) => t \in Paths[Max(queue[1])]
         /\ Paths[seen] \cap Paths[cursor.turn] \subseteq Paths[Max(queue[1])]
         /\ queue[1] \subseteq Paths[Max(queue[1])]
         /\ Paths[Max(queue[1])] \subseteq Paths[seen]
         /\ UNCHANGED <<prev, input, state, tip, age, idle, times, sent, newest, faults>>
         /\ UNCHANGED <<excused, grown>>
<1> DEFINE e == queue[1]
           m == Max(e)
           C == Paths[cursor.turn]
<1>0. RowsInv /\ PassTyped /\ QueueInv
  BY DEF IngestInv, OnceInv
<1>1. /\ pass = "save" /\ queue \in Seq(SUBSET Nat) /\ queue # <<>> /\ Exchange = e
      /\ Len(queue) \in Nat /\ 1 \in 1..Len(queue)
      /\ cursor'.turn = m
      /\ UNCHANGED <<prev, input, state, tip, age, idle, times, sent, newest, faults>>
      /\ UNCHANGED <<excused, grown>>
  BY <1>0 DEF SaveCursor, PassTyped, Working, turnVars, timeVars, provVars, histVars, Exchange
<1>2. m \in e /\ m \in 1..tip /\ tip \in Nat /\ \A x \in e : x <= m
  BY <1>0, <1>1, QueuedEnd, OnPath
<1>3. /\ e \subseteq Paths[seen] \ C /\ seen \in 0..tip /\ cursor.turn \in 0..tip
  BY <1>0, <1>1 DEF QueueInv, PassTyped
<1>4. m \in Paths[seen] /\ m \notin C
  BY <1>2, <1>3
<1> HIDE DEF m
<1>5. ASSUME NEW t \in Paths[seen], t <= m PROVE t \in Paths[m]
  BY <1>0, <1>3, <1>4, <1>5, OnPath
<1>6. ASSUME NEW t \in Paths[seen], t \in C PROVE t \in Paths[m]
  <2>1. t \in 1..tip
    BY <1>0, <1>3, OnPath
  <2>2. CASE t <= m
    BY <1>5, <2>2
  <2>3. CASE m <= t
    <3>1. m \in Paths[t]
      BY <1>0, <1>3, <1>4, <2>3, OnPath
    <3>2. Paths[t] \subseteq C
      BY <1>0, <1>3, <1>6, OnPath
    <3> QED BY <1>4, <3>1, <3>2
  <2> QED BY <1>2, <2>1, <2>2, <2>3
<1>7. e \subseteq Paths[m] /\ Paths[m] \subseteq Paths[seen]
  <2>1. e \subseteq Paths[m]
    BY <1>2, <1>3, <1>5
  <2> QED BY <1>0, <1>3, <1>4, <2>1, OnPath
<1> QED BY <1>1, <1>2, <1>3, <1>5, <1>6, <1>7 DEF m

LEMMA SaveCursorQueue ==
  ASSUME IngestInv, OnceInv, SaveCursor
  PROVE  PassInv' /\ QueueInv'
<1> DEFINE m == Max(queue[1])
<1>0. RowsInv /\ PassTyped /\ QueueInv
  BY DEF IngestInv, OnceInv
<1>1. /\ pass = "save" /\ queue # <<>> /\ queue \in Seq(SUBSET Nat) /\ 1 \in 1..Len(queue)
      /\ cursor'.turn = m /\ seen \in 0..tip /\ m \in 1..tip
      /\ \A t \in Paths[seen] : t <= m => t \in Paths[m]
      /\ Paths[seen] \cap Paths[cursor.turn] \subseteq Paths[m]
      /\ queue[1] \subseteq Paths[m]
      /\ UNCHANGED <<prev, input, state, tip>>
  BY CheckpointMoves
<1>2. Paths' = Paths /\ \A u : Inner(u)' <=> Inner(u)
  BY <1>1 DEF Paths, Inner, Ended
<1>3. pass' = "off" \/ (pass' = "send" /\ local' = [local EXCEPT !.turn = m])
  BY DEF SaveCursor, EndPass, Exchange
<1> HIDE DEF m
<1>4. PassInv'
  <2>1. local \in [turn : Nat, thread : Nat, hint : BOOLEAN]
    BY <1>0 DEF PassTyped
  <2>2. local' = [local EXCEPT !.turn = m] => local'.turn = m
    BY <2>1
  <2> QED BY <1>1, <1>3, <2>2 DEF PassInv
<1>5. CASE Len(queue) = 1
  <2>1. queue' = <<>>
    BY <1>5 DEF SaveCursor, EndPass
  <2>2. Len(queue') = 0
    BY <2>1
  <2> QED BY <1>4, <2>2 DEF QueueInv
<1>6. CASE Len(queue) # 1
  <2>1. queue' = Tail(queue) /\ seen' = seen
    BY <1>6 DEF SaveCursor
  <2>2. \A i \in 1..Len(queue') : queue'[i] = queue[i + 1] /\ i + 1 \in 1..Len(queue)
    BY <1>1, <2>1, TailIs
  <2>3. Len(queue') \in Nat /\ Len(queue') = Len(queue) - 1
    BY <1>1, <2>1, TailIs
  <2>4. ASSUME NEW i \in 1..Len(queue')
        PROVE  queue'[i] \subseteq Paths[seen] \ Paths[m]
    <3>1. queue'[i] \subseteq Paths[seen]
      BY <1>0, <2>2 DEF QueueInv
    <3>2. 1 < i + 1 /\ i + 1 \in 1..Len(queue)
      BY <2>2
    <3>3. \A t \in queue'[i] : m < t
      BY <1>0, <1>1, <2>2, <3>2 DEF QueueInv, m
    <3>4. m \in 0..tip /\ \A t \in Paths[m] : t <= m /\ t \in Nat
      BY <1>0, <1>1, OnPath
    <3> QED BY <3>1, <3>3, <3>4
  <2>5. ASSUME NEW i \in 1..Len(queue'), NEW t \in Paths[Max(queue'[i])]
        PROVE  t \in Paths[m] \/ \E j \in 1..i : t \in queue'[j]
    <3>1. queue'[i] = queue[i + 1] /\ i + 1 \in 1..Len(queue)
      BY <2>2
    <3>2. t \in Paths[cursor.turn] \/ \E j \in 1..(i + 1) : t \in queue[j]
      BY <1>0, <2>5, <3>1 DEF QueueInv
    <3>3. t \in Paths[seen]
      <4> DEFINE x == Max(queue'[i])
      <4>1. x \in Paths[seen]
        <5>1. Max(queue[i + 1]) \in queue[i + 1]
          BY <1>0, <3>1, QueuedEnd
        <5> QED BY <1>0, <3>1, <5>1 DEF QueueInv
      <4> HIDE DEF x
      <4>2. Paths[x] \subseteq Paths[seen]
        BY <1>0, <1>1, <4>1, OnPath
      <4> QED BY <2>5, <4>2 DEF x
    <3>4. ASSUME NEW j \in 1..(i + 1), t \in queue[j]
          PROVE  t \in Paths[m] \/ \E k \in 1..i : t \in queue'[k]
      <4>1. CASE j = 1
        BY <1>1, <3>4, <4>1
      <4>2. CASE j # 1
        <5>1. j - 1 \in 1..i /\ j - 1 \in 1..Len(queue') /\ (j - 1) + 1 = j
          BY <2>3, <3>1, <4>2
        <5>2. queue'[j - 1] = queue[j]
          BY <2>2, <5>1
        <5> QED BY <3>4, <5>1, <5>2
      <4> QED BY <4>1, <4>2
    <3> QED BY <1>1, <3>2, <3>3, <3>4
  <2>6. ASSUME NEW i \in 1..Len(queue'), NEW u \in queue'[i]
        PROVE  Inner(u) \/ prev[u] \notin queue'[i]
    BY <1>0, <2>2, <2>6 DEF QueueInv
  <2>7. ASSUME NEW i \in 1..Len(queue'), NEW j \in 1..Len(queue'), i < j, NEW t \in queue'[j]
        PROVE  Max(queue'[i]) < t
    <3>1. i + 1 < j + 1 /\ i + 1 \in 1..Len(queue) /\ j + 1 \in 1..Len(queue)
          /\ queue'[i] = queue[i + 1] /\ queue'[j] = queue[j + 1]
      BY <2>2, <2>7
    <3> QED BY <1>0, <2>7, <3>1 DEF QueueInv
  <2>8. QueueInv'
    BY <1>1, <1>2, <2>1, <2>4, <2>5, <2>6, <2>7 DEF QueueInv
  <2> QED BY <1>4, <2>8
<1> QED BY <1>5, <1>6

(* After it nothing is unclear any more. *)
LEMMA SaveCursorOnce ==
  ASSUME IngestInv, OnceInv, SaveCursor
  PROVE  OnceInv'
<1> DEFINE m == Max(queue[1])
<1>0. RowsInv /\ PassTyped
  BY DEF IngestInv
<1>1. /\ pass = "save" /\ queue # <<>> /\ cursor'.turn = m /\ seen \in 0..tip /\ m \in 1..tip
      /\ Paths[seen] \cap Paths[cursor.turn] \subseteq Paths[m]
      /\ queue[1] \subseteq Paths[m] /\ m \in queue[1] /\ queue[1] \subseteq Paths[seen]
      /\ UNCHANGED <<prev, input, state, tip, times, sent, excused, grown>>
  BY CheckpointMoves
<1> HIDE DEF m
<1> SUFFICES ASSUME ~excused, ~grown, SeenInv, UnsavedInv, TimesInv
             PROVE  SeenInv' /\ UnsavedInv' /\ TimesInv'
  BY <1>1, SaveCursorQueue DEF OnceInv
<1>2. Paths' = Paths /\ tip \in Nat /\ tip \in 0..tip /\ cursor.turn \in 0..tip
  BY <1>0, <1>1, OnPath DEF Paths, PassTyped
<1>3. seen \in Paths[tip] /\ m \in Paths[tip] /\ m \in Paths[seen] /\ m \in 0..tip
  <2>1. seen \in Paths[tip] /\ m \in Paths[seen]
    BY <1>1 DEF SeenInv
  <2> QED BY <1>0, <1>1, <1>2, <2>1, OnPath
<1>4. Unsaved' = {}
  <2> SUFFICES ASSUME NEW t \in Unsaved' PROVE FALSE
    OBVIOUS
  <2>1. t \in Paths[tip] /\ t \notin Paths[m] /\ times[t] > 0
    BY <1>1, <1>2 DEF Unsaved
  <2>2. t \notin queue[1]
    BY <1>1, <2>1
  <2>3. t \notin Unsaved
    BY <1>1, <2>2 DEF UnsavedInv, Working
  <2>4. t \in Paths[cursor.turn]
    BY <2>1, <2>3 DEF Unsaved
  <2>5. t \notin Paths[seen]
    BY <1>1, <2>1, <2>4
  <2>6. t \in 1..tip /\ seen \in 1..tip /\ ~(t <= seen)
    BY <1>0, <1>2, <1>3, <2>1, <2>5, OnPath
  <2>7. seen \in Paths[t]
    BY <1>0, <1>2, <1>3, <2>1, <2>6, OnPath
  <2>8. Paths[t] \subseteq Paths[cursor.turn]
    BY <1>0, <1>2, <2>4, OnPath
  <2>9. m \in Paths[cursor.turn]
    <3>1. Paths[seen] \subseteq Paths[cursor.turn]
      BY <1>0, <1>2, <2>7, <2>8, OnPath
    <3> QED BY <1>3, <3>1
  <2> QED BY <1>1, <2>9, CheckpointMoves DEF m
<1>5. TimesInv' /\ UnsavedInv'
  BY <1>1, <1>4 DEF TimesInv, UnsavedInv
<1>6. SeenInv'
  <2>1. pass' = "off" \/ seen' = seen
    BY DEF SaveCursor, EndPass
  <2> QED BY <1>1, <1>2, <1>3, <2>1 DEF SeenInv
<1> QED BY <1>5, <1>6

(* A checkpoint with an error stays where it was and keeps the thread. *)
LEMMA PassStopsOnce ==
  ASSUME IngestInv, OnceInv, SaveError \/ Interrupt \/ LoseWrite
  PROVE  OnceInv'
<1>0. EndPass /\ UNCHANGED <<turnVars, provVars>>
  BY DEF SaveError, Interrupt, LoseWrite
<1>1. PassInv' /\ QueueInv' /\ SeenInv' /\ (TimesInv => TimesInv')
  BY <1>0, EndPassOnce
<1>2. CASE SaveError
  <2>1. /\ pass = "fail" /\ pass' = "off" /\ excused' = excused /\ grown' = grown
        /\ cursor' = [turn |-> local.turn, thread |-> local.thread, error |-> TRUE]
        /\ UNCHANGED <<prev, input, state, tip, times, sent, newest>>
    BY <1>2 DEF SaveError, EndPass, turnVars, provVars, histVars
  <2>2. /\ local.turn = cursor.turn
        /\ cursor'.turn = cursor.turn /\ cursor'.thread = local.thread /\ cursor'.error = TRUE
    BY <2>1 DEF OnceInv, PassInv
  <2>3. Paths' = Paths /\ Unsaved' = Unsaved /\ \A u : Inner(u)' <=> Inner(u)
    BY <2>1, <2>2 DEF Paths, Unsaved, Inner, Ended
  <2>4. UnsavedInv => UnsavedInv'
    BY <2>1, <2>2, <2>3 DEF UnsavedInv, Working
  <2> QED BY <1>1, <2>1, <2>4 DEF OnceInv
<1>3. CASE Interrupt
  <2>1. pass \in {"turns", "send"} /\ cursor' = cursor /\ excused' = excused /\ grown' = grown
    BY <1>3 DEF Interrupt, histVars
  <2> QED BY <1>0, <1>1, <2>1, EndPassOnce DEF OnceInv
<1>4. CASE LoseWrite
  BY <1>1, <1>4 DEF LoseWrite, OnceInv
<1> QED BY <1>2, <1>3, <1>4

LEMMA OnceNext == IngestInv /\ OnceInv /\ [Next]_vars => OnceInv'
<1> SUFFICES ASSUME IngestInv, OnceInv, [Next]_vars PROVE OnceInv'
  OBVIOUS
<1>1. ASSUME NEW p \in 0..Len(prev), NEW i \in Inputs, NewTurn(p, i) PROVE OnceInv'
  BY <1>1, NewTurnOnce
<1>2. ASSUME NEW t \in Turns, NEW s \in {"done", "failed", "paused"}, FinishTurn(t, s)
      PROVE  OnceInv'
  BY <1>2, FinishTurnOnce
<1>3. CASE ListCandidates
  BY <1>3, ListCandidatesOnce
<1>4. CASE ListTurns
  BY <1>4, ListTurnsOnce
<1>5. CASE IngestExchange
  BY <1>5, IngestExchangeOnce
<1>6. CASE SaveCursor
  BY <1>6, SaveCursorOnce
<1>7. CASE SaveError \/ Interrupt \/ LoseWrite
  BY <1>7, PassStopsOnce
<1>8. ASSUME NEW stored \in BOOLEAN, IngestFails(stored) PROVE OnceInv'
  BY <1>8, IngestFailsOnce
<1>9. CASE Tick \/ UNCHANGED vars
  <2>1. /\ UNCHANGED <<prev, input, state, tip, cursor, pass, seen, queue, local, times, sent, newest>>
        /\ UNCHANGED <<excused, grown>>
    BY <1>9 DEF Tick, vars, turnVars, passVars, provVars, histVars
  <2> QED BY <2>1 DEF OnceInv, PassInv, QueueInv, SeenInv, UnsavedInv, TimesInv, Unsaved, Inner, Ended,
                      Paths, Working
<1> QED BY <1>1, <1>2, <1>3, <1>4, <1>5, <1>6, <1>7, <1>8, <1>9 DEF Next

THEOREM OnceInvAlways == Spec => []OnceInv
BY OnceInit, OnceNext, IngestInvAlways, PTL DEF Spec

(* "A retry doesn't store it twice": unless a checkpoint was lost, the     *)
(* user went back to an abandoned branch, or branched or went on with the  *)
(* exchange between an unclear attempt and its retry, no turn is stored    *)
(* twice, in whatever exchanges.                                           *)
THEOREM StoredOnceAlways == Spec => []StoredOnce
<1>1. IngestInv /\ OnceInv => StoredOnce
  <2>1. IngestInv => Turns = 1..tip
    BY DEF IngestInv, RowsInv, Rows, Turns
  <2> QED BY <2>1 DEF OnceInv, TimesInv, StoredOnce
<1> QED BY <1>1, IngestInvAlways, OnceInvAlways, PTL
-----------------------------------------------------------------------------
(* Ingested in time *)

(* The backlog of a session fits into the passes of its look-back window,  *)
(* and one of them sees how the last turn ended.                           *)
KeepsUp ==
  /\ ExecTime + 1 < Lookback
  /\ MaxTurns <= 1 + MaxExchanges * (Lookback - 2)

LEMMA BoundsAre ==
  /\ {MaxTurns, MaxExchanges, Lookback, PauseTimeout, ExecTime, Gone} \subseteq Nat
  /\ Lookback > 0 /\ PauseTimeout > 0
<1>1. \A n \in Nat \ {0} : n > 0
  OBVIOUS
<1>2. Lookback \in Nat \ {0} /\ PauseTimeout \in Nat \ {0}
  BY IngestAssumption
<1>3. Lookback + PauseTimeout \in Nat
  BY <1>2
<1>4. Gone \in Nat
  BY <1>2, <1>3 DEF Gone
<1> QED BY <1>1, <1>2, <1>4, IngestAssumption

(* What the session has still to ingest. *)
Left == Paths[tip] \ Paths[cursor.turn]

(* It is one exchange at most. *)
OneLeft(S) == \A u \in S : prev[u] \in S => Inner(u)

Queued == {t \in 1..tip : \E i \in 1..Len(queue) : t \in queue[i]}

(* Either one exchange is left, or n passes have sent all they could. *)
Reached(n) == OneLeft(Left) \/ Cardinality(Left) + MaxExchanges * n <= MaxTurns

(* The passes that ended after the first unit of the last turn. *)
Passes == IF ran \/ age = 0 THEN age ELSE age - 1

ClockInv ==
  /\ faults \in Nat /\ (faults = 0 => pass # "fail")
  /\ pass # "off" => ~ran
  /\ pass # "off" /\ age > 0 => seen = tip /\ waited = (idle >= PauseTimeout)
  /\ tip # 0 /\ state[tip] = "running" => age <= ExecTime
  /\ tip # 0 /\ state[tip] # "running" => age <= idle + ExecTime

PaceInv ==
  /\ ~Working => Reached(Passes)
  /\ Working /\ age > 0 =>
       \/ OneLeft(Left \ Queued)
       \/ Cardinality(Left) + MaxExchanges * age <= MaxTurns + Len(queue)

LateInv ==
  /\ Working /\ age >= Lookback - 1 => Left \subseteq Queued
  /\ Ended(tip) /\ (age >= Lookback \/ (age = Lookback - 1 /\ ran)) => Left = {}
  /\ age >= Gone \/ (age = Gone - 1 /\ ran) => Left = {}

InTimeInv == ClockInv /\ (faults = 0 /\ tip # 0 => PaceInv /\ LateInv)

LEMMA SmallSet ==
  ASSUME NEW n \in Nat, NEW S \in SUBSET (1..n)
  PROVE  IsFiniteSet(S) /\ Cardinality(S) \in Nat /\ Cardinality(S) <= n
<1>1. IsFiniteSet(1..n) /\ Cardinality(1..n) = n
  <2>1. 1 \in Int /\ n \in Int
    OBVIOUS
  <2>2. IsFiniteSet(1..n) /\ Cardinality(1..n) = IF 1 > n THEN 0 ELSE n - 1 + 1
    BY <2>1, FS_Interval
  <2> QED BY <2>2
<1>2. IsFiniteSet(S) /\ Cardinality(S) <= Cardinality(1..n)
  BY <1>1, FS_Subset
<1> QED BY <1>1, <1>2, FS_CardinalityType

LEMMA OneLeftBelow ==
  ASSUME NEW T, NEW S \in SUBSET T, OneLeft(T)
  PROVE  OneLeft(S)
BY DEF OneLeft

(* What is left of a single turn is one exchange. *)
LEMMA FewIsOne ==
  ASSUME RowsInv, NEW S \in SUBSET (1..tip), Cardinality(S) <= 1
  PROVE  OneLeft(S)
<1> SUFFICES ASSUME NEW u \in S, prev[u] \in S PROVE FALSE
  BY DEF OneLeft
<1>1. tip \in Nat /\ prev[u] # u /\ IsFiniteSet(S) /\ Cardinality(S) \in Nat
  BY OnPath, SmallSet
<1> DEFINE v == prev[u]
<1>2. {u} \subseteq S /\ v \notin {u} /\ {v} \cup {u} \subseteq S
  BY <1>1
<1> HIDE DEF v
<1>3. IsFiniteSet({u}) /\ Cardinality({u}) = 1
  BY FS_Singleton
<1>4. Cardinality({u} \cup {v}) = 2
  <2>1. Cardinality({u} \cup {v}) = IF v \in {u} THEN Cardinality({u}) ELSE Cardinality({u}) + 1
    BY <1>3, FS_AddElement, Zenon
  <2>2. v \notin {u} /\ Cardinality({u}) = 1
    BY <1>2, <1>3
  <2> QED BY <2>1, <2>2
<1>5. {u} \cup {v} \in SUBSET S
  BY <1>2
<1>6. Cardinality({u} \cup {v}) <= Cardinality(S)
  BY <1>1, <1>5, FS_Subset
<1> QED BY <1>1, <1>4, <1>6

LEMMA LeftIs ==
  ASSUME RowsInv, PassTyped
  PROVE  /\ Left \in SUBSET (1..tip) /\ IsFiniteSet(Left)
         /\ Cardinality(Left) \in Nat /\ Cardinality(Left) <= MaxTurns
         /\ Left = {} <=> cursor.turn = tip
<1>1. tip \in Nat /\ tip <= MaxTurns /\ cursor.turn \in 0..tip /\ tip \in 0..tip
  BY OnPath DEF RowsInv, PassTyped
<1>2. Left \in SUBSET (1..tip)
  BY <1>1, OnPath DEF Left
<1>3. IsFiniteSet(Left) /\ Cardinality(Left) \in Nat /\ Cardinality(Left) <= tip
  BY <1>1, <1>2, SmallSet
<1>4. Cardinality(Left) <= MaxTurns
  BY <1>1, <1>3, IngestAssumption
<1>5. ASSUME Left = {} PROVE cursor.turn = tip
  <2>1. CASE tip = 0
    BY <1>1, <2>1
  <2>2. CASE tip # 0
    <3>1. tip \in Paths[tip]
      BY <1>1, <2>2, OnPath
    <3>2. tip \in Paths[cursor.turn]
      BY <1>5, <3>1 DEF Left
    <3>3. tip <= cursor.turn
      BY <1>1, <3>2, OnPath
    <3> QED BY <1>1, <3>3
  <2> QED BY <2>1, <2>2
<1>6. cursor.turn = tip => Left = {}
  BY DEF Left
<1> QED BY <1>2, <1>3, <1>4, <1>5, <1>6

LEMMA TimesMore ==
  ASSUME NEW k \in Nat, NEW a \in Nat, NEW b \in Nat, a <= b
  PROVE  k * a <= k * b /\ k * a \in Nat /\ k * b \in Nat
OBVIOUS

(* By the last but one pass of the window one exchange is left. *)
LEMMA ReachedLate ==
  ASSUME KeepsUp, RowsInv, PassTyped, NEW n \in Nat, n >= Lookback - 2, Reached(n)
  PROVE  OneLeft(Left)
<1> SUFFICES ASSUME Cardinality(Left) + MaxExchanges * n <= MaxTurns PROVE OneLeft(Left)
  BY DEF Reached
<1>1. Left \in SUBSET (1..tip) /\ Cardinality(Left) \in Nat
  BY LeftIs
<1>2. Lookback - 2 \in Nat /\ MaxExchanges \in Nat /\ MaxTurns \in Nat
  BY IngestAssumption DEF KeepsUp
<1> DEFINE a == MaxExchanges * (Lookback - 2)
           b == MaxExchanges * n
<1>3. a <= b /\ a \in Nat /\ b \in Nat
  BY <1>2, TimesMore
<1>4. MaxTurns <= 1 + a /\ Cardinality(Left) + b <= MaxTurns
  BY DEF KeepsUp
<1> HIDE DEF a, b
<1>5. Cardinality(Left) <= 1
  BY <1>1, <1>2, <1>3, <1>4
<1> QED BY <1>1, <1>5, FewIsOne

(* A part of the path that is one exchange has no second one. *)
LEMMA OnlyOne ==
  ASSUME RowsInv, PassTyped, OneLeft(Rest),
         NEW d \in BuildExchanges(Rest), NEW e \in BuildExchanges(Rest)
  PROVE  d = e
<1>1. Rest \in SUBSET (1..tip) /\ tip \in Nat /\ seen \in 0..tip /\ local.turn \in 0..tip
  BY RestIs DEF PassTyped
<1>3. ASSUME NEW s \in Rest, NEW r \in Rest, s < r, StartsExchange(Rest, r)
      PROVE  FALSE
  <2>1. ~Inner(r)
    BY <1>1, <1>3 DEF StartsExchange, Inner
  <2>2. prev[r] \notin Rest
    BY <1>3, <2>1 DEF OneLeft
  <2>3. s \in Paths[seen] /\ r \in Paths[seen] /\ s \in 1..tip /\ r \in 1..tip
    BY <1>1, <1>3 DEF Rest
  <2>4. s \in Paths[r]
    BY <1>1, <1>3, <2>3, OnPath
  <2>5. s \in Paths[prev[r]] /\ prev[r] \in 0..tip
    <3>1. Paths[r] = {r} \cup Paths[prev[r]] /\ prev[r] \in 0..(r - 1)
      BY <2>3, OnPath
    <3> QED BY <1>1, <1>3, <2>3, <2>4, <3>1
  <2>6. prev[r] # 0
    BY <2>5, OnPath
  <2>7. prev[r] \in Paths[r] /\ Paths[r] \subseteq Paths[seen]
    <3>1. Paths[r] = {r} \cup Paths[prev[r]] /\ prev[r] \in Paths[prev[r]]
      BY <2>3, <2>5, <2>6, OnPath
    <3> QED BY <1>1, <2>3, <3>1, OnPath
  <2>8. prev[r] \in Paths[local.turn]
    BY <2>2, <2>7 DEF Rest
  <2>9. s \in Paths[local.turn]
    BY <1>1, <2>5, <2>8, OnPath
  <2> QED BY <1>3, <2>9 DEF Rest
<1>4. PICK s \in Rest : StartsExchange(Rest, s) /\ d = ExchangeFrom(Rest, s)
  BY DEF BuildExchanges
<1>5. PICK r \in Rest : StartsExchange(Rest, r) /\ e = ExchangeFrom(Rest, r)
  BY DEF BuildExchanges
<1>6. ~(s < r) /\ ~(r < s) /\ s \in Nat /\ r \in Nat
  BY <1>1, <1>3, <1>4, <1>5
<1>7. s = r
  BY <1>6
<1> QED BY <1>4, <1>5, <1>7

(* When there is only one, the turns it begins after are followed in it. *)
LEMMA OnlyOneLeft ==
  ASSUME RowsInv, PassTyped, \A d, e \in BuildExchanges(Rest) : d = e
  PROVE  OneLeft(Rest)
<1> SUFFICES ASSUME NEW u \in Rest, prev[u] \in Rest PROVE Inner(u)
  BY DEF OneLeft
<1>1. Rest \in SUBSET (1..tip) /\ tip \in Nat
  BY RestIs
<1>2. PICK e \in BuildExchanges(Rest) : u \in e
  BY <1>1, ExchangesCover
<1>3. prev[u] \in e
  BY <1>1, <1>2, ExchangesCover
<1>4. PICK s \in e : /\ StartsExchange(Rest, s)
                     /\ \A x \in e : s <= x /\ (x # s => ~StartsExchange(Rest, x))
                     /\ e = ExchangeFrom(Rest, s)
  BY <1>1, <1>2, ExchangeIs
<1>5. s <= prev[u] /\ prev[u] < u /\ s \in Nat /\ u \in Nat /\ prev[u] \in Nat
  <2>1. s <= prev[u]
    BY <1>3, <1>4
  <2>2. e \subseteq Rest
    BY <1>1, <1>2, ExchangeIs
  <2>3. s \in 1..tip /\ u \in 1..tip /\ prev[u] \in 1..tip
    BY <1>1, <1>2, <1>3, <1>4, <2>2
  <2>4. prev[u] \in 0..(u - 1)
    BY <2>3, OnPath
  <2> QED BY <2>1, <2>3, <2>4
<1>6. u # s
  BY <1>5
<1> QED BY <1>2, <1>4, <1>6 DEF StartsExchange, Inner

(* No exchange is ready only when one is left and its last turn is going   *)
(* on, or waits for the user and has not timed out.                        *)
LEMMA NoneReady ==
  ASSUME RowsInv, PassTyped, Rest # {}, ReadyExchanges(Rest) = <<>>
  PROVE  /\ OneLeft(Rest) /\ ~Ended(seen)
         /\ ~(state[seen] = "paused" /\ waited)
<1>1. /\ Rest \in SUBSET (1..tip) /\ tip \in Nat /\ seen \in 0..tip /\ local.turn \in 0..tip
      /\ Rest \in SUBSET (0..tip)
  BY RestIs DEF PassTyped
<1>2. ReadySet(Rest) = {}
  <2> DEFINE R == ReadyExchanges(Rest)
  <2>1. Len(R) = Cardinality(ReadySet(Rest))
    BY <1>1, QueueIs
  <2>2. Cardinality(ReadySet(Rest)) = 0
    BY <2>1
  <2>3. IsFiniteSet(ReadySet(Rest))
    BY <1>1, RanksFilled
  <2> QED BY <2>2, <2>3, FS_EmptySet
<1>3. PICK t \in Rest : \A x \in Rest : t <= x
  <2>1. Rest \in SUBSET Nat
    BY <1>1
  <2> QED BY <2>1, LeastNat
<1>4. PICK e \in BuildExchanges(Rest) : t \in e
  BY <1>1, ExchangesCover
<1>5. \A d \in BuildExchanges(Rest) : d \subseteq Rest /\ d # {} /\ Max(d) \in d /\ Max(d) \in Nat
  BY <1>1, ExchangeIs, ExchangeEnd
<1>6. ASSUME NEW d \in BuildExchanges(Rest) PROVE d = e \/ ~(Max(d) <= Max(e))
  <2> SUFFICES ASSUME Max(d) <= Max(e), d # e PROVE FALSE
    OBVIOUS
  <2>1. \A x \in d, y \in e : x < y
    BY <1>1, <1>4, ExchangesApart
  <2>2. PICK x \in d : x < t
    BY <1>4, <1>5, <2>1
  <2>3. x \in Rest /\ t <= x
    BY <1>3, <1>5, <2>2
  <2> QED BY <1>1, <2>2, <2>3
<1>7. Before(Rest, e) = {}
  <2> SUFFICES ASSUME NEW d \in Before(Rest, e) PROVE FALSE
    OBVIOUS
  <2>1. d \in BuildExchanges(Rest) /\ Max(d) < Max(e) /\ d # e
    BY <1>4, <1>5 DEF Before
  <2> QED BY <1>4, <1>5, <1>6, <2>1
<1>8. ~IsReady(Rest, e)
  <2>1. Cardinality(Before(Rest, e)) < MaxExchanges
    BY <1>7, FS_EmptySet, IngestAssumption
  <2>2. IsReady(Rest, e) => e \in ReadySet(Rest)
    BY <1>4, <1>7, <2>1 DEF ReadySet
  <2> QED BY <1>2, <2>2
<1> DEFINE m == Max(e)
           x == Max(Rest)
<1>9. x = m /\ ~Ended(m) /\ ~(state[m] = "paused" /\ waited)
  BY <1>8 DEF IsReady
<1>10. x \in Rest /\ \A y \in Rest : y <= x
  BY <1>1, MaxIs
<1>11. seen \in Rest
  <2>1. \A y \in Paths[seen] : y \in 1..tip /\ seen # 0
    BY <1>1, OnPath
  <2>2. seen \in Paths[seen]
    <3>1. seen # 0
      BY <2>1 DEF Rest
    <3> QED BY <1>1, <3>1, OnPath
  <2>3. seen \in Paths[local.turn] => Paths[seen] \subseteq Paths[local.turn]
    BY <1>1, OnPath
  <2> QED BY <2>2, <2>3 DEF Rest
<1>12. x <= seen
  <2>1. x \in Paths[seen]
    BY <1>10 DEF Rest
  <2> QED BY <1>1, <2>1, OnPath
<1> HIDE DEF m, x
<1>13. x = seen
  <2>1. seen <= x /\ x \in Nat /\ seen \in Nat
    BY <1>1, <1>10, <1>11
  <2> QED BY <1>12, <2>1
<1>14. \A d \in BuildExchanges(Rest) : d = e
  <2> TAKE d \in BuildExchanges(Rest)
  <2>1. Max(d) \in Rest
    BY <1>5
  <2>2. Max(d) <= Max(e)
    BY <1>9, <1>10, <2>1 DEF m
  <2> QED BY <1>6, <2>2
<1>15. OneLeft(Rest)
  BY <1>14, OnlyOneLeft
<1> QED BY <1>9, <1>13, <1>15

(* A closed exchange that is not queued has the limit before it. *)
LEMMA EnoughQueued ==
  ASSUME NEW n \in Nat, NEW S \in SUBSET (1..n),
         NEW e \in BuildExchanges(S), e \notin ReadySet(S), Max(e) # Max(S)
  PROVE  MaxExchanges <= Cardinality(ReadySet(S))
<1> DEFINE C == ReadySet(S)
           B == Before(S, e)
<1>1. /\ IsFiniteSet(C) /\ Cardinality(C) \in Nat /\ MaxExchanges \in Nat
      /\ C \subseteq BuildExchanges(S) /\ B \subseteq BuildExchanges(S)
  <2>1. IsFiniteSet(C) /\ Cardinality(C) \in Nat
    BY RanksFilled
  <2>2. C \subseteq BuildExchanges(S) /\ B \subseteq BuildExchanges(S)
    BY DEF ReadySet, Before
  <2> QED BY <2>1, <2>2, IngestAssumption
<1>2. \A d \in BuildExchanges(S) :
        /\ d \subseteq S /\ d # {} /\ Max(d) \in d /\ Max(d) \in Nat
        /\ IsFiniteSet(Before(S, d)) /\ Cardinality(Before(S, d)) \in Nat
  BY ExchangeIs, ExchangeEnd, RankIs
<1>3. \A y \in S : y <= Max(S)
  <2>1. S \in SUBSET (0..n) /\ S # {}
    BY <1>2
  <2> QED BY <2>1, MaxIs
<1>4. ASSUME NEW d \in B \cup {e} PROVE IsReady(S, d)
  <2>1. d \in BuildExchanges(S) /\ (d = e \/ Max(d) < Max(e))
    BY DEF Before
  <2>2. Max(e) \in Nat /\ Max(e) \in S /\ Max(d) \in Nat /\ Max(S) \in Nat
    <3>1. Max(S) \in S
      <4>1. S \in SUBSET (0..n) /\ S # {}
        BY <1>2
      <4> QED BY <4>1, MaxIs
    <3>2. \A y \in S : y \in Nat
      OBVIOUS
    <3>3. Max(e) \in S /\ Max(d) \in Nat
      BY <1>2, <2>1
    <3> QED BY <3>1, <3>2, <3>3
  <2>3. Max(e) < Max(S)
    BY <1>3, <2>2
  <2>4. Max(d) # Max(S)
    BY <2>1, <2>2, <2>3
  <2> QED BY <2>4 DEF IsReady
<1>5. Cardinality(B) >= MaxExchanges
  <2>1. ~(Cardinality(B) < MaxExchanges)
    BY <1>4 DEF ReadySet
  <2>2. Cardinality(B) \in Nat
    BY <1>2
  <2> QED BY <1>1, <2>1, <2>2
<1> SUFFICES ASSUME Cardinality(C) < MaxExchanges PROVE FALSE
  BY <1>1
<1>6. B \ C # {}
  <2> SUFFICES ASSUME B \in SUBSET C PROVE FALSE
    OBVIOUS
  <2>1. Cardinality(B) <= Cardinality(C)
    BY <1>1, FS_Subset
  <2>2. Cardinality(B) \in Nat
    BY <1>2
  <2> QED BY <1>1, <1>5, <2>1, <2>2
<1> DEFINE Ends == {Max(d) : d \in B \ C}
<1>7. PICK d \in B \ C : \A x \in B \ C : Max(d) <= Max(x)
  <2>1. Ends \in SUBSET Nat /\ Ends # {}
    BY <1>1, <1>2, <1>6
  <2> HIDE DEF Ends
  <2>2. PICK k \in Ends : \A x \in Ends : k <= x
    BY <2>1, LeastNat
  <2>3. PICK d \in B \ C : k = Max(d)
    BY <2>2 DEF Ends
  <2>4. \A x \in B \ C : Max(d) <= Max(x)
    BY <2>2, <2>3 DEF Ends
  <2> QED BY <2>4
<1>8. d \in BuildExchanges(S) /\ Max(d) < Max(e) /\ d \notin C
  BY <1>7 DEF Before
<1>9. Before(S, d) \in SUBSET B
  BY <1>1, <1>2, <1>8, RankIs
<1>10. Before(S, d) \in SUBSET C
  <2> SUFFICES ASSUME NEW x \in Before(S, d), x \notin C PROVE FALSE
    OBVIOUS
  <2>1. x \in B \ C /\ Max(x) < Max(d) /\ x \in BuildExchanges(S)
    BY <1>9 DEF Before
  <2> QED BY <1>2, <1>7, <1>8, <2>1
<1>11. Cardinality(Before(S, d)) < MaxExchanges
  <2>1. Cardinality(Before(S, d)) <= Cardinality(C)
    BY <1>1, <1>10, FS_Subset
  <2>2. Cardinality(Before(S, d)) \in Nat
    BY <1>2, <1>8
  <2> QED BY <1>1, <2>1, <2>2
<1>12. \A x \in Before(S, d) \cup {d} : IsReady(S, x)
  BY <1>4, <1>7, <1>9
<1> QED BY <1>8, <1>11, <1>12 DEF ReadySet

LEMMA ClockNext ==
  ASSUME IngestInv, ClockInv, [Next]_vars
  PROVE  ClockInv' /\ (faults' = 0 => faults = 0)
<1>0. /\ faults \in Nat /\ (faults = 0 => pass # "fail") /\ (pass # "off" => ~ran)
      /\ (pass # "off" /\ age > 0 => seen = tip /\ waited = (idle >= PauseTimeout))
      /\ tip \in Nat /\ age \in Nat /\ idle \in Nat /\ ExecTime \in Nat
  BY IngestAssumption, OnPath DEF ClockInv, IngestInv, RowsInv
<1>1. ASSUME UNCHANGED <<turnVars, timeVars>>
      PROVE  /\ UNCHANGED <<tip, state, age, idle>>
             /\ tip' # 0 /\ state'[tip'] = "running" => age' <= ExecTime
             /\ tip' # 0 /\ state'[tip'] # "running" => age' <= idle' + ExecTime
  BY <1>1 DEF turnVars, timeVars, ClockInv
<1>2. CASE \E p \in 0..Len(prev), i \in Inputs : NewTurn(p, i)
  <2>1. age' = 0 /\ idle' = 0 /\ UNCHANGED <<faults, pass, ran>>
    BY <1>2 DEF NewTurn, passVars
  <2> QED BY <1>0, <2>1 DEF ClockInv
<1>3. CASE \E t \in Turns, s \in {"done", "failed", "paused"} : FinishTurn(t, s)
  <2>1. PICK t \in Turns, s \in {"done", "failed", "paused"} : FinishTurn(t, s)
    BY <1>3
  <2>2. /\ state[t] = "running" /\ state' = [state EXCEPT ![t] = s]
        /\ UNCHANGED <<prev, tip, age, idle, pass, ran, seen, waited, faults>>
    BY <2>1 DEF FinishTurn, timeVars, passVars
  <2>3. DOMAIN state = 1..tip
    BY DEF IngestInv, RowsInv
  <2>4. tip # 0 => tip \in 1..tip
    BY <1>0
  <2>5. tip # 0 => state'[tip] = IF t = tip THEN s ELSE state[tip]
    BY <2>2, <2>3, <2>4
  <2>6. tip # 0 /\ state[tip] = "running" => age <= idle + ExecTime
    BY <1>0 DEF ClockInv
  <2> QED BY <1>0, <2>2, <2>5, <2>6 DEF ClockInv
<1>4. CASE ListCandidates
  <2>1. pass = "off" /\ UNCHANGED <<turnVars, timeVars, faults>>
    BY <1>4 DEF ListCandidates
  <2>2. pass' = "off" \/ (pass' = "turns" /\ seen' = tip /\ waited' = (idle >= PauseTimeout)
                               /\ ran' = ran /\ ~ran)
    BY <1>4 DEF ListCandidates, EndPass
  <2> QED BY <1>0, <1>1, <2>1, <2>2 DEF ClockInv
<1>5. CASE ListTurns
  <2>1. pass = "turns" /\ UNCHANGED <<turnVars, timeVars, faults>>
    BY <1>5 DEF ListTurns
  <2>2. pass' = "off" \/ (pass' = "send" /\ UNCHANGED <<seen, waited, ran>>)
    BY <1>5 DEF ListTurns, EndPass
  <2> QED BY <1>0, <1>1, <2>1, <2>2 DEF ClockInv
<1>6. CASE IngestExchange
  <2>1. pass = "send" /\ pass' = "save" /\ UNCHANGED <<turnVars, timeVars, faults, seen, waited, ran>>
    BY <1>6 DEF IngestExchange
  <2> QED BY <1>0, <1>1, <2>1 DEF ClockInv
<1>7. CASE SaveCursor
  <2>1. pass = "save" /\ UNCHANGED <<turnVars, timeVars, faults>>
    BY <1>7 DEF SaveCursor
  <2>2. pass' = "off" \/ (pass' = "send" /\ UNCHANGED <<seen, waited, ran>>)
    BY <1>7 DEF SaveCursor, EndPass
  <2> QED BY <1>0, <1>1, <2>1, <2>2 DEF ClockInv
<1>8. CASE SaveError \/ Interrupt \/ LoseWrite
  <2>1. pass' = "off" /\ UNCHANGED <<turnVars, timeVars>> /\ faults' \in {faults, faults + 1}
    BY <1>8 DEF SaveError, Interrupt, LoseWrite, EndPass, Fault
  <2> QED BY <1>0, <1>1, <2>1 DEF ClockInv
<1>9. CASE \E stored \in BOOLEAN : IngestFails(stored)
  <2>1. /\ pass = "send" /\ pass' = "fail" /\ faults' = faults + 1
        /\ UNCHANGED <<turnVars, timeVars, seen, waited, ran>>
    BY <1>9 DEF IngestFails, Fault
  <2> QED BY <1>0, <1>1, <2>1 DEF ClockInv
<1>10. CASE Tick
  <2>1. /\ pass = "off" /\ age' = age + 1 /\ pass' = pass /\ faults' = faults
        /\ UNCHANGED <<tip, state>>
        /\ state[tip] = "running" => age < ExecTime
        /\ idle' = IF state[tip] = "running" THEN 0 ELSE idle + 1
    BY <1>10 DEF Tick, turnVars, passVars
  <2> QED BY <1>0, <2>1 DEF ClockInv
<1>11. CASE UNCHANGED vars
  BY <1>0, <1>11 DEF vars, turnVars, timeVars, passVars, ClockInv
<1> QED BY <1>2, <1>3, <1>4, <1>5, <1>6, <1>7, <1>8, <1>9, <1>10, <1>11 DEF Next

(* A fresh turn has all the passes of its window before it. *)
LEMMA FreshTurn ==
  ASSUME KeepsUp, RowsInv', PassTyped', age' = 0
  PROVE  PaceInv' /\ LateInv'
<1>1. /\ Rows(prev') /\ tip' = Len(prev') /\ tip' <= MaxTurns /\ tip' \in Nat /\ tip' \in 0..Len(prev')
  BY DEF RowsInv, Rows
<1>2. Left' \in SUBSET (1..tip')
  <2>1. PathsOf(prev')[tip'] \subseteq 1..tip'
    BY <1>1, PathBelow
  <2> QED BY <2>1 DEF Left, Paths
<1>3. Cardinality(Left') \in Nat /\ Cardinality(Left') <= tip'
  BY <1>1, <1>2, SmallSet
<1>4. MaxTurns \in Nat /\ MaxExchanges \in Nat /\ MaxExchanges * 0 = 0
      /\ Lookback - 1 > 0 /\ Gone - 1 > 0 /\ Lookback \in Nat /\ Gone \in Nat
  BY IngestAssumption DEF KeepsUp, Gone
<1>5. Cardinality(Left') + MaxExchanges * 0 <= MaxTurns
  BY <1>1, <1>3, <1>4
<1>6. Passes' = 0
  BY DEF Passes
<1>7. PaceInv'
  BY <1>5, <1>6 DEF PaceInv, Reached
<1>8. LateInv'
  <2>1. ~(age' >= Lookback - 1) /\ ~(age' >= Lookback) /\ ~(age' = Lookback - 1)
    BY <1>4
  <2>2. ~(age' >= Gone) /\ ~(age' = Gone - 1)
    BY <1>4
  <2> QED BY <2>1, <2>2 DEF LateInv, Gone
<1> QED BY <1>7, <1>8

(* What the end of a pass has to show. *)
LEMMA PassEnds ==
  ASSUME KeepsUp, EndPass, UNCHANGED <<turnVars, timeVars>>,
         OneLeft(Left)' \/ Cardinality(Left') + MaxExchanges * age <= MaxTurns,
         Ended(tip) /\ age >= Lookback - 1 => Left' = {},
         age >= Gone - 1 => Left' = {},
         RowsInv
  PROVE  PaceInv' /\ LateInv'
<1>1. /\ UNCHANGED <<prev, input, state, tip, age, idle>> /\ pass' = "off" /\ ran' = TRUE
      /\ age \in Nat /\ Lookback \in Nat /\ Gone \in Nat
  BY IngestAssumption DEF EndPass, turnVars, timeVars, RowsInv, Gone
<1>2. ~Working' /\ Passes' = age /\ (Ended(tip)' <=> Ended(tip))
  BY <1>1 DEF Working, Passes, Ended
<1>3. PaceInv'
  BY <1>1, <1>2 DEF PaceInv, Reached
<1>4. LateInv'
  BY <1>1, <1>2 DEF LateInv, Gone
<1> QED BY <1>3, <1>4

LEMMA ListCandidatesInTime ==
  ASSUME KeepsUp, IngestInv, IngestInv', ClockInv, PaceInv, LateInv, tip # 0, ListCandidates
  PROVE  PaceInv' /\ LateInv'
<1>0. /\ pass = "off" /\ ~ran /\ UNCHANGED <<turnVars, timeVars, cursor>>
      /\ UNCHANGED <<prev, input, state, tip, age, idle>>
      /\ age \in Nat /\ RowsInv /\ PassTyped /\ ~Working
      /\ Lookback \in Nat /\ Gone \in Nat /\ PauseTimeout \in Nat /\ ExecTime \in Nat
      /\ Gone = PauseTimeout + Lookback /\ ExecTime + 1 < Lookback /\ Lookback > 0
  BY BoundsAre DEF ListCandidates, turnVars, timeVars, IngestInv, RowsInv, Working, Gone,
     KeepsUp
<1>1. CASE age = 0
  BY <1>0, <1>1, FreshTurn DEF IngestInv
<1>2. CASE age # 0 /\ ~IsCandidate
  <2>1. EndPass
    BY <1>2 DEF ListCandidates
  <2>2. Left' = Left
    BY <1>0 DEF Left, Paths
  <2>3. CASE cursor.turn = tip
    <3>1. Left' = {}
      BY <1>0, <2>2, <2>3, LeftIs
    <3>2. OneLeft(Left)'
      BY <3>1 DEF OneLeft
    <3> QED BY <1>0, <2>1, <3>1, <3>2, PassEnds
  <2>4. CASE cursor.turn # tip
    <3>1. age >= Lookback /\ ~(state[tip] = "paused" /\ PauseTimeout <= age /\ age < Gone)
      BY <1>0, <1>2, <2>4 DEF IsCandidate
    <3>2. Passes = age - 1 /\ Reached(age - 1)
      BY <1>0, <1>2 DEF Passes, PaceInv
    <3>3. age - 1 \in Nat /\ age - 1 >= Lookback - 2
      BY <1>0, <1>2, <3>1
    <3>4. OneLeft(Left)
      BY <1>0, <3>2, <3>3, ReachedLate
    <3>5. OneLeft(Left)'
      BY <1>0, <2>2, <3>4 DEF OneLeft, Inner, Ended
    <3>6. Ended(tip) => Left = {}
      BY <3>1 DEF LateInv
    <3>7. Ended(tip) \/ state[tip] = "paused"
      <4>1. tip \in 1..tip
        BY <1>0, OnPath
      <4>2. state[tip] \in States
        BY <1>0, <4>1 DEF RowsInv
      <4>3. state[tip] # "running"
        BY <1>0, <3>1 DEF ClockInv
      <4> QED BY <4>2, <4>3 DEF Ended, States
    <3>8. age >= Gone - 1 => Left = {}
      <4>1. age >= Gone - 1 => PauseTimeout <= age
        BY <1>0
      <4>2. age >= Gone => Left = {}
        BY DEF LateInv
      <4> QED BY <1>0, <3>1, <3>6, <3>7, <4>1, <4>2
    <3> QED BY <1>0, <2>1, <2>2, <3>5, <3>6, <3>8, PassEnds
  <2> QED BY <2>3, <2>4
<1>3. CASE age # 0 /\ IsCandidate
  <2>1. pass' = "turns" /\ ran' = ran /\ ~Working'
    BY <1>3 DEF ListCandidates, Working
  <2>2. /\ Left' = Left /\ Passes' = Passes /\ (\A u : Inner(u)' <=> Inner(u))
        /\ (Ended(tip)' <=> Ended(tip))
    BY <1>0, <2>1 DEF Left, Paths, Passes, Inner, Ended
  <2>3. Reached(Passes)'
    <3>1. Reached(Passes)
      BY <1>0 DEF PaceInv
    <3> QED BY <2>2, <3>1, <1>0 DEF Reached, OneLeft
  <2>4. PaceInv'
    BY <2>1, <2>3 DEF PaceInv
  <2>5. LateInv'
    BY <1>0, <2>1, <2>2 DEF LateInv, Gone
  <2> QED BY <2>4, <2>5
<1> QED BY <1>1, <1>2, <1>3

LEMMA ListTurnsInTime ==
  ASSUME KeepsUp, IngestInv, OnceInv, IngestInv', ClockInv, PaceInv, LateInv, tip # 0, ListTurns
  PROVE  PaceInv' /\ LateInv'
<1>0. /\ pass = "turns" /\ ~ran /\ UNCHANGED <<turnVars, timeVars, cursor>>
      /\ UNCHANGED <<prev, input, state, tip, age, idle>>
      /\ age \in Nat /\ idle \in Nat /\ tip \in Nat /\ RowsInv /\ PassTyped /\ ~Working
      /\ Lookback \in Nat /\ Gone \in Nat /\ PauseTimeout \in Nat /\ ExecTime \in Nat
      /\ Gone = PauseTimeout + Lookback /\ ExecTime + 1 < Lookback /\ Lookback > 0
      /\ MaxExchanges \in Nat /\ MaxTurns \in Nat
  BY BoundsAre, OnPath DEF ListTurns, turnVars, timeVars, IngestInv, RowsInv, Working, Gone,
     KeepsUp, ClockInv
<1>1. CASE age = 0
  BY <1>0, <1>1, FreshTurn DEF IngestInv
<1> SUFFICES ASSUME age # 0 PROVE PaceInv' /\ LateInv'
  BY <1>1
<1>2. seen = tip /\ waited = (idle >= PauseTimeout) /\ Rest = Left /\ Left' = Left /\ (OneLeft(Left) => OneLeft(Left)')
      /\ (Ended(tip)' <=> Ended(tip))
  BY <1>0 DEF ClockInv, OnceInv, PassInv, Rest, Left, Paths, OneLeft, Inner, Ended
<1>3. Reached(age - 1) /\ age - 1 \in Nat
  BY <1>0 DEF Passes, PaceInv
<1>4. Left \in SUBSET (1..tip) /\ IsFiniteSet(Left) /\ Cardinality(Left) \in Nat
  BY <1>0, LeftIs
<1>5. CASE EndPass
  <2>1. Rest = {} \/ ReadyExchanges(Rest) = <<>>
    <3>1. ActivePath(seen) = Paths[seen]
      BY PathsAre DEF ActivePath
    <3>2. {t \in ActivePath(seen) : t > ResumeAfter(ActivePath(seen), local.turn)} = Rest
      BY <1>0, <3>1, RestIs
    <3>3. pass' = "off"
      BY <1>5 DEF EndPass
    <3> QED BY <3>2, <3>3 DEF ListTurns
  <2>2. CASE Rest = {}
    <3>1. Left' = {} /\ OneLeft(Left)'
      BY <1>2, <2>2 DEF OneLeft
    <3> QED BY <1>0, <1>5, <3>1, PassEnds
  <2>3. CASE Rest # {} /\ ReadyExchanges(Rest) = <<>>
    <3>1. /\ OneLeft(Left)' /\ ~Ended(tip)
          /\ ~(state[tip] = "paused" /\ idle >= PauseTimeout)
      BY <1>0, <1>2, <2>3, NoneReady
    <3>2. ~(age >= Gone - 1)
      <4> SUFFICES ASSUME age >= Gone - 1 PROVE FALSE
        OBVIOUS
      <4>1. tip \in 1..tip
        BY <1>0
      <4>2. state[tip] \in States
        BY <4>1 DEF IngestInv, RowsInv
      <4>3. age > ExecTime
        BY <1>0
      <4>4. state[tip] # "running" /\ age <= idle + ExecTime
        BY <1>0, <4>3 DEF ClockInv
      <4>5. idle >= PauseTimeout
        BY <1>0, <4>4
      <4> QED BY <3>1, <4>2, <4>4, <4>5 DEF Ended, States
    <3> QED BY <1>0, <1>5, <3>1, <3>2, PassEnds
  <2> QED BY <2>1, <2>2, <2>3
<1>6. CASE ~EndPass
  <2>1. /\ queue' = ReadyExchanges(Rest) /\ queue' # <<>> /\ pass' = "send"
        /\ queue' \in Seq(SUBSET Nat) /\ ran' = ran
        /\ \A i \in 1..Len(queue') : queue'[i] \in BuildExchanges(Rest)
    BY <1>6, QueueStarts
  <2>2. Working' /\ Len(queue') \in Nat /\ 1 \in 1..Len(queue')
    BY <2>1 DEF Working
  <2>3. Len(queue') = Cardinality(ReadySet(Left))
    <3> DEFINE R == queue'
    <3>1. R = ReadyExchanges(Left)
      BY <1>2, <2>1
    <3> HIDE DEF R
    <3>2. Len(R) = Cardinality(ReadySet(Left))
      BY <1>0, <1>4, <3>1, QueueIs
    <3> QED BY <3>2 DEF R
  <2>4. Queued' = {t \in 1..tip : \E i \in 1..Len(queue') : t \in queue'[i]}
    BY <1>0 DEF Queued
  <2>5. ASSUME OneLeft(Left) PROVE Left \subseteq Queued'
    <3> SUFFICES ASSUME NEW t \in Left PROVE t \in Queued'
      OBVIOUS
    <3>1. PICK e \in BuildExchanges(Rest) : t \in e
      BY <1>0, <1>2, <1>4, ExchangesCover
    <3>2. queue'[1] = e
      BY <1>0, <1>2, <2>1, <2>2, <2>5, <3>1, OnlyOne
    <3>3. t \in 1..tip
      BY <1>4
    <3> QED BY <2>2, <2>4, <3>1, <3>2, <3>3
  <2>6. ASSUME NEW u \in Left, u \notin Queued', prev[u] \in Left, prev[u] \notin Queued', ~Inner(u)
        PROVE  MaxExchanges <= Len(queue')
    <3> DEFINE v == prev[u]
    <3>0. v \in Left /\ v \notin Queued' /\ v \in 1..tip /\ u \in 1..tip /\ v < u
      <4>1. u \in 1..tip /\ v \in 1..tip
        BY <1>4, <2>6
      <4>2. prev[u] \in 0..(u - 1)
        BY <1>0, <4>1, OnPath
      <4> QED BY <2>6, <4>1, <4>2
    <3>1. PICK e \in BuildExchanges(Left) : v \in e
      BY <1>0, <1>4, <3>0, ExchangesCover
    <3>2. PICK s \in e : /\ StartsExchange(Left, s)
                         /\ \A x \in e : s <= x /\ (x # s => ~StartsExchange(Left, x))
                         /\ e = ExchangeFrom(Left, s)
      BY <1>0, <1>4, <3>1, ExchangeIs
    <3>3. e \subseteq Left /\ Max(e) \in e /\ \A x \in e : x <= Max(e)
      BY <1>0, <1>4, <3>1, ExchangeIs
    <3>4. StartsExchange(Left, u)
      BY <2>6 DEF StartsExchange, Inner
    <3> HIDE DEF v
    <3>5. u \notin e /\ s \in 1..tip /\ s < u
      <4>1. s <= v /\ s \in 1..tip
        BY <1>4, <3>1, <3>2, <3>3
      <4>2. s < u
        BY <3>0, <4>1
      <4>3. u # s
        BY <3>0, <4>1, <4>2
      <4> QED BY <3>2, <3>4, <4>1, <4>2, <4>3
    <3> DEFINE m == Max(e)
    <3>6. m \in Left /\ m < u
      <4>1. m \in e /\ m \in Left
        BY <3>3
      <4> HIDE DEF m
      <4>2. m \in 1..tip
        BY <1>4, <4>1
      <4>3. ~(u <= m)
        <5>1. u <= m => ~StartsExchange(Left, u)
          BY <3>2, <3>5, <4>1 DEF ExchangeFrom
        <5> QED BY <3>4, <5>1
      <4> QED BY <3>0, <4>1, <4>2, <4>3
    <3> HIDE DEF m
    <3>7. m # Max(Left)
      <4> DEFINE x == Max(Left)
      <4>1. Left \in SUBSET (0..tip) /\ Left # {}
        BY <1>4, <3>0
      <4>2. \A y \in Left : y <= x
        BY <1>0, <4>1, MaxIs
      <4> HIDE DEF x
      <4>3. u <= x /\ m \in 1..tip /\ u \in 1..tip
        BY <1>4, <3>0, <3>6, <4>2
      <4>4. m # x
        BY <3>6, <4>3
      <4> QED BY <4>4 DEF x
    <3>8. e \notin ReadySet(Left)
      <4> SUFFICES ASSUME e \in ReadySet(Left) PROVE FALSE
        OBVIOUS
      <4>1. PICK i \in 1..Len(queue') : queue'[i] = e
        BY <1>0, <1>2, <1>4, <2>1, QueueHolds
      <4>2. v \in Queued'
        BY <2>4, <3>0, <3>1, <4>1
      <4> QED BY <3>0, <4>2
    <3> QED BY <1>0, <1>4, <2>3, <3>1, <3>7, <3>8, EnoughQueued DEF m
  <2>7. PaceInv'
    <3>1. Reached(age - 1) => OneLeft(Left \ Queued')
                              \/ Cardinality(Left) + MaxExchanges * age <= MaxTurns + Len(queue')
      <4>1. CASE OneLeft(Left)
        BY <4>1, OneLeftBelow
      <4>2. CASE Cardinality(Left) + MaxExchanges * (age - 1) <= MaxTurns /\ MaxExchanges <= Len(queue')
        <5>1. MaxExchanges * age = MaxExchanges * (age - 1) + MaxExchanges
          BY <1>0
        <5> DEFINE a == MaxExchanges * (age - 1)
                   b == MaxExchanges * age
        <5>2. a \in Nat /\ b = a + MaxExchanges /\ Cardinality(Left) + a <= MaxTurns
          BY <1>0, <1>3, <4>2, <5>1
        <5> HIDE DEF a, b
        <5>3. Cardinality(Left) + b <= MaxTurns + Len(queue')
          BY <1>0, <1>4, <2>2, <4>2, <5>2
        <5> QED BY <5>3 DEF b
      <4>3. CASE ~(MaxExchanges <= Len(queue'))
        BY <2>6, <4>3 DEF OneLeft
      <4> QED BY <4>1, <4>2, <4>3 DEF Reached
    <3>2. OneLeft(Left \ Queued') => OneLeft(Left \ Queued)'
      BY <1>0, <1>2 DEF OneLeft, Inner, Ended
    <3> QED BY <1>0, <1>2, <1>3, <2>2, <3>1, <3>2 DEF PaceInv
  <2>8. LateInv'
    <3>1. age >= Lookback - 1 => Left \subseteq Queued'
      <4>1. age >= Lookback - 1 => age - 1 >= Lookback - 2
        BY <1>0
      <4>2. age >= Lookback - 1 => OneLeft(Left)
        BY <1>0, <1>3, <4>1, ReachedLate
      <4> QED BY <2>5, <4>2
    <3> QED BY <1>0, <1>2, <2>1, <3>1 DEF LateInv, Gone
  <2> QED BY <2>7, <2>8
<1> QED BY <1>5, <1>6

LEMMA SaveCursorInTime ==
  ASSUME KeepsUp, IngestInv, OnceInv, IngestInv', ClockInv, PaceInv, LateInv, tip # 0, SaveCursor
  PROVE  PaceInv' /\ LateInv'
<1> DEFINE m == Max(queue[1])
<1>0. /\ ~ran /\ Working /\ UNCHANGED <<turnVars, timeVars>>
      /\ age \in Nat /\ tip \in Nat /\ RowsInv /\ PassTyped
      /\ Lookback \in Nat /\ Gone \in Nat /\ Gone - 1 >= Lookback
      /\ MaxExchanges \in Nat /\ MaxTurns \in Nat
  <2>1. pass = "save" /\ UNCHANGED <<turnVars, timeVars>>
    BY DEF SaveCursor
  <2>2. ~ran /\ Working
    BY <2>1 DEF ClockInv, Working
  <2>3. RowsInv /\ PassTyped /\ tip \in Nat /\ age \in Nat
    BY OnPath DEF IngestInv, RowsInv
  <2>4. /\ Lookback \in Nat /\ Gone \in Nat /\ Gone - 1 >= Lookback
        /\ MaxExchanges \in Nat /\ MaxTurns \in Nat
    BY IngestAssumption DEF Gone
  <2> QED BY <2>1, <2>2, <2>3, <2>4
<1>1. /\ queue # <<>> /\ queue \in Seq(SUBSET Nat) /\ Len(queue) \in Nat /\ cursor'.turn = m
      /\ 1 \in 1..Len(queue) /\ m \in queue[1]
      /\ queue[1] \subseteq Paths[seen] \ Paths[cursor.turn]
      /\ Paths[seen] \cap Paths[cursor.turn] \subseteq Paths[m] /\ queue[1] \subseteq Paths[m]
      /\ UNCHANGED <<prev, input, state, tip, age, idle>>
  BY CheckpointMoves
<1> HIDE DEF m
<1>2. CASE age = 0
  BY <1>1, <1>2, FreshTurn DEF IngestInv
<1> SUFFICES ASSUME age # 0 PROVE PaceInv' /\ LateInv'
  BY <1>2
<1>3. seen = tip /\ (\A S : OneLeft(S) => OneLeft(S)') /\ (Ended(tip)' <=> Ended(tip))
  BY <1>0, <1>1 DEF ClockInv, Working, OneLeft, Inner, Ended
<1>4. Left' \subseteq Left \ queue[1] /\ m \in Left
  BY <1>1, <1>3 DEF Left, Paths
<1>5. /\ Left \in SUBSET (1..tip) /\ IsFiniteSet(Left) /\ Cardinality(Left) \in Nat
      /\ Cardinality(Left') \in Nat /\ Cardinality(Left') <= Cardinality(Left) - 1
  <2>1. Left \in SUBSET (1..tip) /\ IsFiniteSet(Left) /\ Cardinality(Left) \in Nat
    BY <1>0, LeftIs
  <2> DEFINE L == Left \ {m}
  <2>2. IsFiniteSet(L) /\ Cardinality(L) = Cardinality(Left) - 1
    BY <1>4, <2>1, FS_RemoveElement
  <2>3. Left' \in SUBSET L
    BY <1>1, <1>4
  <2> HIDE DEF L
  <2>4. IsFiniteSet(Left') /\ Cardinality(Left') <= Cardinality(L)
    BY <2>2, <2>3, FS_Subset
  <2>5. Cardinality(Left') \in Nat
    BY <2>4, FS_CardinalityType
  <2> QED BY <2>1, <2>2, <2>4, <2>5
<1>6. \/ OneLeft(Left \ Queued)
      \/ Cardinality(Left) + MaxExchanges * age <= MaxTurns + Len(queue)
  BY <1>0 DEF PaceInv
<1> DEFINE b == MaxExchanges * age
<1>7. b \in Nat
  BY <1>0
<1>8. CASE Len(queue) = 1
  <2>1. EndPass
    BY <1>8 DEF SaveCursor
  <2>2. Queued \subseteq queue[1]
    BY <1>8 DEF Queued
  <2>3. OneLeft(Left)' \/ Cardinality(Left') + MaxExchanges * age <= MaxTurns
    <3>1. CASE OneLeft(Left \ Queued)
      <4>1. Left' \subseteq Left \ Queued
        BY <1>4, <2>2
      <4>2. OneLeft(Left')
        BY <3>1, <4>1 DEF OneLeft
      <4> QED BY <1>1, <4>2 DEF OneLeft, Inner, Ended
    <3>2. CASE Cardinality(Left) + b <= MaxTurns + 1
      <4> HIDE DEF b
      <4>1. Cardinality(Left') + b <= MaxTurns
        BY <1>0, <1>5, <1>7, <3>2
      <4> QED BY <4>1 DEF b
    <3> QED BY <1>6, <1>8, <3>1, <3>2
  <2>4. age >= Lookback - 1 => Left' = {}
    <3>1. age >= Lookback - 1 => Left \subseteq Queued
      BY <1>0 DEF LateInv
    <3> QED BY <1>4, <2>2, <3>1
  <2>5. age >= Gone - 1 => Left' = {}
    BY <1>0, <2>4
  <2> QED BY <1>0, <2>1, <2>3, <2>4, <2>5, PassEnds
<1>9. CASE Len(queue) # 1
  <2>1. pass' = "send" /\ queue' = Tail(queue) /\ ran' = ran /\ Working'
    BY <1>9 DEF SaveCursor, Working
  <2>2. /\ Len(queue') = Len(queue) - 1 /\ Len(queue') \in Nat
        /\ \A i \in 1..Len(queue') : queue'[i] = queue[i + 1] /\ i + 1 \in 1..Len(queue)
    BY <1>1, <2>1, TailIs
  <2>3. Queued \subseteq queue[1] \cup Queued'
    <3> SUFFICES ASSUME NEW t \in Queued, t \notin queue[1] PROVE t \in Queued'
      OBVIOUS
    <3>1. t \in 1..tip /\ \E i \in 1..Len(queue) : t \in queue[i]
      BY DEF Queued
    <3>2. PICK i \in 1..Len(queue) : t \in queue[i]
      BY <3>1
    <3>3. i # 1
      BY <3>2
    <3>4. i - 1 \in 1..Len(queue') /\ (i - 1) + 1 = i
      BY <1>1, <2>2, <3>3
    <3>5. t \in queue'[i - 1]
      BY <2>2, <3>2, <3>4
    <3> QED BY <1>1, <3>1, <3>4, <3>5 DEF Queued
  <2>4. PaceInv'
    <3>1. CASE OneLeft(Left \ Queued)
      <4>1. Left' \ Queued' \subseteq Left \ Queued
        BY <1>4, <2>3
      <4>2. OneLeft(Left' \ Queued')
        BY <3>1, <4>1 DEF OneLeft
      <4>3. OneLeft(Left \ Queued)'
        BY <1>1, <4>2 DEF OneLeft, Inner, Ended
      <4> QED BY <2>1, <4>3 DEF PaceInv
    <3>2. CASE Cardinality(Left) + b <= MaxTurns + Len(queue)
      <4> HIDE DEF b
      <4>1. Cardinality(Left') + b <= MaxTurns + Len(queue')
        BY <1>0, <1>1, <1>5, <1>7, <2>2, <3>2
      <4> QED BY <1>1, <2>1, <4>1 DEF PaceInv, b
    <3> QED BY <1>6, <3>1, <3>2
  <2>5. LateInv'
    <3>1. age >= Lookback - 1 => Left' \subseteq Queued'
      <4>1. age >= Lookback - 1 => Left \subseteq Queued
        BY <1>0 DEF LateInv
      <4> QED BY <1>4, <2>3, <4>1
    <3>2. Left = {} => Left' = {}
      BY <1>4
    <3> QED BY <1>0, <1>1, <1>3, <2>1, <3>1, <3>2 DEF LateInv, Gone
  <2> QED BY <2>4, <2>5
<1> QED BY <1>8, <1>9

(* A turn that ends: the last one is still in time to be seen. *)
LEMMA FinishTurnInTime ==
  ASSUME KeepsUp, IngestInv, ClockInv, PaceInv, LateInv, tip # 0,
         NEW t \in Turns, NEW s \in {"done", "failed", "paused"}, FinishTurn(t, s)
  PROVE  PaceInv' /\ LateInv'
<1>1. /\ UNCHANGED <<prev, input, tip, age, idle, cursor, pass, queue, ran>>
      /\ \A u \in 1..tip : state[u] # "running" => state'[u] = state[u]
  BY FinishTurnKeeps DEF FinishTurn, timeVars, passVars
<1>2. \A u \in 1..tip : Inner(u) => Inner(u)'
  BY <1>1, InnerStays
<1>3. Left' = Left /\ Queued' = Queued /\ Passes' = Passes /\ (Working' <=> Working)
  BY <1>1 DEF Left, Paths, Queued, Passes, Working
<1>4. Left \in SUBSET (1..tip)
  BY LeftIs DEF IngestInv
<1>5. PaceInv'
  <2>1. OneLeft(Left) => OneLeft(Left)'
    BY <1>1, <1>2, <1>3, <1>4 DEF OneLeft
  <2>2. OneLeft(Left \ Queued) => OneLeft(Left \ Queued)'
    BY <1>1, <1>2, <1>3, <1>4 DEF OneLeft
  <2>3. Reached(Passes) => Reached(Passes)'
    BY <1>3, <2>1 DEF Reached
  <2> QED BY <1>1, <1>3, <2>2, <2>3 DEF PaceInv
<1>6. LateInv'
  <2>1. tip \in 1..tip /\ age \in Nat /\ Lookback \in Nat /\ ExecTime \in Nat /\ ExecTime + 1 < Lookback
    BY IngestAssumption, OnPath DEF IngestInv, RowsInv, KeepsUp
  <2>2. age >= Lookback \/ age = Lookback - 1 => state[tip] # "running"
    BY <2>1 DEF ClockInv
  <2>3. age >= Lookback \/ age = Lookback - 1 => (Ended(tip)' <=> Ended(tip))
    BY <1>1, <2>1, <2>2 DEF Ended
  <2> QED BY <1>1, <1>3, <2>3 DEF LateInv, Gone
<1> QED BY <1>5, <1>6

(* The unit ends after its pass. *)
LEMMA TickInTime ==
  ASSUME KeepsUp, IngestInv, ClockInv, PaceInv, LateInv, tip # 0, Tick
  PROVE  PaceInv' /\ LateInv'
<1>1. /\ ran /\ pass = "off" /\ pass' = pass /\ ran' = FALSE /\ age' = age + 1 /\ age \in Nat
      /\ UNCHANGED <<prev, input, state, tip, cursor, queue>>
      /\ Lookback \in Nat /\ Gone \in Nat
  BY IngestAssumption DEF Tick, turnVars, passVars, IngestInv, RowsInv, Gone
<1>2. /\ Left' = Left /\ ~Working /\ ~Working' /\ Passes = age /\ Passes' = age
      /\ (OneLeft(Left)' <=> OneLeft(Left)) /\ (Ended(tip)' <=> Ended(tip))
  BY <1>1 DEF Left, Paths, Working, Passes, OneLeft, Inner, Ended
<1>3. PaceInv'
  BY <1>2 DEF PaceInv, Reached
<1>4. LateInv'
  BY <1>1, <1>2 DEF LateInv, Gone
<1> QED BY <1>3, <1>4

LEMMA InTimeNext ==
  ASSUME KeepsUp, IngestInv, OnceInv, IngestInv', InTimeInv, [Next]_vars
  PROVE  InTimeInv'
<1>1. ClockInv /\ ClockInv' /\ (faults' = 0 => faults = 0)
  BY ClockNext DEF InTimeInv
<1> SUFFICES ASSUME faults = 0, faults' = 0, tip' # 0 PROVE PaceInv' /\ LateInv'
  BY <1>1 DEF InTimeInv
<1>2. CASE \E p \in 0..Len(prev), i \in Inputs : NewTurn(p, i)
  <2>1. age' = 0
    BY <1>2 DEF NewTurn
  <2> QED BY <2>1, FreshTurn DEF IngestInv
<1>3. ASSUME tip' = tip PROVE tip # 0 /\ PaceInv /\ LateInv
  BY <1>3 DEF InTimeInv
<1>4. CASE \E t \in Turns, s \in {"done", "failed", "paused"} : FinishTurn(t, s)
  BY <1>1, <1>3, <1>4, FinishTurnInTime DEF FinishTurn
<1>5. CASE ListCandidates
  BY <1>1, <1>3, <1>5, ListCandidatesInTime DEF ListCandidates, turnVars
<1>6. CASE ListTurns
  BY <1>1, <1>3, <1>6, ListTurnsInTime DEF ListTurns, turnVars
<1>7. CASE SaveCursor
  BY <1>1, <1>3, <1>7, SaveCursorInTime DEF SaveCursor, turnVars
<1>8. CASE Tick
  BY <1>1, <1>3, <1>8, TickInTime DEF Tick, turnVars
<1>9. CASE SaveError \/ Interrupt \/ LoseWrite \/ \E stored \in BOOLEAN : IngestFails(stored)
  BY <1>1, <1>9 DEF SaveError, Interrupt, LoseWrite, IngestFails, Fault, ClockInv
<1>10. CASE IngestExchange \/ UNCHANGED vars
  <2>1. UNCHANGED <<prev, input, state, tip, age, idle, cursor, queue, ran>>
        /\ (pass' = pass \/ (pass = "send" /\ pass' = "save"))
    BY <1>10 DEF IngestExchange, vars, turnVars, timeVars, passVars
  <2>2. Working' <=> Working
    BY <2>1 DEF Working
  <2>3. PaceInv /\ LateInv
    BY <1>3, <2>1
  <2> QED BY <2>1, <2>2, <2>3 DEF PaceInv, LateInv, Reached, Passes, OneLeft, Inner, Ended, Left,
                                  Queued, Paths, Gone
<1> QED BY <1>2, <1>4, <1>5, <1>6, <1>7, <1>8, <1>9, <1>10 DEF Next

LEMMA InTimeInit == Init => InTimeInv
BY IngestAssumption DEF Init, InTimeInv, ClockInv

(* Nothing is dropped silently, if the backlog of a session fits into the  *)
(* passes of the look-back window: with a working provider a session that  *)
(* leaves the window has been ingested up to its last turn.                *)
THEOREM IngestedInTimeAlways ==
  ASSUME KeepsUp
  PROVE  Spec => []IngestedInTime
<1>1. Init => IngestInv /\ OnceInv /\ InTimeInv
  BY IngestInit, OnceInit, InTimeInit
<1>2. IngestInv /\ OnceInv /\ InTimeInv /\ [Next]_vars => (IngestInv /\ OnceInv /\ InTimeInv)'
  BY IngestNext, OnceNext, InTimeNext
<1>3. IngestInv /\ InTimeInv => IngestedInTime
  <2> SUFFICES ASSUME IngestInv, InTimeInv, faults = 0, tip # 0
               PROVE  /\ age >= Lookback /\ state[tip] # "paused" => cursor.turn = tip
                      /\ age >= Gone => cursor.turn = tip
    BY DEF IngestedInTime
  <2>1. PaceInv /\ LateInv /\ (Left = {} <=> cursor.turn = tip)
    BY LeftIs DEF InTimeInv, IngestInv
  <2>2. ASSUME age >= Lookback, state[tip] # "paused" PROVE Ended(tip)
    <3>1. tip \in 1..tip /\ age \in Nat /\ ExecTime < Lookback /\ ExecTime \in Nat /\ Lookback \in Nat
      BY BoundsAre, OnPath DEF IngestInv, RowsInv, KeepsUp
    <3>2. state[tip] \in States
      BY <3>1 DEF IngestInv, RowsInv
    <3>3. state[tip] # "running"
      BY <2>2, <3>1 DEF InTimeInv, ClockInv
    <3> QED BY <2>2, <3>2, <3>3 DEF Ended, States
  <2> QED BY <2>1, <2>2 DEF LateInv
<1> QED BY <1>1, <1>2, <1>3, PTL DEF Spec
=============================================================================
