-------------------------- MODULE AiServiceProofs --------------------------
(***************************************************************************)
(* Proofs about AiAgent and AiService, for any models, requests, alerts    *)
(* and crashes: the composition implements the safety part of Ingest, a    *)
(* completion that fails has tried every model once, health is always      *)
(* given, and severity decides what the model is shown and what is said    *)
(* without it.                                                             *)
(*                                                                         *)
(* What the loops over lists compute is shown by induction on their        *)
(* length: a set of naturals that is not empty has a least element         *)
(* (Least), so there is no first length at which it is wrong.              *)
(***************************************************************************)
EXTENDS AiService, IngestProofs, FiniteSetTheorems, NaturalsInduction, WellFoundedInduction,
        TLAPS

-----------------------------------------------------------------------------
(* The loops that pick out of a list *)

LEMMA Least ==
  ASSUME NEW T \in SUBSET Nat, T # {} PROVE \E n \in T : \A m \in T : n <= m
<1>1. PICK n \in T : \A m \in T : ~(<<m, n>> \in OpToRel(<, Nat))
  BY WFMin, NatLessThanWellFounded, Zenon
<1>2. \A m \in T : ~(m < n)
  BY <1>1, Zenon DEF OpToRel
<1> QED
  BY <1>2

\* The function of Only is there.
LEMMA OnlyDefined ==
  ASSUME NEW s, Len(s) \in Nat, NEW T
  PROVE  \E f : /\ f = [n \in 0 .. Len(s) |->
                          IF n = 0 THEN <<>>
                          ELSE IF s[n] \in T THEN Append(f[n - 1], s[n]) ELSE f[n - 1]]
                /\ Only(s, T) = f[Len(s)]
<1> DEFINE step(f, n) == IF n = 0 THEN <<>>
                         ELSE IF s[n] \in T THEN Append(f[n - 1], s[n]) ELSE f[n - 1]
           Bad == {m \in Nat : ~\E f : f = [n \in 0 .. m |-> step(f, n)]}
<1>1. ASSUME Bad # {} PROVE FALSE
  <2>1. PICK m \in Bad : \A k \in Bad : m <= k
    BY <1>1, Least
  <2>2. m # 0
    <3> DEFINE g == [n \in 0 .. 0 |-> <<>>]
    <3>1. g = [n \in 0 .. 0 |-> step(g, n)]
      OBVIOUS
    <3> QED
      BY <2>1, <3>1
  <2>3. PICK f : f = [n \in 0 .. m - 1 |-> step(f, n)]
    <3>1. m - 1 \in Nat /\ ~(m <= m - 1)
      BY <2>1, <2>2
    <3>2. m - 1 \notin Bad
      BY <2>1, <3>1
    <3> HIDE DEF step
    <3> QED
      BY <3>1, <3>2
  <2> DEFINE v == IF s[m] \in T THEN Append(f[m - 1], s[m]) ELSE f[m - 1]
             g == [n \in 0 .. m |-> IF n = m THEN v ELSE f[n]]
  <2>4. \A n \in 0 .. m - 1 : f[n] = step(f, n)
    BY <2>3
  <2>5. \A n \in 0 .. m : g[n] = step(g, n)
    BY <2>2, <2>4
  <2>6. g = [n \in 0 .. m |-> g[n]]
    OBVIOUS
  <2> HIDE DEF g
  <2>7. g = [n \in 0 .. m |-> step(g, n)]
    BY <2>5, <2>6
  <2> QED
    BY <2>1, <2>7
<1>2. \E f : f = [n \in 0 .. Len(s) |-> step(f, n)]
  BY <1>1
<1> DEFINE F == CHOOSE f : f = [n \in 0 .. Len(s) |-> step(f, n)]
<1>3. F = [n \in 0 .. Len(s) |-> step(F, n)]
  BY <1>2
<1>4. Only(s, T) = F[Len(s)]
  BY DEF Only
<1> QED
  BY <1>3, <1>4

\* Its value at n picks what is in T out of the first n: e is where it was.
Picks(t, s, n, T) ==
  \E e \in [1 .. Len(t) -> 1 .. n] :
    /\ \A i \in 1 .. Len(t) : t[i] = s[e[i]] /\ t[i] \in T
    /\ \A i, j \in 1 .. Len(t) : i < j => e[i] < e[j]
    /\ \A k \in 1 .. n : s[k] \in T => \E i \in 1 .. Len(t) : e[i] = k

LEMMA PickNext ==
  ASSUME NEW S, NEW T, NEW s \in Seq(S), NEW n \in 1 .. Len(s), NEW t \in Seq(S),
         Picks(t, s, n - 1, T)
  PROVE  /\ s[n] \in T => Append(t, s[n]) \in Seq(S) /\ Picks(Append(t, s[n]), s, n, T)
         /\ s[n] \notin T => Picks(t, s, n, T)
<1>1. PICK e \in [1 .. Len(t) -> 1 .. n - 1] :
        /\ \A i \in 1 .. Len(t) : t[i] = s[e[i]] /\ t[i] \in T
        /\ \A i, j \in 1 .. Len(t) : i < j => e[i] < e[j]
        /\ \A k \in 1 .. n - 1 : s[k] \in T => \E i \in 1 .. Len(t) : e[i] = k
  BY DEF Picks
<1>2. Len(t) \in Nat /\ n \in Nat \ {0} /\ s[n] \in S
  OBVIOUS
<1>3. ASSUME s[n] \in T
      PROVE  Append(t, s[n]) \in Seq(S) /\ Picks(Append(t, s[n]), s, n, T)
  <2> DEFINE u == Append(t, s[n])
             d == [i \in 1 .. Len(t) + 1 |-> IF i = Len(t) + 1 THEN n ELSE e[i]]
  <2>1. /\ u \in Seq(S) /\ Len(u) = Len(t) + 1 /\ u[Len(t) + 1] = s[n]
        /\ \A i \in 1 .. Len(t) : u[i] = t[i]
    BY <1>2
  <2>2. d \in [1 .. Len(u) -> 1 .. n]
    BY <1>1, <1>2, <2>1
  <2>3. d[Len(t) + 1] = n /\ \A i \in 1 .. Len(t) : d[i] = e[i] /\ d[i] < n /\ d[i] \in Nat
    <3>1. Len(t) + 1 \in 1 .. Len(t) + 1
      BY <1>2
    <3>2. \A i \in 1 .. Len(t) : i \in 1 .. Len(t) + 1 /\ i # Len(t) + 1
      BY <1>2
    <3>3. \A i \in 1 .. Len(t) : e[i] < n /\ e[i] \in Nat
      <4>1. \A i \in 1 .. Len(t) : e[i] \in 1 .. n - 1
        OBVIOUS
      <4>2. \A k \in 1 .. n - 1 : k < n /\ k \in Nat
        BY <1>2
      <4> QED
        BY <4>1, <4>2
    <3> QED
      BY <3>1, <3>2, <3>3
  <2> HIDE DEF u, d
  <2>4. \A i \in 1 .. Len(u) : i \in 1 .. Len(t) \/ i = Len(t) + 1
    BY <1>2, <2>1
  <2>5. \A i \in 1 .. Len(u) : u[i] = s[d[i]] /\ u[i] \in T
    BY <1>1, <1>3, <2>1, <2>3, <2>4
  <2>6. \A i, j \in 1 .. Len(u) : i < j => d[i] < d[j]
    BY <1>1, <1>2, <2>1, <2>3, <2>4
  <2>7. \A k \in 1 .. n : s[k] \in T => \E i \in 1 .. Len(u) : d[i] = k
    <3>1. ASSUME NEW k \in 1 .. n, s[k] \in T, k # n PROVE \E i \in 1 .. Len(u) : d[i] = k
      <4>1. PICK i \in 1 .. Len(t) : e[i] = k
        BY <1>1, <1>2, <3>1
      <4> QED
        BY <1>2, <2>1, <2>3, <4>1, SMTT(30)
    <3>2. Len(t) + 1 \in 1 .. Len(u)
      BY <1>2, <2>1
    <3> QED
      BY <2>3, <3>1, <3>2
  <2> QED
    BY <2>1, <2>2, <2>5, <2>6, <2>7 DEF Picks, u
<1>4. ASSUME s[n] \notin T PROVE Picks(t, s, n, T)
  <2>1. e \in [1 .. Len(t) -> 1 .. n]
    BY <1>1, <1>2
  <2>2. \A k \in 1 .. n : s[k] \in T => k \in 1 .. n - 1
    BY <1>2, <1>4
  <2> QED
    BY <1>1, <2>1, <2>2 DEF Picks
<1> QED
  BY <1>3, <1>4

LEMMA PickedSoFar ==
  ASSUME NEW S, NEW T, NEW s \in Seq(S), NEW f,
         f = [n \in 0 .. Len(s) |->
                IF n = 0 THEN <<>>
                ELSE IF s[n] \in T THEN Append(f[n - 1], s[n]) ELSE f[n - 1]]
  PROVE  \A n \in 0 .. Len(s) : f[n] \in Seq(S) /\ Picks(f[n], s, n, T)
<1> DEFINE Bad == {n \in 0 .. Len(s) : ~(f[n] \in Seq(S) /\ Picks(f[n], s, n, T))}
<1>1. Len(s) \in Nat
  OBVIOUS
<1> DEFINE step(n) == IF n = 0 THEN <<>>
                      ELSE IF s[n] \in T THEN Append(f[n - 1], s[n]) ELSE f[n - 1]
<1>2. /\ f[0] = <<>>
      /\ \A n \in 1 .. Len(s) : s[n] \in T => f[n] = Append(f[n - 1], s[n])
      /\ \A n \in 1 .. Len(s) : s[n] \notin T => f[n] = f[n - 1]
  <2>1. f = [n \in 0 .. Len(s) |-> step(n)]
    OBVIOUS
  <2> HIDE DEF step
  <2>2. \A n \in 0 .. Len(s) : f[n] = step(n)
    BY ONLY <2>1
  <2>3. /\ step(0) = <<>>
        /\ \A n \in 1 .. Len(s) :
             step(n) = IF s[n] \in T THEN Append(f[n - 1], s[n]) ELSE f[n - 1]
    BY ONLY <1>1 DEF step
  <2>4. f[0] = <<>>
    BY <1>1, <2>2, <2>3
  <2>5. ASSUME NEW n \in 1 .. Len(s)
        PROVE  f[n] = IF s[n] \in T THEN Append(f[n - 1], s[n]) ELSE f[n - 1]
    <3>1. n \in 0 .. Len(s)
      BY <1>1
    <3> QED
      BY ONLY <2>2, <2>3, <3>1, n \in 1 .. Len(s)
  <2> QED
    BY ONLY <2>4, <2>5
<1>3. ASSUME Bad # {} PROVE FALSE
  <2>1. PICK m \in Bad : \A k \in Bad : m <= k
    <3>1. Bad \in SUBSET Nat
      BY <1>1
    <3> HIDE DEF Bad
    <3> QED
      BY <1>3, <3>1, Least
  <2>2. m # 0
    <3>1. <<>> \in Seq(S) /\ Len(<<>>) = 0
      OBVIOUS
    <3> DEFINE e == [i \in 1 .. 0 |-> 1]
    <3>2. e \in [1 .. Len(<<>>) -> 1 .. 0] /\ 1 .. 0 = {} /\ 1 .. Len(<<>>) = {}
      BY <3>1
    <3>3. Picks(<<>>, s, 0, T)
      <4> HIDE DEF e
      <4> QED
        BY ONLY <3>2 DEF Picks
    <3> QED
      BY <1>2, <2>1, <3>1, <3>3
  <2>3. m \in 1 .. Len(s) /\ m - 1 \in 0 .. Len(s) /\ ~(m <= m - 1)
    BY <1>1, <2>1, <2>2
  <2>4. f[m - 1] \in Seq(S) /\ Picks(f[m - 1], s, m - 1, T)
    BY <2>1, <2>3
  <2>5. f[m] \in Seq(S) /\ Picks(f[m], s, m, T)
    <3>1. CASE s[m] \in T
      <4>1. f[m] = Append(f[m - 1], s[m])
        BY <1>2, <2>3, <3>1
      <4>2. Append(f[m - 1], s[m]) \in Seq(S) /\ Picks(Append(f[m - 1], s[m]), s, m, T)
        BY ONLY <2>3, <2>4, <3>1, s \in Seq(S), PickNext
      <4> QED
        BY <4>1, <4>2
    <3>2. CASE s[m] \notin T
      <4>1. f[m] = f[m - 1]
        BY <1>2, <2>3, <3>2
      <4>2. Picks(f[m - 1], s, m, T)
        BY ONLY <2>3, <2>4, <3>2, s \in Seq(S), PickNext
      <4> QED
        BY <2>4, <4>1, <4>2
    <3> QED
      BY <3>1, <3>2
  <2> QED
    BY <2>1, <2>5
<1> QED
  BY <1>3

LEMMA OnlyPicks ==
  ASSUME NEW S, NEW T, NEW s \in Seq(S)
  PROVE  Only(s, T) \in Seq(S) /\ Picks(Only(s, T), s, Len(s), T)
<1>1. Len(s) \in Nat
  OBVIOUS
<1>2. PICK f : /\ f = [n \in 0 .. Len(s) |->
                          IF n = 0 THEN <<>>
                          ELSE IF s[n] \in T THEN Append(f[n - 1], s[n]) ELSE f[n - 1]]
               /\ Only(s, T) = f[Len(s)]
  BY <1>1, OnlyDefined
<1>3. \A n \in 0 .. Len(s) : f[n] \in Seq(S) /\ Picks(f[n], s, n, T)
  BY <1>2, PickedSoFar
<1> QED
  BY <1>1, <1>2, <1>3

\* What is picked of a list without repetitions has none.
LEMMA OnlyOnce ==
  ASSUME NEW S, NEW T, NEW s \in Seq(S),
         \A i, j \in DOMAIN s : s[i] = s[j] => i = j
  PROVE  /\ \A i, j \in DOMAIN Only(s, T) : Only(s, T)[i] = Only(s, T)[j] => i = j
         /\ Members(Only(s, T)) = Members(s) \intersect T
<1> DEFINE o == Only(s, T)
<1>1. o \in Seq(S) /\ Picks(o, s, Len(s), T)
  BY OnlyPicks
<1> HIDE DEF o
<1>2. PICK e \in [1 .. Len(o) -> 1 .. Len(s)] :
        /\ \A i \in 1 .. Len(o) : o[i] = s[e[i]] /\ o[i] \in T
        /\ \A i, j \in 1 .. Len(o) : i < j => e[i] < e[j]
        /\ \A k \in 1 .. Len(s) : s[k] \in T => \E i \in 1 .. Len(o) : e[i] = k
  BY <1>1 DEF Picks
<1>3. /\ DOMAIN o = 1 .. Len(o) /\ Len(o) \in Nat
      /\ DOMAIN s = 1 .. Len(s) /\ Len(s) \in Nat
  BY <1>1
<1>4. ASSUME NEW i \in DOMAIN o, NEW j \in DOMAIN o, o[i] = o[j] PROVE i = j
  <2>1. e[i] \in DOMAIN s /\ e[j] \in DOMAIN s /\ s[e[i]] = s[e[j]]
    BY <1>2, <1>3, <1>4
  <2>2. e[i] = e[j] /\ e[i] \in Nat
    BY <1>3, <2>1
  <2>3. ~(i < j) /\ ~(j < i)
    BY <1>2, <1>3, <2>2
  <2> QED
    BY <1>3, <2>3
<1>5. Members(o) \subseteq Members(s) \intersect T
  BY <1>2, <1>3 DEF Members
<1>6. Members(s) \intersect T \subseteq Members(o)
  BY <1>2, <1>3 DEF Members
<1> QED
  BY <1>4, <1>5, <1>6 DEF o

-----------------------------------------------------------------------------
(* The candidates, and what is tried of them *)

\* Every model that is configured is a candidate, once, and the primary one is the first.
LEMMA CandidatesOnce ==
  /\ Candidates \in Seq(Configured) /\ 1 \in DOMAIN Candidates /\ Candidates[1] = Primary
  /\ \A i, j \in DOMAIN Candidates : Candidates[i] = Candidates[j] => i = j
  /\ Members(Candidates) = Configured
<1> DEFINE T == Configured \ {Primary}
           o == Only(Fallbacks, T)
<1>1. /\ Fallbacks \in Seq(Configured)
      /\ \A i, j \in DOMAIN Fallbacks : Fallbacks[i] = Fallbacks[j] => i = j
  BY AgentAssumption
<1>2. o \in Seq(Configured)
  BY <1>1, OnlyPicks
<1>3. /\ \A i, j \in DOMAIN o : o[i] = o[j] => i = j
      /\ Members(o) = Members(Fallbacks) \intersect T
  BY <1>1, OnlyOnce
<1>4. Members(o) = T
  BY <1>3 DEF Members, Configured
<1>5. Primary \in Configured
  BY DEF Configured
<1>6. Candidates = <<Primary>> \o o
  BY DEF Candidates
<1> HIDE DEF o
<1>7. /\ Candidates \in Seq(Configured) /\ Len(Candidates) = Len(o) + 1
      /\ DOMAIN Candidates = 1 .. Len(o) + 1 /\ DOMAIN o = 1 .. Len(o) /\ Len(o) \in Nat
      /\ Candidates[1] = Primary /\ \A i \in 1 .. Len(o) : Candidates[i + 1] = o[i]
  BY <1>2, <1>5, <1>6
<1>8. \A i \in DOMAIN Candidates : i = 1 \/ (i - 1 \in DOMAIN o /\ Candidates[i] = o[i - 1])
  <2> TAKE i \in DOMAIN Candidates
  <2>1. i = 1 \/ (i - 1 \in 1 .. Len(o) /\ (i - 1) + 1 = i)
    BY <1>7
  <2> QED
    BY <1>7, <2>1
<1>9. \A i \in DOMAIN o : o[i] # Primary
  BY <1>4 DEF Members
<1>10. ASSUME NEW i \in DOMAIN Candidates, NEW j \in DOMAIN Candidates,
              Candidates[i] = Candidates[j]
       PROVE  i = j
  <2>1. (i = 1) <=> (j = 1)
    BY <1>7, <1>8, <1>9, <1>10
  <2>2. CASE i # 1
    <3>1. i - 1 = j - 1
      BY <1>3, <1>8, <1>10, <2>1, <2>2
    <3> QED
      BY <1>7, <3>1
  <2> QED
    BY <2>1, <2>2
<1>11. Members(Candidates) = Configured
  <2>1. Members(Candidates) = {Primary} \union Members(o)
    <3>1. Members(Candidates) \subseteq {Primary} \union Members(o)
      BY <1>7, <1>8 DEF Members
    <3>2. \A i \in DOMAIN o : i + 1 \in DOMAIN Candidates
      BY <1>7
    <3>3. {Primary} \union Members(o) \subseteq Members(Candidates)
      BY <1>7, <3>2 DEF Members
    <3> QED
      BY <3>1, <3>3
  <2> QED
    BY <1>4, <1>5, <2>1
<1> QED
  BY <1>7, <1>10, <1>11

LEMMA AgentInitInv == AgentInit => AgentInv
<1> SUFFICES ASSUME AgentInit PROVE AgentInv
  OBVIOUS
<1>1. Len(Candidates) \in Nat
  BY CandidatesOnce
<1>2. AgentTypeOK
  BY DEF AgentInit, AgentTypeOK, AskStates
<1> QED
  BY <1>1, <1>2 DEF AgentInit, AgentInv, TriedShape

\* The steps of a completion leave the others alone.
LEMMA AskKeeps ==
  ASSUME AgentInv, NEW q \in Calls, Ask(q) \/ Complete(q) PROVE AgentInv'
<1>1. /\ mode \in Modes /\ mode' = mode
      /\ ask \in [Calls -> AskStates] /\ tried \in [Calls -> Seq(Configured)]
  BY DEF AgentInv, AgentTypeOK, Ask, Complete, CallAnswers, CallFails, NextModel
<1>2. /\ Candidates \in Seq(Configured) /\ 1 \in DOMAIN Candidates
      /\ Candidates[1] = Primary /\ Len(Candidates) \in Nat \ {0}
      /\ DOMAIN Candidates = 1 .. Len(Candidates)
  BY CandidatesOnce
<1> HIDE DEF Candidates
<1> DEFINE Good(a, t) ==
    /\ Len(t) <= Len(Candidates)
    /\ \A i \in DOMAIN t : t[i] = Candidates[i]
    /\ a = "idle" => t = <<>>
    /\ a \in {"calling", "resting", "ok"} => t # <<>> /\ mode # "nokey"
    /\ a = "resting" => mode = "cloud" /\ Len(t) < Len(Candidates)
    /\ mode = "local" => Len(t) <= 1
    /\ a = "failed" => Len(t) = CASE mode = "cloud" -> Len(Candidates)
                                   [] mode = "local" -> 1
                                   [] mode = "nokey" -> 0
           t0 == tried[q]
<1>3. \A r \in Calls : Good(ask[r], tried[r])
  BY DEF AgentInv, TriedShape
<1>4. t0 \in Seq(Configured) /\ Len(t0) \in Nat /\ DOMAIN t0 = 1 .. Len(t0)
  BY <1>1
<1>5. ASSUME NEW a \in AskStates, NEW t \in Seq(Configured), Good(a, t),
             ask' = [ask EXCEPT ![q] = a], tried' = [tried EXCEPT ![q] = t]
      PROVE  AgentInv'
  <2>1. AgentTypeOK'
    BY <1>1, <1>5 DEF AgentTypeOK
  <2>2. \A r \in Calls : ask'[r] = (IF r = q THEN a ELSE ask[r])
                         /\ tried'[r] = (IF r = q THEN t ELSE tried[r])
    BY <1>1, <1>5
  <2>3. \A r \in Calls : Good(ask'[r], tried'[r])
    <3> HIDE DEF Good
    <3> QED
      BY <1>3, <1>5, <2>2
  <2>4. TriedShape'
    BY <1>1, <2>3 DEF TriedShape
  <2> QED
    BY <2>1, <2>4 DEF AgentInv
<1>6. Good(ask[q], t0) /\ tried = [tried EXCEPT ![q] = t0]
  BY <1>1, <1>3
<1>7. CASE Ask(q) /\ mode = "nokey"
  <2>1. ask' = [ask EXCEPT ![q] = "failed"] /\ tried' = tried /\ ask[q] = "idle"
    BY <1>7 DEF Ask
  <2>2. Good("failed", t0)
    BY <1>2, <1>6, <1>7, <2>1
  <2> HIDE DEF Good, t0
  <2> QED
    BY <1>4, <1>5, <1>6, <2>1, <2>2 DEF AskStates
<1>8. CASE Ask(q) /\ mode # "nokey"
  <2>1. ask' = [ask EXCEPT ![q] = "calling"] /\ tried' = [tried EXCEPT ![q] = <<Primary>>]
    BY <1>8 DEF Ask
  <2>2. <<Primary>> \in Seq(Configured) /\ Good("calling", <<Primary>>)
    BY <1>2, <1>8 DEF Configured
  <2> HIDE DEF Good
  <2> QED
    BY <1>5, <2>1, <2>2 DEF AskStates
<1>9. CASE CallAnswers(q)
  <2>1. ask' = [ask EXCEPT ![q] = "ok"] /\ tried' = tried /\ ask[q] = "calling"
    BY <1>9 DEF CallAnswers
  <2>2. Good("ok", t0)
    BY <1>6, <2>1
  <2> HIDE DEF Good, t0
  <2> QED
    BY <1>4, <1>5, <1>6, <2>1, <2>2 DEF AskStates
<1>10. CASE CallFails(q)
  <2> DEFINE a == IF mode = "local" \/ Len(t0) = Len(Candidates) THEN "failed" ELSE "resting"
  <2>1. ask' = [ask EXCEPT ![q] = a] /\ tried' = tried /\ ask[q] = "calling"
    BY <1>10 DEF CallFails
  <2>2. mode \in {"local", "cloud"} /\ Len(t0) # 0 /\ Len(t0) <= Len(Candidates)
    BY <1>1, <1>4, <1>6, <2>1 DEF Modes
  <2>3. Good(a, t0) /\ a \in AskStates
    BY <1>2, <1>4, <1>6, <2>1, <2>2 DEF AskStates
  <2> HIDE DEF Good, t0, a
  <2> QED
    BY <1>4, <1>5, <1>6, <2>1, <2>3
<1>11. CASE NextModel(q)
  <2> DEFINE c == Candidates[Len(t0) + 1]
             t == Append(t0, c)
  <2>1. /\ ask' = [ask EXCEPT ![q] = "calling"] /\ tried' = [tried EXCEPT ![q] = t]
        /\ ask[q] = "resting"
    BY <1>11 DEF NextModel
  <2>2. mode = "cloud" /\ Len(t0) < Len(Candidates)
    BY <1>6, <2>1
  <2>3. c \in Configured
    BY <1>2, <1>4, <2>2
  <2>4. /\ t \in Seq(Configured) /\ Len(t) = Len(t0) + 1 /\ DOMAIN t = 1 .. Len(t0) + 1
        /\ \A i \in 1 .. Len(t0) : t[i] = t0[i] /\ t[Len(t0) + 1] = c
    BY <1>4, <2>3
  <2>5. t[Len(t0) + 1] = c /\ t # <<>>
    BY <1>4, <2>3
  <2>6. \A i \in DOMAIN t : t[i] = Candidates[i]
    BY <1>4, <1>6, <2>4, <2>5
  <2>7. Good("calling", t)
    <3> HIDE DEF t
    <3> QED
      BY <1>2, <1>4, <2>2, <2>4, <2>5, <2>6
  <2> HIDE DEF Good, t
  <2> QED
    BY <1>5, <2>1, <2>4, <2>7 DEF AskStates
<1> QED
  BY <1>7, <1>8, <1>9, <1>10, <1>11 DEF Complete

\* A crash ends completions, and those start from the beginning.
LEMMA AgentCrashKeeps ==
  ASSUME AgentInv, NEW S, AgentCrash(S), mode' = mode PROVE AgentInv'
<1>1. AgentTypeOK /\ TriedShape /\ Len(Candidates) \in Nat
  BY CandidatesOnce DEF AgentInv
<1>2. \A q \in Calls : /\ ask'[q] = IF q \in S THEN "idle" ELSE ask[q]
                       /\ tried'[q] = IF q \in S THEN <<>> ELSE tried[q]
  BY DEF AgentCrash
<1>3. AgentTypeOK'
  BY <1>1 DEF AgentCrash, AgentTypeOK, AskStates
<1>4. Candidates' = Candidates
  BY DEF Candidates
<1>5. TriedShape'
  <2> HIDE DEF Candidates
  <2>1. \A q \in S \intersect Calls : ask'[q] = "idle" /\ tried'[q] = <<>>
    BY <1>2
  <2>2. \A q \in Calls \ S : ask'[q] = ask[q] /\ tried'[q] = tried[q]
    BY <1>2
  <2> DEFINE Good(a, t) ==
        /\ Len(t) <= Len(Candidates)
        /\ \A i \in DOMAIN t : t[i] = Candidates[i]
        /\ a = "idle" => t = <<>>
        /\ a \in {"calling", "resting", "ok"} => t # <<>> /\ mode # "nokey"
        /\ a = "resting" => mode = "cloud" /\ Len(t) < Len(Candidates)
        /\ mode = "local" => Len(t) <= 1
        /\ a = "failed" => Len(t) = CASE mode = "cloud" -> Len(Candidates)
                                       [] mode = "local" -> 1
                                       [] mode = "nokey" -> 0
  <2>3. \A q \in Calls : Good(ask[q], tried[q])
    BY <1>1 DEF TriedShape
  <2>4. Good("idle", <<>>)
    BY <1>1
  <2>5. TriedShape' <=> \A q \in Calls : Good(ask'[q], tried'[q])
    BY <1>4, mode' = mode DEF TriedShape
  <2> HIDE DEF Good
  <2> QED
    BY <2>1, <2>2, <2>3, <2>4, <2>5
<1> QED
  BY <1>3, <1>5 DEF AgentInv

\* A completion that failed has tried each model that it could, and none twice.
LEMMA TriedAll == AgentInv => FailoverIsComplete
<1> SUFFICES ASSUME AgentInv, NEW q \in Calls
             PROVE  /\ \A i, j \in DOMAIN tried[q] : tried[q][i] = tried[q][j] => i = j
                    /\ ask[q] = "failed" =>
                         CASE mode = "cloud" -> Members(tried[q]) = Configured
                           [] mode = "local" -> tried[q] = <<Primary>>
                           [] mode = "nokey" -> tried[q] = <<>>
  BY DEF FailoverIsComplete
<1> DEFINE t == tried[q]
<1>1. t \in Seq(Configured) /\ mode \in {"cloud", "local", "nokey"}
  BY DEF AgentInv, AgentTypeOK, Modes
<1>2. /\ Candidates \in Seq(Configured) /\ 1 \in DOMAIN Candidates /\ Candidates[1] = Primary
      /\ \A i, j \in DOMAIN Candidates : Candidates[i] = Candidates[j] => i = j
      /\ Members(Candidates) = Configured
  BY CandidatesOnce
<1> HIDE DEF Candidates
<1>3. /\ Len(t) <= Len(Candidates)
      /\ \A i \in DOMAIN t : t[i] = Candidates[i]
      /\ ask[q] = "failed" => Len(t) = CASE mode = "cloud" -> Len(Candidates)
                                          [] mode = "local" -> 1
                                          [] mode = "nokey" -> 0
  BY DEF AgentInv, TriedShape
<1> HIDE DEF t
<1>4. /\ DOMAIN t = 1 .. Len(t) /\ Len(t) \in Nat
      /\ DOMAIN Candidates = 1 .. Len(Candidates) /\ Len(Candidates) \in Nat
  BY <1>1, <1>2
<1>5. \A i, j \in DOMAIN t : t[i] = t[j] => i = j
  <2> TAKE i, j \in DOMAIN t
  <2>1. i \in DOMAIN Candidates /\ j \in DOMAIN Candidates
    <3>1. Len(t) <= Len(Candidates)
      BY <1>3
    <3> QED
      BY ONLY <1>4, <3>1, i \in DOMAIN t, j \in DOMAIN t
  <2> QED
    BY <1>2, <1>3, <2>1
<1>6. CASE mode = "cloud" /\ ask[q] = "failed"
  <2>1. DOMAIN t = DOMAIN Candidates
    BY <1>3, <1>4, <1>6
  <2>2. Members(t) = Members(Candidates)
    BY <1>3, <2>1 DEF Members
  <2> QED
    BY <1>2, <1>5, <1>6, <2>2 DEF t
<1>7. CASE mode = "local" /\ ask[q] = "failed"
  <2>1. Len(t) = 1 /\ t[1] = Primary
    BY <1>2, <1>3, <1>4, <1>7
  <2>2. t = <<Primary>>
    BY <1>1, <1>4, <2>1
  <2> QED
    BY <1>5, <1>7, <2>2 DEF t
<1>8. CASE mode = "nokey" /\ ask[q] = "failed"
  <2>1. t = <<>>
    BY <1>1, <1>3, <1>8
  <2> QED
    BY <1>5, <1>8, <2>1 DEF t
<1>9. CASE ask[q] # "failed"
  BY <1>5, <1>9 DEF t
<1> QED
  BY <1>1, <1>6, <1>7, <1>8, <1>9

-----------------------------------------------------------------------------
(* The composition implements Ingest *)

\* Every step of the composition is one of Ingest, or leaves what Ingest has alone: a
\* completion that ends is what Ingest has as an answer, or as giving up.
LEMMA StepImplements == [ServiceNext]_allVars => [Next]_vars
<1> SUFFICES ASSUME [ServiceNext]_allVars PROVE [Next]_vars
  OBVIOUS
<1>1. CASE IngestStep
  BY <1>1 DEF IngestStep, Next, DiagStep
<1>2. CASE CrashAll \/ RestartAll
  BY <1>2 DEF CrashAll, RestartAll, Next
<1>3. CASE \E p \in Posts : AskDiagnosis(p)
  BY <1>3 DEF AskDiagnosis
<1>4. ASSUME NEW p \in Posts, Diagnosed(p) PROVE Next
  <2>1. Diagnose(p)
    BY <1>4 DEF Diagnosed, Diagnose
  <2> QED
    BY <2>1 DEF Next, DiagStep
<1>5. CASE \E q \in Calls : AgentStep(q)
  BY <1>5 DEF AgentStep
<1>6. CASE \E h \in Queries : \/ \E kind \in Kinds : Begin(h, kind)
                              \/ ListFails(h) \/ Finish(h)
  BY <1>6 DEF Begin, ListFails, Finish
<1>7. CASE UNCHANGED allVars
  BY <1>7 DEF allVars
<1> QED
  BY <1>1, <1>2, <1>3, <1>4, <1>5, <1>6, <1>7 DEF ServiceNext

\* With its completions and its queries the service does only what Ingest allows: each
\* step is one of Ingest or leaves Ingest's state alone.
THEOREM ServiceImplementsIngest == ServiceSpec => Spec
<1>1. ServiceInit => Init
  BY DEF ServiceInit
<1>2. [ServiceNext]_allVars => [Next]_vars
  BY StepImplements
<1> QED
  BY <1>1, <1>2, PTL DEF ServiceSpec, Spec

\* A post inserts one row, and an UPDATE adds none.
LEMMA RowsStayFinite ==
  ASSUME TypeOK, IsFiniteSet(rows), [Next]_vars PROVE IsFiniteSet(rows')
<1>1. ASSUME NEW p \in Posts, InsertAlert(p) PROVE IsFiniteSet(rows')
  BY <1>1, FS_AddElement DEF InsertAlert
<1>2. ASSUME NEW p \in Posts, UpdateAlertDiagnosis(p) PROVE IsFiniteSet(rows')
  <2> DEFINE new(r) == IF r.tenant = AlertTenant(p) /\ r.id = idOf[p]
                         THEN [r EXCEPT !.diagnosis = {p}] ELSE r
             f == [r \in rows |-> new(r)]
  <2>1. rows' = {new(r) : r \in rows}
    BY <1>2 DEF UpdateAlertDiagnosis
  <2> HIDE DEF new
  <2>2. f \in Surjection(rows, rows')
    BY <2>1 DEF Surjection
  <2> QED
    BY <2>2, FS_Surjection
<1>3. ASSUME NEW x \in Clears, DeleteAllAlerts(x) PROVE IsFiniteSet(rows')
  <2>1. rows' \in SUBSET rows
    BY <1>3 DEF DeleteAllAlerts
  <2> QED
    BY <2>1, FS_Subset
<1> QED
  BY <1>1, <1>2, <1>3, TableSteps

-----------------------------------------------------------------------------
(* The completions and the queries *)

\* Only its own steps and a crash move a completion.
LEMMA AgentStepKeeps ==
  ASSUME AgentInv, [ServiceNext]_allVars PROVE AgentInv'
<1>1. ASSUME UNCHANGED agentVars PROVE AgentInv'
  <2>1. Candidates' = Candidates
    BY DEF Candidates
  <2> QED
    BY <1>1, <2>1 DEF agentVars, AgentInv, AgentTypeOK, TriedShape
<1>2. ASSUME NEW q, q \in Posts \union Queries PROVE q \in Calls
  BY <1>2, ServiceAssumption
<1>3. CASE IngestStep \/ RestartAll \/ UNCHANGED allVars
  BY <1>1, <1>3 DEF IngestStep, RestartAll, allVars
<1>4. CASE CrashAll
  BY <1>4, AgentCrashKeeps DEF CrashAll
<1>5. ASSUME NEW p \in Posts, AskDiagnosis(p) \/ Diagnosed(p) PROVE AgentInv'
  BY <1>1, <1>2, <1>5, AskKeeps DEF AskDiagnosis, Diagnosed
<1>6. ASSUME NEW q \in Calls, AgentStep(q) PROVE AgentInv'
  BY <1>6, AskKeeps DEF AgentStep
<1>7. ASSUME NEW h \in Queries, NEW kind \in Kinds, Begin(h, kind) PROVE AgentInv'
  <2>1. Ask(h) \/ UNCHANGED agentVars
    BY <1>7 DEF Begin
  <2> QED
    BY <1>1, <1>2, <2>1, AskKeeps
<1>8. ASSUME NEW h \in Queries, ListFails(h) \/ Finish(h) PROVE AgentInv'
  BY <1>1, <1>8 DEF ListFails, Finish
<1> QED
  BY <1>3, <1>4, <1>5, <1>6, <1>7, <1>8 DEF ServiceNext

\* The score stays in its range, whatever is counted.
LEMMA HeuristicInRange ==
  \A e, w \in Nat : Heuristic(e, w).score \in 0 .. 100
BY DEF Heuristic, HeuristicScore

LEMMA CountType ==
  ASSUME NEW S, IsFiniteSet(S), NEW sev PROVE Count(S, sev) \in Nat
<1> DEFINE T == {r \in S : Severity[r.alert] = sev}
<1>1. T \in SUBSET S
  OBVIOUS
<1> HIDE DEF T
<1>2. Cardinality(T) \in Nat
  BY <1>1, FS_Subset, FS_CardinalityType
<1> QED
  BY <1>2 DEF Count, T

QueryInv == QueryTypeOK /\ QueryShape /\ HealthAlwaysGiven

\* What QueryInv says of one query.
QueryStates == {"new", "replied", "lost"} \union Kinds
Stats == [kind : Kinds \union {"none"}, all : Nat, errors : Nat, warns : Nat]

QueryGood(q, s, r, a) ==
  /\ q \in QueryStates /\ s \in Stats
  /\ q = "new" => a = "idle" /\ s.kind = "none"
  /\ q \in Kinds => s.kind = q
  /\ q = "health" => s.all # 0
  /\ q = "replied" => a \in {"idle", "ok", "failed"}
  /\ q = "replied" /\ s.kind = "health" =>
       /\ r.code = 200
       /\ r.health.score \in 0 .. 100
       /\ a # "ok" => r.health = IF s.all = 0 THEN Healthy ELSE Heuristic(s.errors, s.warns)

LEMMA QueryInvGood ==
  QueryInv <=> /\ qpc \in [Queries -> QueryStates] /\ DOMAIN reply = Queries
               /\ stats \in [Queries -> Stats]
               /\ \A h \in Queries : QueryGood(qpc[h], stats[h], reply[h], ask[h])
<1> USE DEF QueryInv, QueryTypeOK, QueryStates, Stats
<1>1. ASSUME QueryInv, NEW h \in Queries PROVE QueryGood(qpc[h], stats[h], reply[h], ask[h])
  <2>1. qpc[h] \in QueryStates /\ stats[h] \in Stats
    BY <1>1
  <2> HIDE DEF QueryStates, Stats
  <2> QED
    BY <1>1, <2>1 DEF QueryGood, QueryShape, HealthAlwaysGiven
<1>2. ASSUME \A h \in Queries : QueryGood(qpc[h], stats[h], reply[h], ask[h])
      PROVE  QueryShape /\ HealthAlwaysGiven
  BY <1>2 DEF QueryGood, QueryShape, HealthAlwaysGiven
<1> QED
  BY <1>1, <1>2

\* A step that changes one query, or none.
LEMMA OneQuery ==
  ASSUME QueryInv, DOMAIN reply' = Queries,
         NEW h \in Queries, NEW q, NEW s,
         qpc' = [qpc EXCEPT ![h] = q], stats' = [stats EXCEPT ![h] = s],
         \A g \in Queries \ {h} : reply'[g] = reply[g] /\ ask'[g] = ask[g],
         QueryGood(q, s, reply'[h], ask'[h])
  PROVE  QueryInv'
<1>1. /\ qpc \in [Queries -> QueryStates] /\ stats \in [Queries -> Stats]
      /\ \A g \in Queries : QueryGood(qpc[g], stats[g], reply[g], ask[g])
  BY QueryInvGood
<1>2. q \in QueryStates /\ s \in Stats
  BY DEF QueryGood
<1>3. qpc' \in [Queries -> QueryStates] /\ stats' \in [Queries -> Stats]
  BY <1>1, <1>2
<1>4. /\ qpc'[h] = q /\ stats'[h] = s
      /\ \A g \in Queries \ {h} : qpc'[g] = qpc[g] /\ stats'[g] = stats[g]
  BY <1>1
<1>5. \A g \in Queries : QueryGood(qpc'[g], stats'[g], reply'[g], ask'[g])
  <2> TAKE g \in Queries
  <2>1. CASE g = h
    BY <1>4, <2>1
  <2>2. CASE g # h
    <3>1. QueryGood(qpc[g], stats[g], reply[g], ask[g])
      BY <1>1
    <3>2. qpc'[g] = qpc[g] /\ stats'[g] = stats[g] /\ reply'[g] = reply[g] /\ ask'[g] = ask[g]
      BY <1>4, <2>2
    <3> QED
      BY <3>1, <3>2
  <2> QED
    BY <2>1, <2>2
<1>6. QueryInv' <=> /\ qpc' \in [Queries -> QueryStates] /\ DOMAIN reply' = Queries
                    /\ stats' \in [Queries -> Stats]
                    /\ \A g \in Queries : QueryGood(qpc'[g], stats'[g], reply'[g], ask'[g])
  <2> USE DEF QueryInv, QueryTypeOK, QueryStates, Stats
  <2>1. ASSUME \A g \in Queries : QueryGood(qpc'[g], stats'[g], reply'[g], ask'[g])
        PROVE  QueryShape' /\ HealthAlwaysGiven'
    BY <2>1 DEF QueryGood, QueryShape, HealthAlwaysGiven
  <2> QED
    BY <1>5, <2>1
<1> QED
  BY <1>3, <1>5, <1>6

LEMMA QueriesUntouched ==
  ASSUME QueryInv, UNCHANGED queryVars, \A g \in Queries : ask'[g] = ask[g]
  PROVE  QueryInv'
BY DEF QueryInv, QueryTypeOK, QueryShape, HealthAlwaysGiven, queryVars

\* A query that begins reads what it is answered from.
LEMMA BeginKeeps ==
  ASSUME QueryInv, AgentInv, IsFiniteSet(rows),
         NEW h \in Queries, NEW kind \in Kinds, Begin(h, kind)
  PROVE  QueryInv'
<1> DEFINE Read(mine) ==
      LET e == Count(mine, "error")
          w == Count(mine, "warn")
      IN  /\ stats' = [stats EXCEPT ![h] =
               [kind |-> kind, all |-> Cardinality(mine), errors |-> e, warns |-> w]]
          /\ \/ /\ kind = "health" /\ mine = {}
                /\ Answer(h, Summary(Healthy))
                /\ UNCHANGED agentVars
             \/ /\ kind = "health" /\ mine # {} /\ mode # "cloud"
                /\ Answer(h, Summary(Heuristic(e, w)))
                /\ UNCHANGED agentVars
             \/ /\ kind = "stream" /\ mine = {}
                /\ Answer(h, Error)
                /\ UNCHANGED agentVars
             \/ /\ \/ kind \in {"chat", "analyze"}
                   \/ kind = "stream" /\ mine # {}
                   \/ kind = "health" /\ mine # {} /\ mode = "cloud"
                /\ Ask(h)
                /\ qpc' = [qpc EXCEPT ![h] = kind]
                /\ UNCHANGED reply
<1>0. PICK mine \in SUBSET rows : Read(mine)
  <2>1. \E mine \in (IF kind = "analyze" THEN {{}} ELSE Lists(QueryTenant[h])) : Read(mine)
    BY DEF Begin
  <2>2. Lists(QueryTenant[h]) \subseteq SUBSET rows
    BY DEF Lists
  <2> HIDE DEF Read
  <2> QED
    BY <2>1, <2>2
<1> DEFINE e == Count(mine, "error")
           w == Count(mine, "warn")
           s == [kind |-> kind, all |-> Cardinality(mine), errors |-> e, warns |-> w]
<1>1. IsFiniteSet(mine)
  BY <1>0, FS_Subset
<1>2. e \in Nat /\ w \in Nat
  BY <1>1, CountType
<1>3. Cardinality(mine) \in Nat /\ (Cardinality(mine) = 0 <=> mine = {})
  BY <1>1, FS_CardinalityType, FS_EmptySet
<1>4. /\ qpc[h] = "new" /\ stats' = [stats EXCEPT ![h] = s]
      /\ \/ /\ kind = "health" /\ mine = {}
            /\ Answer(h, Summary(Healthy))
            /\ UNCHANGED agentVars
         \/ /\ kind = "health" /\ mine # {} /\ mode # "cloud"
            /\ Answer(h, Summary(Heuristic(e, w)))
            /\ UNCHANGED agentVars
         \/ /\ kind = "stream" /\ mine = {}
            /\ Answer(h, Error)
            /\ UNCHANGED agentVars
         \/ /\ \/ kind \in {"chat", "analyze"}
               \/ kind = "stream" /\ mine # {}
               \/ kind = "health" /\ mine # {} /\ mode = "cloud"
            /\ Ask(h)
            /\ qpc' = [qpc EXCEPT ![h] = kind]
            /\ UNCHANGED reply
  BY <1>0 DEF Begin
<1> HIDE DEF Read
<1>5. s \in Stats /\ s.kind = kind /\ s.all = Cardinality(mine) /\ s.errors = e /\ s.warns = w
  <2> HIDE DEF e, w
  <2> QED
    BY <1>2, <1>3 DEF Stats
<1> HIDE DEF e, w, s
<1>6. DOMAIN reply = Queries /\ QueryGood(qpc[h], stats[h], reply[h], ask[h])
  BY QueryInvGood
<1>7. ask[h] = "idle"
  BY <1>4, <1>6 DEF QueryGood
<1>8. ASSUME NEW r, Answer(h, r), UNCHANGED agentVars,
             kind = "health" => /\ r.code = 200 /\ r.health.score \in 0 .. 100
                                /\ r.health = IF mine = {} THEN Healthy ELSE Heuristic(e, w)
      PROVE  QueryInv'
  <2>1. /\ qpc' = [qpc EXCEPT ![h] = "replied"] /\ DOMAIN reply' = Queries /\ reply'[h] = r
        /\ \A g \in Queries \ {h} : reply'[g] = reply[g] /\ ask'[g] = ask[g]
        /\ ask'[h] = "idle"
    BY <1>6, <1>7, <1>8 DEF Answer, agentVars
  <2>2. QueryGood("replied", s, r, "idle")
    BY <1>3, <1>5, <1>8 DEF QueryGood, QueryStates, Kinds
  <2>3. QueryGood("replied", s, reply'[h], ask'[h])
    BY <2>1, <2>2
  <2>4. stats' = [stats EXCEPT ![h] = s]
    BY <1>4
  <2> QED
    BY <2>1, <2>3, <2>4, OneQuery
<1>9. CASE kind = "health" /\ mine = {} /\ Answer(h, Summary(Healthy)) /\ UNCHANGED agentVars
  <2>1. Summary(Healthy).code = 200 /\ Summary(Healthy).health = Healthy /\ Healthy.score = 100
    BY DEF Summary, Healthy
  <2> QED
    BY <1>8, <1>9, <2>1
<1>10. CASE /\ kind = "health" /\ mine # {}
            /\ Answer(h, Summary(Heuristic(e, w))) /\ UNCHANGED agentVars
  <2>1. /\ Summary(Heuristic(e, w)).code = 200
        /\ Summary(Heuristic(e, w)).health = Heuristic(e, w)
    BY DEF Summary
  <2>2. Heuristic(e, w).score \in 0 .. 100
    BY <1>2, HeuristicInRange
  <2> DEFINE x == Summary(Heuristic(e, w))
  <2>3. x.code = 200 /\ x.health.score \in 0 .. 100 /\ x.health = Heuristic(e, w)
    BY <2>1, <2>2
  <2>4. Answer(h, x) /\ UNCHANGED agentVars /\ mine # {}
    BY <1>10
  <2> HIDE DEF x
  <2> QED
    BY <1>8, <2>3, <2>4
<1>11. CASE kind = "stream" /\ Answer(h, Error) /\ UNCHANGED agentVars
  BY <1>8, <1>11
<1>12. CASE /\ \/ kind \in {"chat", "analyze", "stream"}
               \/ kind = "health" /\ mine # {}
            /\ Ask(h) /\ qpc' = [qpc EXCEPT ![h] = kind] /\ UNCHANGED reply
  <2>1. \A g \in Queries \ {h} : ask'[g] = ask[g]
    BY <1>12, ServiceAssumption DEF Ask, AgentInv, AgentTypeOK
  <2>2. QueryGood(kind, s, reply[h], ask'[h])
    BY <1>3, <1>5, <1>12 DEF QueryGood, QueryStates, Kinds
  <2>3. /\ stats' = [stats EXCEPT ![h] = s] /\ DOMAIN reply' = Queries
        /\ reply'[h] = reply[h] /\ \A g \in Queries \ {h} : reply'[g] = reply[g]
    BY <1>4, <1>6, <1>12
  <2> QED
    BY <1>12, <2>1, <2>2, <2>3, OneQuery
<1> QED
  BY <1>4, <1>9, <1>10, <1>11, <1>12

\* A query that is answered has had its completion, and says what the model said or
\* what the alerts give.
LEMMA FinishKeeps ==
  ASSUME QueryInv, NEW h \in Queries, Finish(h) PROVE QueryInv'
<1> DEFINE s == stats[h]
<1>1. /\ stats \in [Queries -> Stats] /\ DOMAIN reply = Queries
      /\ QueryGood(qpc[h], s, reply[h], ask[h])
  BY QueryInvGood
<1>2. /\ qpc[h] \in Kinds /\ UNCHANGED <<agentVars, stats>>
      /\ s \in Stats /\ s.errors \in Nat /\ s.warns \in Nat /\ s.kind = qpc[h]
  BY <1>1 DEF Finish, QueryGood, Stats
<1>3. ASSUME NEW r, Answer(h, r), ask[h] \in {"ok", "failed"},
             qpc[h] = "health" => /\ r.code = 200 /\ r.health.score \in 0 .. 100
                                  /\ ask[h] # "ok" => r.health = Heuristic(s.errors, s.warns)
      PROVE  QueryInv'
  <2>1. /\ qpc' = [qpc EXCEPT ![h] = "replied"] /\ DOMAIN reply' = Queries /\ reply'[h] = r
        /\ \A g \in Queries \ {h} : reply'[g] = reply[g] /\ ask'[g] = ask[g]
        /\ ask'[h] = ask[h] /\ stats' = [stats EXCEPT ![h] = s]
    BY <1>1, <1>2, <1>3 DEF Answer, agentVars
  <2>2. qpc[h] = "health" => s.all # 0
    BY <1>1 DEF QueryGood
  <2> HIDE DEF s
  <2>3. QueryGood("replied", s, r, ask[h])
    BY <1>2, <1>3, <2>2 DEF QueryGood, QueryStates, Kinds
  <2> QED
    BY <2>1, <2>3, OneQuery
<1>4. /\ HealthOf(h).code = 200 /\ HealthOf(h).health = Heuristic(s.errors, s.warns)
      /\ HealthOf(h).health.score \in 0 .. 100
  <2>1. HealthOf(h).code = 200 /\ HealthOf(h).health = Heuristic(s.errors, s.warns)
    BY DEF HealthOf, Summary
  <2> QED
    BY <1>2, <2>1, HeuristicInRange
<1>5. ASSUME NEW score \in Parsed, qpc[h] = "health", ask[h] = "ok",
             Answer(h, Scored(h, score))
      PROVE  QueryInv'
  <2>1. CASE score = 0
    BY <1>3, <1>4, <1>5, <2>1 DEF Scored
  <2>2. CASE score # 0
    <3> DEFINE said == [score |-> Clamp(score), status |-> "said", heuristic |-> FALSE]
    <3>1. Scored(h, score) = Summary(said)
      BY <2>2 DEF Scored
    <3>2. Clamp(score) \in 0 .. 100
      BY <1>5 DEF Clamp, Parsed
    <3>3. Summary(said).code = 200 /\ Summary(said).health = said /\ said.score \in 0 .. 100
      BY <3>2 DEF Summary
    <3> HIDE DEF said
    <3> QED
      BY <1>3, <1>5, <3>1, <3>3
  <2> QED
    BY <2>1, <2>2
<1>6. CASE qpc[h] = "health" /\ ask[h] = "failed" /\ Answer(h, HealthOf(h))
  BY <1>3, <1>4, <1>6
<1>7. CASE qpc[h] # "health" /\ ask[h] \in {"ok", "failed"}
           /\ Answer(h, IF ask[h] = "ok" THEN Text ELSE Error)
  BY <1>3, <1>7
<1> QED
  BY <1>5, <1>6, <1>7 DEF Finish

\* A call of a model never moves a query that has not begun, or is over.
LEMMA CompleteKeeps ==
  ASSUME QueryInv, AgentInv, NEW q \in Calls, AgentStep(q) PROVE QueryInv'
<1>1. /\ UNCHANGED queryVars /\ ask[q] \in {"calling", "resting"}
      /\ \A g \in Calls \ {q} : ask'[g] = ask[g]
  BY DEF AgentStep, Complete, CallAnswers, CallFails, NextModel, AgentInv, AgentTypeOK
<1>2. CASE q \notin Queries
  <2>1. \A g \in Queries : ask'[g] = ask[g]
    BY <1>1, <1>2, ServiceAssumption
  <2> QED
    BY <1>1, <2>1, QueriesUntouched
<1>3. CASE q \in Queries
  <2>1. /\ qpc \in [Queries -> QueryStates] /\ stats \in [Queries -> Stats]
        /\ DOMAIN reply = Queries /\ QueryGood(qpc[q], stats[q], reply[q], ask[q])
    BY <1>3, QueryInvGood
  <2>2. QueryGood(qpc[q], stats[q], reply[q], ask'[q])
    BY <1>1, <2>1 DEF QueryGood
  <2>3. /\ qpc' = [qpc EXCEPT ![q] = qpc[q]] /\ stats' = [stats EXCEPT ![q] = stats[q]]
        /\ DOMAIN reply' = Queries /\ reply'[q] = reply[q]
        /\ \A g \in Queries \ {q} : reply'[g] = reply[g] /\ ask'[g] = ask[g]
    BY <1>1, <1>3, <2>1, ServiceAssumption DEF queryVars
  <2>4. QueryGood(qpc[q], stats[q], reply'[q], ask'[q])
    BY <2>2, <2>3
  <2> QED
    BY <1>3, <2>3, <2>4, OneQuery
<1> QED
  BY <1>2, <1>3

\* A crash ends the queries that wait, and no other.
LEMMA CrashEndsQueries ==
  ASSUME QueryInv, CrashAll PROVE QueryInv'
<1>1. /\ qpc \in [Queries -> QueryStates] /\ stats \in [Queries -> Stats]
      /\ DOMAIN reply = Queries
      /\ \A g \in Queries : QueryGood(qpc[g], stats[g], reply[g], ask[g])
  BY QueryInvGood
<1>2. /\ qpc' = [h \in Queries |-> IF qpc[h] \in Kinds THEN "lost" ELSE qpc[h]]
      /\ reply' = reply /\ stats' = stats
      /\ \A g \in Queries : ask'[g] = IF ask[g] \in {"calling", "resting"}
                                       THEN "idle" ELSE ask[g]
  BY ServiceAssumption DEF CrashAll, AgentCrash
<1>3. qpc' \in [Queries -> QueryStates]
  BY <1>1, <1>2 DEF QueryStates
<1>4. ASSUME NEW g \in Queries PROVE QueryGood(qpc'[g], stats'[g], reply'[g], ask'[g])
  <2>1. QueryGood(qpc[g], stats[g], reply[g], ask[g]) /\ qpc[g] \in QueryStates
    BY <1>1
  <2>2. CASE qpc[g] \in Kinds
    <3>1. QueryGood("lost", stats[g], reply[g], ask'[g])
      BY <2>1 DEF QueryGood, QueryStates, Kinds
    <3> QED
      BY <1>2, <2>2, <3>1
  <2>3. CASE qpc[g] \notin Kinds
    <3>1. QueryGood(qpc[g], stats[g], reply[g], ask'[g])
      BY <1>2, <2>1, <2>3 DEF QueryGood, QueryStates, Kinds
    <3> QED
      BY <1>2, <2>3, <3>1
  <2> QED
    BY <2>2, <2>3
<1> QED
  BY <1>1, <1>2, <1>3, <1>4
     DEF QueryInv, QueryTypeOK, QueryShape, HealthAlwaysGiven, QueryGood, QueryStates, Stats

LEMMA QueryStepKeeps ==
  ASSUME QueryInv, AgentInv, IsFiniteSet(rows), [ServiceNext]_allVars PROVE QueryInv'
<1>1. CASE IngestStep \/ RestartAll \/ UNCHANGED allVars
  <2>1. UNCHANGED <<agentVars, queryVars>>
    BY <1>1 DEF IngestStep, RestartAll, allVars
  <2> QED
    BY <2>1, QueriesUntouched DEF agentVars
<1>2. CASE CrashAll
  BY <1>2, CrashEndsQueries
<1>3. ASSUME NEW p \in Posts, AskDiagnosis(p) \/ Diagnosed(p) PROVE QueryInv'
  <2>1. UNCHANGED queryVars /\ \A g \in Queries : ask'[g] = ask[g]
    BY <1>3, ServiceAssumption
       DEF AskDiagnosis, Diagnosed, Ask, agentVars, AgentInv, AgentTypeOK
  <2> QED
    BY <2>1, QueriesUntouched
<1>4. ASSUME NEW q \in Calls, AgentStep(q) PROVE QueryInv'
  BY <1>4, CompleteKeeps
<1>5. ASSUME NEW h \in Queries, NEW kind \in Kinds, Begin(h, kind) PROVE QueryInv'
  BY <1>5, BeginKeeps
<1>6. ASSUME NEW h \in Queries, ListFails(h) PROVE QueryInv'
  <2>1. /\ qpc \in [Queries -> QueryStates] /\ stats \in [Queries -> Stats]
        /\ DOMAIN reply = Queries /\ QueryGood(qpc[h], stats[h], reply[h], ask[h])
    BY QueryInvGood
  <2>2. /\ qpc[h] = "new" /\ qpc' = [qpc EXCEPT ![h] = "replied"]
        /\ DOMAIN reply' = Queries /\ stats' = [stats EXCEPT ![h] = stats[h]]
        /\ \A g \in Queries \ {h} : reply'[g] = reply[g] /\ ask'[g] = ask[g]
        /\ ask'[h] = ask[h]
    BY <1>6, <2>1 DEF ListFails, Answer, agentVars
  <2>3. QueryGood("replied", stats[h], reply'[h], ask'[h])
    BY <2>1, <2>2 DEF QueryGood, QueryStates, Kinds
  <2> QED
    BY <2>2, <2>3, OneQuery
<1>7. ASSUME NEW h \in Queries, Finish(h) PROVE QueryInv'
  BY <1>7, FinishKeeps
<1> QED
  BY <1>1, <1>2, <1>3, <1>4, <1>5, <1>6, <1>7 DEF ServiceNext

-----------------------------------------------------------------------------
(* The invariant of the composition, and what follows *)

LEMMA ServiceInitInv == ServiceInit => ServiceInv
<1> SUFFICES ASSUME ServiceInit PROVE ServiceInv
  OBVIOUS
<1>1. IngestInv /\ IsFiniteSet(rows)
  BY IngestInit, FS_EmptySet DEF ServiceInit, Init
<1>2. AgentInv
  BY AgentInitInv DEF ServiceInit
<1>3. QueryTypeOK /\ QueryShape /\ HealthAlwaysGiven
  BY ServiceAssumption
     DEF ServiceInit, AgentInit, QueryTypeOK, QueryShape, HealthAlwaysGiven, Kinds
<1> QED
  BY <1>1, <1>2, <1>3 DEF ServiceInv

LEMMA ServiceKeeps == ServiceInv /\ [ServiceNext]_allVars => ServiceInv'
<1> SUFFICES ASSUME ServiceInv, [ServiceNext]_allVars PROVE ServiceInv'
  OBVIOUS
<1>1. [Next]_vars
  BY StepImplements
<1>2. IngestInv'
  BY <1>1, IngestKeeps DEF ServiceInv
<1>3. IsFiniteSet(rows')
  BY <1>1, RowsStayFinite DEF ServiceInv, IngestInv
<1>4. AgentInv'
  BY AgentStepKeeps DEF ServiceInv
<1>5. QueryInv'
  BY QueryStepKeeps DEF ServiceInv, QueryInv
<1> QED
  BY <1>2, <1>3, <1>4, <1>5 DEF ServiceInv, QueryInv

\* The inductive invariant holds: alerts, completions and queries agree in every state.
THEOREM ServiceCorrect == ServiceSpec => []ServiceInv
<1> QED
  BY ServiceInitInv, ServiceKeeps, PTL DEF ServiceSpec

\* completeWithMessages reports a failure only after every model that was configured,
\* and calls none of them twice.
THEOREM FailedEverywhere == ServiceSpec => []FailoverIsComplete
<1>1. ServiceInv => FailoverIsComplete
  BY TriedAll DEF ServiceInv
<1> QED
  BY <1>1, ServiceCorrect, PTL

\* GenerateHealthSummary answers without the model too, from the alerts it has read.
THEOREM HealthIsGiven == ServiceSpec => []HealthAlwaysGiven
<1>1. ServiceInv => HealthAlwaysGiven
  BY DEF ServiceInv
<1> QED
  BY <1>1, ServiceCorrect, PTL

-----------------------------------------------------------------------------
(* Severity *)

\* heuristicHealth, for any number of errors and warnings.
THEOREM MoreTroubleIsWorse == \A e, w \in Nat : MoreIsWorse(e, w)
<1> SUFFICES ASSUME NEW e \in Nat, NEW w \in Nat PROVE MoreIsWorse(e, w)
  OBVIOUS
<1> DEFINE s0 == HeuristicScore(e, w)
           s1 == HeuristicScore(e + 1, w)
           s2 == HeuristicScore(e, w + 1)
<1>1. /\ s0 \in 0 .. 100 /\ s1 \in 0 .. 100 /\ s2 \in 0 .. 100
      /\ s1 <= s0 /\ s2 <= s0
  BY DEF HeuristicScore
<1> DEFINE Bad(s, n) == IF s < 40 \/ n >= 3 THEN 2 ELSE IF s < 70 \/ n >= 1 THEN 1 ELSE 0
<1>2. \A s \in Nat, n \in Nat : StatusRank(HeuristicStatus(s, n)) = Bad(s, n)
  BY DEF StatusRank, HeuristicStatus
<1>3. HeuristicStatus(s1, e + 1) # "healthy"
  BY DEF HeuristicStatus
<1>4. \A a, b \in Nat : /\ Heuristic(a, b).score = HeuristicScore(a, b)
                        /\ Heuristic(a, b).status = HeuristicStatus(HeuristicScore(a, b), a)
  BY DEF Heuristic
<1> HIDE DEF s0, s1, s2
<1>5. Bad(s1, e + 1) >= Bad(s0, e) /\ Bad(s2, e) >= Bad(s0, e)
  BY <1>1
<1> HIDE DEF Bad
<1>6. Worsens(Heuristic(e, w), Heuristic(e + 1, w))
  <2>1. e + 1 \in Nat /\ s0 \in Nat /\ s1 \in Nat
    BY <1>1
  <2> QED
    BY <1>1, <1>2, <1>4, <1>5, <2>1 DEF Worsens, s0, s1
<1>7. Worsens(Heuristic(e, w), Heuristic(e, w + 1))
  <2>1. w + 1 \in Nat /\ s0 \in Nat /\ s2 \in Nat
    BY <1>1
  <2> QED
    BY <1>1, <1>2, <1>4, <1>5, <2>1 DEF Worsens, s0, s2
<1>8. e + 1 \in Nat
  OBVIOUS
<1> QED
  BY <1>1, <1>3, <1>4, <1>6, <1>7, <1>8 DEF MoreIsWorse, s0, s1

\* An alert of a list, and the order in which alerts are shown.
Alert(n) == [at : 1 .. n, severity : AlertSeverities]

Sorted(o) == \A i, j \in 1 .. Len(o) : i < j => Before(o[i], o[j])

\* A loop over a list of alerts keeps the order of the list, and misses none.
LEMMA OnlyInOrder ==
  ASSUME NEW n \in Nat, NEW sev \in [1 .. n -> AlertSeverities], NEW T
  PROVE  LET s == Listed(n, sev)
             o == Only(s, T)
         IN  /\ o \in Seq(Alert(n))
             /\ Members(o) = Members(s) \intersect T
             /\ \A i, j \in 1 .. Len(o) : i < j => o[i].at < o[j].at
<1> DEFINE s == Listed(n, sev)
           o == Only(s, T)
<1>1. /\ s \in Seq(Alert(n)) /\ Len(s) = n /\ DOMAIN s = 1 .. n
      /\ \A i \in 1 .. n : s[i].at = i
  BY DEF Listed, Alert
<1> HIDE DEF s
<1>2. o \in Seq(Alert(n)) /\ Picks(o, s, n, T)
  BY <1>1, OnlyPicks
<1>3. \A i, j \in DOMAIN s : s[i] = s[j] => i = j
  BY <1>1
<1>4. Members(o) = Members(s) \intersect T
  BY <1>1, <1>3, OnlyOnce
<1> HIDE DEF o
<1>5. PICK e \in [1 .. Len(o) -> 1 .. n] :
        /\ \A i \in 1 .. Len(o) : o[i] = s[e[i]]
        /\ \A i, j \in 1 .. Len(o) : i < j => e[i] < e[j]
  BY <1>2 DEF Picks
<1>6. \A i, j \in 1 .. Len(o) : i < j => o[i].at < o[j].at
  BY <1>1, <1>5
<1> QED
  BY <1>2, <1>4, <1>6 DEF o, s

\* Two sorted lists of which the second is less severe are sorted behind each other.
LEMMA SortedConcat ==
  ASSUME NEW S, NEW a \in Seq(S), NEW b \in Seq(S), Sorted(a), Sorted(b),
         \A x \in Members(a), y \in Members(b) : Rank(x) < Rank(y)
  PROVE  /\ a \o b \in Seq(S) /\ Sorted(a \o b)
         /\ Members(a \o b) = Members(a) \union Members(b)
<1> DEFINE c == a \o b
           m == Len(a)
           n == Len(b)
<1>1. /\ c \in Seq(S) /\ Len(c) = m + n /\ m \in Nat /\ n \in Nat
      /\ DOMAIN a = 1 .. m /\ DOMAIN b = 1 .. n /\ DOMAIN c = 1 .. m + n
      /\ \A i \in 1 .. m : c[i] = a[i]
      /\ \A i \in 1 .. n : c[m + i] = b[i]
  OBVIOUS
<1> HIDE DEF c, m, n
<1>2. \A i \in 1 .. m + n : \/ i \in 1 .. m
                            \/ i - m \in 1 .. n /\ m + (i - m) = i
  BY <1>1
<1>3. \A i \in 1 .. m + n : i \in 1 .. m \/ (i - m \in 1 .. n /\ c[i] = b[i - m])
  BY <1>1, <1>2
<1>4. Members(c) = Members(a) \union Members(b)
  <2>1. \A i \in 1 .. n : m + i \in 1 .. m + n
    BY <1>1
  <2>2. \A i \in 1 .. m : i \in 1 .. m + n
    BY <1>1
  <2>3. Members(c) \subseteq Members(a) \union Members(b)
    BY <1>1, <1>3 DEF Members
  <2>4. Members(a) \union Members(b) \subseteq Members(c)
    BY <1>1, <2>1, <2>2 DEF Members
  <2> QED
    BY <2>3, <2>4
<1>5. ASSUME NEW i \in 1 .. m + n, NEW j \in 1 .. m + n, i < j PROVE Before(c[i], c[j])
  <2>1. CASE i \in 1 .. m /\ j \in 1 .. m
    BY <1>1, <1>5, <2>1 DEF Sorted, m
  <2>2. CASE i \in 1 .. m /\ j \notin 1 .. m
    <3>1. c[i] \in Members(a) /\ c[j] \in Members(b)
      BY <1>1, <1>3, <2>2 DEF Members
    <3> QED
      BY <3>1 DEF Before
  <2>3. CASE i \notin 1 .. m
    <3>1. /\ j \notin 1 .. m /\ i - m \in 1 .. n /\ j - m \in 1 .. n /\ i - m < j - m
          /\ c[i] = b[i - m] /\ c[j] = b[j - m]
      BY <1>1, <1>3, <1>5, <2>3
    <3> QED
      BY <3>1 DEF Sorted, n
  <2> QED
    BY <2>1, <2>2, <2>3
<1>6. Sorted(c)
  BY <1>1, <1>5 DEF Sorted
<1> QED
  BY <1>1, <1>4, <1>6 DEF c

\* A sorted list of all the alerts has each of them once.
LEMMA SortedHasAll ==
  ASSUME NEW n \in Nat, NEW sev \in [1 .. n -> AlertSeverities],
         NEW o \in Seq(Alert(n)), Sorted(o), Members(o) = Members(Listed(n, sev))
  PROVE  Len(o) = n
<1> DEFINE s == Listed(n, sev)
           f == [i \in 1 .. Len(o) |-> o[i].at]
<1>1. /\ DOMAIN s = 1 .. n /\ \A i \in 1 .. n : s[i].at = i
      /\ DOMAIN o = 1 .. Len(o) /\ Len(o) \in Nat
  BY DEF Listed
<1> HIDE DEF s
<1>2. \A i \in 1 .. Len(o) : o[i].at \in 1 .. n /\ o[i] = s[o[i].at]
  <2> TAKE i \in 1 .. Len(o)
  <2>1. o[i] \in Members(s)
    BY <1>1 DEF Members, s
  <2>2. PICK k \in 1 .. n : o[i] = s[k]
    BY <1>1, <2>1 DEF Members
  <2> QED
    BY <1>1, <2>2
<1>3. \A i, j \in 1 .. Len(o) : i < j => o[i].at # o[j].at
  <2> TAKE i, j \in 1 .. Len(o)
  <2>1. ASSUME i < j, o[i].at = o[j].at PROVE FALSE
    <3>1. o[i] = o[j]
      BY <1>2, <2>1
    <3>2. Rank(o[i]) \in Nat /\ o[i].at \in Nat
      BY <1>2 DEF Rank
    <3> QED
      BY <2>1, <3>1, <3>2 DEF Sorted, Before
  <2> QED
    BY <2>1
<1>4. f \in [1 .. Len(o) -> 1 .. n]
  BY <1>2
<1>5. \A i \in 1 .. Len(o) : f[i] = o[i].at
  OBVIOUS
<1> HIDE DEF f
<1>6. IsInjective(f)
  <2>1. DOMAIN f = 1 .. Len(o)
    BY <1>4
  <2>2. \A i, j \in 1 .. Len(o) : f[i] = f[j] => i = j
    <3> TAKE i, j \in 1 .. Len(o)
    <3>1. i < j \/ j < i \/ i = j
      BY <1>1
    <3> QED
      BY <1>3, <1>5, <3>1
  <2> QED
    BY <2>1, <2>2 DEF IsInjective
<1>7. \A k \in 1 .. n : \E i \in 1 .. Len(o) : f[i] = k
  <2> TAKE k \in 1 .. n
  <2>1. s[k] \in Members(o)
    BY <1>1 DEF Members, s
  <2>2. PICK i \in 1 .. Len(o) : o[i] = s[k]
    BY <1>1, <2>1 DEF Members
  <2> QED
    BY <1>1, <1>5, <2>2
<1>8. f \in Injection(1 .. Len(o), 1 .. n) /\ f \in Surjection(1 .. Len(o), 1 .. n)
  BY <1>4, <1>6, <1>7 DEF Injection, Surjection
<1>9. /\ IsFiniteSet(1 .. n) /\ Cardinality(1 .. n) = n
      /\ Cardinality(1 .. Len(o)) = Len(o)
  <2>1. \A m \in Nat : IsFiniteSet(1 .. m) /\ Cardinality(1 .. m) = m
    <3> TAKE m \in Nat
    <3>1. /\ IsFiniteSet(1 .. m)
          /\ Cardinality(1 .. m) = IF 1 > m THEN 0 ELSE m - 1 + 1
      BY FS_Interval
    <3> QED
      BY <3>1
  <2> QED
    BY <1>1, <2>1
<1>10. Cardinality(1 .. Len(o)) = Cardinality(1 .. n)
  BY <1>8, <1>9, FS_Injection
<1> QED
  BY <1>9, <1>10

\* filterSignificant, for any list of alerts and any limit.
THEOREM ShownWorstFirst ==
  \A n, max \in Nat : \A sev \in [1 .. n -> AlertSeverities] : KeepsWorst(n, max, sev)
<1> SUFFICES ASSUME NEW n \in Nat, NEW max \in Nat, NEW sev \in [1 .. n -> AlertSeverities]
             PROVE  KeepsWorst(n, max, sev)
  OBVIOUS
<1> DEFINE s == Listed(n, sev)
           errors == {a \in Members(s) : a.severity = "error"}
           warns  == {a \in Members(s) : a.severity = "warn"}
           infos  == Members(s) \ (errors \union warns)
           oe == Only(s, errors)
           ow == Only(s, warns)
           oi == Only(s, infos)
           all == oe \o ow \o oi
           most == IF Len(all) < max THEN Len(all) ELSE max
           shown == SubSeq(all, 1, most)
<1>1. FilterSignificant(s, max) = shown
  BY DEF FilterSignificant
<1>2. ASSUME NEW o \in Seq(Alert(n)), NEW r \in 1 .. 3, \A x \in Members(o) : Rank(x) = r,
             \A i, j \in 1 .. Len(o) : i < j => o[i].at < o[j].at
      PROVE  Sorted(o)
  <2>1. \A i \in 1 .. Len(o) : Rank(o[i]) = r
    BY <1>2 DEF Members
  <2> QED
    BY <1>2, <2>1 DEF Sorted, Before
<1>3. oe \in Seq(Alert(n)) /\ Members(oe) = errors /\ Sorted(oe)
  <2>1. /\ oe \in Seq(Alert(n)) /\ Members(oe) = errors
        /\ \A i, j \in 1 .. Len(oe) : i < j => oe[i].at < oe[j].at
    BY OnlyInOrder
  <2>2. \A x \in errors : Rank(x) = 1
    BY DEF Rank
  <2> HIDE DEF oe, errors
  <2> QED
    BY <1>2, <2>1, <2>2
<1>4. ow \in Seq(Alert(n)) /\ Members(ow) = warns /\ Sorted(ow)
  <2>1. /\ ow \in Seq(Alert(n)) /\ Members(ow) = warns
        /\ \A i, j \in 1 .. Len(ow) : i < j => ow[i].at < ow[j].at
    BY OnlyInOrder
  <2>2. \A x \in warns : Rank(x) = 2
    BY DEF Rank
  <2> HIDE DEF ow, warns
  <2> QED
    BY <1>2, <2>1, <2>2
<1>5. oi \in Seq(Alert(n)) /\ Members(oi) = infos /\ Sorted(oi)
  <2>1. /\ oi \in Seq(Alert(n)) /\ Members(oi) = infos
        /\ \A i, j \in 1 .. Len(oi) : i < j => oi[i].at < oi[j].at
    BY OnlyInOrder
  <2>2. \A x \in infos : Rank(x) = 3
    BY DEF Rank
  <2> HIDE DEF oi, infos
  <2> QED
    BY <1>2, <2>1, <2>2
<1>6. /\ \A x \in errors : Rank(x) = 1
      /\ \A x \in warns : Rank(x) = 2
      /\ \A x \in infos : Rank(x) = 3
      /\ errors \union warns \union infos = Members(s)
  BY DEF Rank
<1> HIDE DEF oe, ow, oi, errors, warns, infos
<1>7. all \in Seq(Alert(n)) /\ Sorted(all) /\ Members(all) = Members(s)
  <2> DEFINE two == oe \o ow
  <2>1. two \in Seq(Alert(n)) /\ Sorted(two) /\ Members(two) = errors \union warns
    <3>1. \A x \in Members(oe), y \in Members(ow) : Rank(x) < Rank(y)
      BY <1>3, <1>4, <1>6
    <3> QED
      BY <1>3, <1>4, <3>1, SortedConcat
  <2>2. all = two \o oi
    OBVIOUS
  <2> HIDE DEF two, all
  <2>3. \A x \in Members(two), y \in Members(oi) : Rank(x) < Rank(y)
    BY <1>5, <1>6, <2>1
  <2>4. /\ two \o oi \in Seq(Alert(n)) /\ Sorted(two \o oi)
        /\ Members(two \o oi) = Members(two) \union Members(oi)
    BY <1>5, <2>1, <2>3, SortedConcat
  <2> QED
    BY <1>5, <1>6, <2>1, <2>2, <2>4
<1> HIDE DEF all
<1>8. Len(all) = n
  BY <1>7, SortedHasAll DEF s
<1> HIDE DEF s
<1>9. /\ most \in Nat /\ most = (IF n < max THEN n ELSE max) /\ most <= n
  BY <1>8
<1> HIDE DEF most
<1>10. /\ Len(shown) = most /\ DOMAIN shown = 1 .. most /\ DOMAIN all = 1 .. n
       /\ \A i \in 1 .. most : shown[i] = all[i]
  BY <1>7, <1>8, <1>9
<1> HIDE DEF shown
<1>11. \A i, j \in DOMAIN shown : i < j => Before(shown[i], shown[j])
  BY <1>7, <1>8, <1>9, <1>10 DEF Sorted
<1>12. ASSUME NEW a \in Members(s) \ Members(shown), NEW b \in Members(shown)
       PROVE  Before(b, a)
  <2>1. PICK j \in 1 .. n : a = all[j]
    BY <1>7, <1>10 DEF Members
  <2>2. PICK i \in 1 .. most : b = all[i]
    BY <1>10 DEF Members
  <2>3. j \notin 1 .. most
    BY <1>10, <2>1 DEF Members
  <2>4. i \in 1 .. n /\ i < j
    BY <1>9, <2>1, <2>2, <2>3
  <2> QED
    BY <1>7, <1>8, <2>1, <2>2, <2>4 DEF Sorted
<1> QED
  BY <1>1, <1>9, <1>10, <1>11, <1>12 DEF KeepsWorst, s

\* What is true of every list and every count is true of the ones that TLC looks at.
THEOREM SeverityDecides == ServiceSpec => []SeverityRespected
<1>1. FilterKeepsWorst
  BY ShownWorstFirst DEF FilterKeepsWorst
<1>2. HeuristicIsMonotone
  BY MoreTroubleIsWorse DEF HeuristicIsMonotone
<1>3. SeverityRespected
  BY <1>1, <1>2 DEF SeverityRespected
<1> QED
  BY <1>3, PTL
=============================================================================
