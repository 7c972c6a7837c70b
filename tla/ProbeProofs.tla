---------------------------- MODULE ProbeProofs ----------------------------
(***************************************************************************)
(* Proofs about Probe, for every set of streams, every sequence of pieces  *)
(* on the wire, every size of the capture ring and every reordering.       *)
(***************************************************************************)
EXTENDS Probe, SequenceTheorems, TLAPS

\* A packet is a stream and the number of one of its pieces.
LEMMA PacketShape ==
  /\ \A s \in Streams : \A n \in Numbers(s) : <<s, n>> \in Packets
  /\ \A a \in Packets : /\ a[1] \in Streams /\ a[2] \in Numbers(a[1]) /\ a[2] \in Nat
                        /\ a = <<a[1], a[2]>>
<1>1. ASSUME NEW s \in Streams, NEW n \in Numbers(s) PROVE <<s, n>> \in Packets
  BY DEF Packets
<1>2. ASSUME NEW a \in Packets
      PROVE  a[1] \in Streams /\ a[2] \in Numbers(a[1]) /\ a[2] \in Nat /\ a = <<a[1], a[2]>>
  <2>1. PICK s \in Streams : a \in {s} \X Numbers(s)
    BY DEF Packets
  <2> QED
    BY <2>1 DEF Numbers
<1> QED
  BY <1>1, <1>2

\* The lengths of the streams are numbers.
LEMMA WireLength == \A s \in Streams : Len(Wire[s]) \in Nat
BY ProbeAssumption

-----------------------------------------------------------------------------
(* What the steps of the assembler and the goroutines keep *)

\* The invariants about POSTs depend on the goroutines in two ways only: a
\* goroutine reads on, and one that waits for an answer goes on waiting.
LEMMA PostsKept ==
  ASSUME ProbeInv, UNCHANGED <<flying, posted, log>>, gaveUp \subseteq gaveUp',
         current' \in [Streams -> Nat],
         \A s \in Streams : current[s] <= current'[s],
         \A s \in Streams : reader'[s] = "posting" <=> reader[s] = "posting",
         \A s \in Streams : reader[s] = "posting" => current'[s] = current[s]
  PROVE  /\ PostedShape' /\ WaitShape' /\ FlyingShape' /\ LogShape'
         /\ HandledOnce' /\ HandledInOrder'
<1>1. \A a \in posted : a[1] \in Streams /\ a[2] \in Nat
  BY PacketShape DEF ProbeInv, TypeOK
<1>2. current \in [Streams -> Nat] /\ flying \subseteq posted
  BY DEF ProbeInv, TypeOK
<1>3. PostedShape'
  <2> SUFFICES ASSUME NEW a \in posted PROVE a[2] <= current'[a[1]]
    BY DEF PostedShape
  <2>1. a[2] <= current[a[1]]
    BY DEF ProbeInv, PostedShape
  <2> QED
    BY <1>1, <1>2, <2>1
<1>4. FlyingShape'
  <2> SUFFICES ASSUME NEW a \in flying, a \notin gaveUp'
               PROVE  reader'[a[1]] = "posting" /\ a[2] = current'[a[1]]
    BY DEF FlyingShape
  <2>1. reader[a[1]] = "posting" /\ a[2] = current[a[1]]
    BY DEF ProbeInv, FlyingShape
  <2> QED
    BY <1>1, <1>2, <2>1
<1>5. LogShape' /\ HandledOnce' /\ HandledInOrder'
  BY DEF ProbeInv, LogShape, HandledOnce, HandledInOrder
<1>6. WaitShape'
  BY DEF ProbeInv, WaitShape
<1> QED
  BY <1>3, <1>4, <1>5, <1>6

\* A piece that is read comes after the last one, and leaves the shape as it was.
LEMMA ReadsNext ==
  ASSUME ProbeInv, NEW s \in Streams, NEW kinds, Reads(s, kinds), next' = next
  PROVE  /\ Head(given[s]) \in Numbers(s) /\ current[s] < Head(given[s])
         /\ current' \in [Streams -> Nat] /\ \A t \in Streams : current[t] <= current'[t]
         /\ \A t \in Streams : t # s => current'[t] = current[t]
         /\ given' \in [Streams -> Seq(Nat)]
         /\ \A t \in Streams : given'[t] # <<>> => given[t] # <<>>
         /\ GivenShape'
<1> DEFINE g == given[s]
           n == Head(g)
<1>1. /\ given \in [Streams -> Seq(Nat)] /\ current \in [Streams -> Nat] /\ g \in Seq(Nat)
      /\ next[s] \in 1 .. Len(Wire[s]) + 1 /\ Len(Wire[s]) \in Nat
  BY WireLength DEF ProbeInv, TypeOK
<1>2. /\ g # <<>> /\ current' = [current EXCEPT ![s] = n]
      /\ given' = [given EXCEPT ![s] = Tail(g)]
  BY DEF Reads
<1>3. /\ current[s] < next[s] - Len(g)
      /\ \A i \in DOMAIN g : g[i] = next[s] - Len(g) + i - 1
  BY DEF ProbeInv, GivenShape
<1>4. Len(g) \in Nat \ {0} /\ DOMAIN g = 1 .. Len(g) /\ n = g[1]
  BY <1>1, <1>2
<1>5. n = next[s] - Len(g) /\ n \in Nat
  BY <1>1, <1>3, <1>4, SMTT(30)
<1>6. n \in Numbers(s) /\ current[s] < n
  BY <1>1, <1>3, <1>4, <1>5 DEF Numbers
<1>7. Tail(g) \in Seq(Nat) /\ Len(Tail(g)) = Len(g) - 1
      /\ \A i \in 1 .. Len(g) - 1 : Tail(g)[i] = g[i + 1]
  BY <1>1, <1>2
<1>8. GivenShape'
  <2> SUFFICES ASSUME NEW t \in Streams
               PROVE  /\ current'[t] < next[t] - Len(given'[t])
                      /\ \A i \in DOMAIN given'[t] :
                           given'[t][i] = next[t] - Len(given'[t]) + i - 1
    BY DEF GivenShape
  <2>1. CASE t # s
    BY <1>1, <1>2, <2>1 DEF ProbeInv, GivenShape
  <2>2. CASE t = s
    <3>1. given'[t] = Tail(g) /\ current'[t] = n
      BY <1>1, <1>2, <2>2
    <3>2. n < next[s] - (Len(g) - 1)
      BY <1>1, <1>4, <1>5
    <3>3. ASSUME NEW i \in 1 .. Len(g) - 1
          PROVE  Tail(g)[i] = next[s] - (Len(g) - 1) + i - 1
      <4>1. i + 1 \in DOMAIN g /\ Tail(g)[i] = g[i + 1]
        BY <1>4, <1>7
      <4>2. g[i + 1] = next[s] - Len(g) + (i + 1) - 1
        BY <1>3, <4>1
      <4> QED
        BY <1>1, <1>4, <4>1, <4>2, SMTT(30)
    <3>4. DOMAIN Tail(g) = 1 .. Len(g) - 1
      BY <1>4, <1>7
    <3> QED
      BY <1>7, <2>2, <3>1, <3>2, <3>3, <3>4
  <2> QED
    BY <2>1, <2>2
<1>9. /\ current' \in [Streams -> Nat] /\ \A t \in Streams : current[t] <= current'[t]
      /\ \A t \in Streams : t # s => current'[t] = current[t]
  BY <1>1, <1>2, <1>5, <1>6
<1>10. given' \in [Streams -> Seq(Nat)] /\ \A t \in Streams : given'[t] # <<>> => given[t] # <<>>
  BY <1>1, <1>2, <1>7
<1> QED
  BY <1>6, <1>8, <1>9, <1>10

-----------------------------------------------------------------------------
(* The inductive invariant *)

LEMMA ProbeInit == Init => ProbeInv
<1> SUFFICES ASSUME Init PROVE ProbeInv
  OBVIOUS
<1>1. TypeOK
  BY WireLength, ProbeAssumption DEF Init, TypeOK, ReaderStates
<1>2. GivenShape /\ EndShape
  BY DEF Init, GivenShape, EndShape
<1>3. PostedShape /\ WaitShape /\ FlyingShape /\ LogShape /\ HandledOnce /\ HandledInOrder
  BY DEF Init, PostedShape, WaitShape, FlyingShape, LogShape, HandledOnce, HandledInOrder
<1> QED
  BY <1>1, <1>2, <1>3 DEF ProbeInv

LEMMA ArriveKeeps ==
  ASSUME ProbeInv, NEW s \in Streams, NEW n \in Numbers(s), Arrive(s, n)
  PROVE  ProbeInv'
<1>1. <<s, n>> \in Packets /\ n \in Nat /\ RingSize \in Nat
  BY PacketShape, ProbeAssumption DEF Numbers
<1>2. /\ seen' = [seen EXCEPT ![s] = @ \union {n}]
      /\ \/ /\ Len(ring) < RingSize
            /\ ring' = Append(ring, <<s, n>>) /\ missed' = missed
         \/ missed' = [missed EXCEPT ![s] = @ \union {n}] /\ ring' = ring
  BY DEF Arrive
<1>3. /\ seen \in [Streams -> SUBSET Nat] /\ missed \in [Streams -> SUBSET Nat]
      /\ ring \in Seq(Packets) /\ Len(ring) <= RingSize
  BY DEF ProbeInv, TypeOK
<1>4. seen' \in [Streams -> SUBSET Nat] /\ missed' \in [Streams -> SUBSET Nat]
  BY <1>1, <1>2, <1>3
<1>5. ring' \in Seq(Packets) /\ Len(ring') <= RingSize
  <2>1. CASE ring' = Append(ring, <<s, n>>) /\ Len(ring) < RingSize
    BY <1>1, <1>3, <2>1, AppendProperties
  <2>2. CASE ring' = ring
    BY <1>3, <2>2
  <2> QED
    BY <1>2, <2>1, <2>2
<1>6. TypeOK'
  BY <1>4, <1>5 DEF ProbeInv, TypeOK, Arrive, asmVars, postVars
<1>7. GivenShape' /\ EndShape'
  BY DEF ProbeInv, Arrive, GivenShape, EndShape, asmVars
<1>8. PostedShape' /\ WaitShape' /\ FlyingShape' /\ LogShape' /\ HandledOnce' /\ HandledInOrder'
  BY PostsKept DEF ProbeInv, TypeOK, Arrive, postVars
<1> QED
  BY <1>6, <1>7, <1>8 DEF ProbeInv

LEMMA AssembleKeeps == ASSUME ProbeInv, Assemble PROVE ProbeInv'
<1> DEFINE s == Head(ring)[1]
           S == held[s] \union {Head(ring)[2]}
<1>1. PICK last \in next[s] .. Len(Wire[s]) + 1 :
         /\ next[s] .. last - 1 \subseteq S
         /\ held' = [held EXCEPT ![s] = S \ (next[s] .. last - 1)]
         /\ next' = [next EXCEPT ![s] = last]
         /\ given' = [given EXCEPT ![s] = [i \in 1 .. last - next[s] |-> next[s] + i - 1]]
         /\ feeding' = IF last = next[s] THEN NoStream ELSE s
         /\ reader' = Started(s)
  BY DEF Assemble
<1>2. ring \in Seq(Packets) /\ ring # <<>> /\ ring' = Tail(ring) /\ feeding = NoStream
  BY DEF ProbeInv, TypeOK, Assemble
<1>3. s \in Streams /\ Head(ring)[2] \in Nat
  BY <1>2, PacketShape
<1> DEFINE g == [i \in 1 .. last - next[s] |-> next[s] + i - 1]
<1>4. /\ next[s] \in Nat /\ 1 <= next[s] /\ last \in Nat /\ next[s] <= last
      /\ last <= Len(Wire[s]) + 1 /\ Len(Wire[s]) \in Nat
  BY <1>1, <1>3, WireLength DEF ProbeInv, TypeOK
<1>5. g \in Seq(Nat) /\ Len(g) = last - next[s] /\ DOMAIN g = 1 .. last - next[s]
      /\ \A i \in DOMAIN g : g[i] = next[s] + i - 1
  <2>1. last - next[s] \in Nat /\ \A i \in 1 .. last - next[s] : next[s] + i - 1 \in Nat
    BY <1>4
  <2>2. g \in [1 .. last - next[s] -> Nat]
    BY <2>1
  <2>3. g \in Seq(Nat)
    BY <2>1, <2>2, SeqDef, SMTT(30)
  <2>4. DOMAIN g = 1 .. last - next[s] /\ \A i \in DOMAIN g : g[i] = next[s] + i - 1
    OBVIOUS
  <2> HIDE DEF g
  <2>5. Len(g) = last - next[s]
    <3>1. Len(g) \in Nat /\ 1 .. Len(g) = 1 .. last - next[s]
      BY <2>3, <2>4, LenProperties
    <3>2. \A n \in Nat : (n \in 1 .. Len(g)) <=> (n \in 1 .. last - next[s])
      BY <3>1
    <3>3. Len(g) <= last - next[s] /\ last - next[s] <= Len(g)
      BY <2>1, <3>1, <3>2
    <3> QED
      BY <2>1, <3>1, <3>3
  <2> QED
    BY <2>3, <2>4, <2>5
<1>6. \A t \in Streams : given[t] = <<>>
  BY <1>2, ProbeAssumption DEF ProbeInv, TypeOK
<1>7. /\ given \in [Streams -> Seq(Nat)] /\ held \in [Streams -> SUBSET Nat]
      /\ reader \in [Streams -> ReaderStates] /\ current \in [Streams -> Nat]
      /\ next \in [Streams -> Nat]
      /\ \A t \in Streams : next[t] \in 1 .. Len(Wire[t]) + 1
      /\ next' = [next EXCEPT ![s] = last] /\ given' = [given EXCEPT ![s] = g]
  BY <1>1 DEF ProbeInv, TypeOK
<1>8. reader' = [reader EXCEPT ![s] = IF @ = "none" THEN "reading" ELSE @]
  BY <1>1 DEF Started
<1>9. current' = current /\ wireVars' = wireVars /\ postVars' = postVars
  BY DEF Assemble, wireVars, postVars
<1> HIDE DEF s, S, g
<1>10. GivenShape'
  <2> SUFFICES ASSUME NEW t \in Streams
               PROVE  /\ current[t] < next'[t] - Len(given'[t])
                      /\ \A i \in DOMAIN given'[t] :
                           given'[t][i] = next'[t] - Len(given'[t]) + i - 1
    BY <1>9 DEF GivenShape
  <2>1. current[t] < next[t] - Len(given[t])
    BY DEF ProbeInv, GivenShape
  <2>2. CASE t # s
    BY <1>3, <1>7, <2>2 DEF ProbeInv, GivenShape
  <2>3. CASE t = s
    <3>1. next'[t] = last /\ given'[t] = g /\ last - Len(g) = next[s]
      BY <1>3, <1>4, <1>5, <1>7, <2>3
    <3>2. given[t] = <<>> /\ Len(given[t]) = 0
      BY <1>6
    <3>3. current[t] < next[s]
      BY <1>4, <1>7, <2>1, <2>3, <3>2
    <3> QED
      BY <1>4, <1>5, <3>1, <3>3
  <2> QED
    BY <2>2, <2>3
<1>11. EndShape'
  <2> SUFFICES ASSUME NEW t \in Streams, reader'[t] = "ended"
               PROVE  next'[t] = Len(Wire[t]) + 1
    BY DEF EndShape
  <2>1. reader[t] = "ended"
    BY <1>3, <1>7, <1>8
  <2>2. next[t] = Len(Wire[t]) + 1
    BY <2>1 DEF ProbeInv, EndShape
  <2> QED
    BY <1>1, <1>3, <1>4, <1>7, <2>2
<1>12. TypeOK'
  <2>1. seen' = seen /\ missed' = missed /\ flying' = flying /\ posted' = posted
        /\ gaveUp' = gaveUp /\ log' = log
    BY <1>9 DEF wireVars, postVars
  <2>2. ring' \in Seq(Packets) /\ Len(ring') <= RingSize
    BY <1>2, ProbeAssumption DEF ProbeInv, TypeOK
  <2>3. held' \in [Streams -> SUBSET Nat]
    <3>1. S \ (next[s] .. last - 1) \in SUBSET Nat
      BY <1>3, <1>7 DEF S
    <3> QED
      BY <1>1, <1>7, <3>1
  <2>4. next' \in [Streams -> Nat] /\ \A t \in Streams : next'[t] \in 1 .. Len(Wire[t]) + 1
    <3>1. last \in 1 .. Len(Wire[s]) + 1
      BY <1>4
    <3> QED
      BY <1>3, <1>4, <1>7, <3>1
  <2>5. feeding' \in Streams \union {NoStream}
    BY <1>1, <1>3
  <2>6. given' \in [Streams -> Seq(Nat)]
    BY <1>5, <1>7
  <2>7. ASSUME NEW t \in Streams, given'[t] # <<>> PROVE feeding' = t
    <3>1. t = s
      BY <1>3, <1>6, <1>7, <2>7
    <3>2. g # <<>>
      BY <1>3, <1>7, <2>7, <3>1
    <3>3. last # next[s]
      BY <1>4, <1>5, <3>2
    <3> QED
      BY <1>1, <3>1, <3>3
  <2>8. reader' \in [Streams -> ReaderStates]
    BY <1>7, <1>8 DEF ReaderStates
  <2>9. ASSUME NEW t \in Streams, reader'[t] = "ended" PROVE given'[t] = <<>> /\ feeding' # t
    <3>1. reader[t] = "ended"
      BY <1>3, <1>7, <1>8, <2>9
    <3>2. next[t] = Len(Wire[t]) + 1
      BY <3>1 DEF ProbeInv, EndShape
    <3>3. CASE t # s
      BY <1>1, <1>3, <1>6, <1>7, <3>3, ProbeAssumption
    <3>4. CASE t = s
      <4>1. last = next[s] /\ feeding' = NoStream
        BY <1>1, <1>4, <3>2, <3>4
      <4> QED
        BY <2>7, <4>1, ProbeAssumption
    <3> QED
      BY <3>3, <3>4
  <2> QED
    BY <1>9, <2>1, <2>2, <2>3, <2>4, <2>5, <2>6, <2>7, <2>8, <2>9 DEF ProbeInv, TypeOK
<1>13. PostedShape' /\ WaitShape' /\ FlyingShape' /\ LogShape' /\ HandledOnce' /\ HandledInOrder'
  <2>1. \A t \in Streams : reader'[t] = "posting" <=> reader[t] = "posting"
    BY <1>7, <1>8
  <2> QED
    BY <1>7, <1>9, <2>1, PostsKept DEF postVars
<1> QED
  BY <1>10, <1>11, <1>12, <1>13 DEF ProbeInv

LEMMA FedKeeps == ASSUME ProbeInv, NEW s \in Streams, Fed(s) PROVE ProbeInv'
<1>1. TypeOK'
  BY ProbeAssumption DEF ProbeInv, TypeOK, Fed, wireVars, postVars
<1>2. GivenShape' /\ EndShape'
  BY DEF ProbeInv, Fed, GivenShape, EndShape
<1>3. PostedShape' /\ WaitShape' /\ FlyingShape' /\ LogShape' /\ HandledOnce' /\ HandledInOrder'
  BY PostsKept DEF ProbeInv, TypeOK, Fed, postVars
<1> QED
  BY <1>1, <1>2, <1>3 DEF ProbeInv

\* The frame loop reads a piece, and goes on reading or begins to drain.
LEMMA ReadingKeeps ==
  ASSUME ProbeInv, NEW s \in Streams, NEW kinds, NEW r \in {"reading", "draining"},
         Reads(s, kinds), reader' = [reader EXCEPT ![s] = r],
         UNCHANGED <<wireVars, ring, asmVars, flying, posted, log>>,
         gaveUp \subseteq gaveUp', gaveUp' \subseteq Packets
  PROVE  ProbeInv'
<1>1. next' = next /\ held' = held /\ feeding' = feeding
  BY DEF asmVars
<1>2. reader \in [Streams -> ReaderStates] /\ reader[s] = "reading"
  BY DEF ProbeInv, TypeOK, Reads
<1>3. /\ current' \in [Streams -> Nat] /\ given' \in [Streams -> Seq(Nat)]
      /\ \A t \in Streams : current[t] <= current'[t]
      /\ \A t \in Streams : t # s => current'[t] = current[t]
      /\ \A t \in Streams : given'[t] # <<>> => given[t] # <<>>
      /\ GivenShape'
  BY <1>1, ReadsNext
<1>4. TypeOK'
  BY <1>1, <1>2, <1>3 DEF ProbeInv, TypeOK, ReaderStates, wireVars
<1>5. EndShape'
  BY <1>1, <1>2 DEF ProbeInv, EndShape
<1>6. \A t \in Streams : /\ reader'[t] = "posting" <=> reader[t] = "posting"
                         /\ reader[t] = "posting" => current'[t] = current[t]
  BY <1>2, <1>3
<1>7. PostedShape' /\ WaitShape' /\ FlyingShape' /\ LogShape' /\ HandledOnce' /\ HandledInOrder'
  BY <1>3, <1>6, PostsKept
<1> QED
  BY <1>3, <1>4, <1>5, <1>7 DEF ProbeInv

LEMMA PassKeeps == ASSUME ProbeInv, NEW s \in Streams, Pass(s) PROVE ProbeInv'
<1>1. /\ Reads(s, Skipped \union {"part"})
      /\ UNCHANGED <<wireVars, ring, asmVars, flying, posted, gaveUp, log>>
  BY DEF Pass, postVars
<1>2. reader' = [reader EXCEPT ![s] = "reading"]
  BY DEF Pass, Reads, ProbeInv, TypeOK
<1>3. gaveUp' = gaveUp /\ gaveUp \subseteq Packets
  BY <1>1 DEF ProbeInv, TypeOK
<1> QED
  BY <1>1, <1>2, <1>3, ReadingKeeps

LEMMA BreakKeeps == ASSUME ProbeInv, NEW s \in Streams, Break(s) PROVE ProbeInv'
<1>1. Reads(s, Unparsable) /\ UNCHANGED <<wireVars, ring, asmVars, flying, posted, gaveUp, log>>
  BY DEF Break, postVars
<1>2. reader' = [reader EXCEPT ![s] = "draining"]
  BY DEF Break
<1>3. gaveUp' = gaveUp /\ gaveUp \subseteq Packets
  BY <1>1 DEF ProbeInv, TypeOK
<1> QED
  BY <1>1, <1>2, <1>3, ReadingKeeps

LEMMA UnsentKeeps == ASSUME ProbeInv, NEW s \in Streams, Unsent(s) PROVE ProbeInv'
<1> DEFINE a == <<s, Head(given[s])>>
<1>1. /\ Reads(s, {"alert"}) /\ gaveUp' = gaveUp \union {a}
      /\ UNCHANGED <<wireVars, ring, asmVars, flying, posted, log>>
  BY DEF Unsent
<1>2. reader' = [reader EXCEPT ![s] = "reading"]
  BY DEF Unsent, Reads, ProbeInv, TypeOK
<1>3. Head(given[s]) \in Numbers(s)
  BY <1>1, ReadsNext DEF asmVars
<1>4. a \in Packets
  BY <1>3, PacketShape
<1>5. gaveUp \subseteq gaveUp' /\ gaveUp' \subseteq Packets
  BY <1>1, <1>4 DEF ProbeInv, TypeOK
<1> QED
  BY <1>1, <1>2, <1>5, ReadingKeeps

LEMMA ReportKeeps == ASSUME ProbeInv, NEW s \in Streams, Report(s) PROVE ProbeInv'
<1> DEFINE n == Head(given[s])
           a == <<s, n>>
<1>1. next' = next /\ held' = held /\ feeding' = feeding /\ log' = log /\ gaveUp' = gaveUp
  BY DEF Report, asmVars
<1>2. reader \in [Streams -> ReaderStates] /\ reader[s] = "reading"
  BY DEF ProbeInv, TypeOK, Report, Reads
<1>3. /\ current' \in [Streams -> Nat] /\ given' \in [Streams -> Seq(Nat)]
      /\ \A t \in Streams : current[t] <= current'[t]
      /\ \A t \in Streams : t # s => current'[t] = current[t]
      /\ \A t \in Streams : given'[t] # <<>> => given[t] # <<>>
      /\ GivenShape' /\ n \in Numbers(s) /\ current[s] < n
  BY <1>1, ReadsNext DEF Report
<1>4. a \in Packets /\ a[1] = s /\ a[2] = n /\ n \in Nat
  BY <1>3, PacketShape DEF Numbers
<1>5. /\ flying' = flying \union {a} /\ posted' = posted \union {a}
      /\ reader' = [reader EXCEPT ![s] = "posting"] /\ current'[s] = n
  BY DEF Report, Reads, ProbeInv, TypeOK
<1>6. /\ \A b \in posted : b[1] \in Streams /\ b[2] \in Nat /\ b[2] <= current[b[1]]
      /\ current \in [Streams -> Nat] /\ flying \subseteq posted
  BY PacketShape DEF ProbeInv, TypeOK, PostedShape
<1>7. a \notin posted
  BY <1>3, <1>4, <1>6
<1>8. TypeOK'
  BY <1>1, <1>2, <1>3, <1>4, <1>5 DEF ProbeInv, TypeOK, Report, ReaderStates, wireVars
<1>9. EndShape'
  BY <1>1, <1>2, <1>5 DEF ProbeInv, EndShape
<1>10. PostedShape'
  <2> SUFFICES ASSUME NEW b \in posted' PROVE b[2] <= current'[b[1]]
    BY DEF PostedShape
  <2>1. CASE b = a
    BY <1>4, <1>5, <2>1
  <2>2. CASE b \in posted
    BY <1>3, <1>6, <2>2
  <2> QED
    BY <1>5, <2>1, <2>2
<1>11. WaitShape'
  BY <1>2, <1>3, <1>5 DEF ProbeInv, WaitShape
<1>12. FlyingShape'
  <2> SUFFICES ASSUME NEW b \in flying', b \notin gaveUp'
               PROVE  reader'[b[1]] = "posting" /\ b[2] = current'[b[1]]
    BY DEF FlyingShape
  <2>1. CASE b = a
    BY <1>2, <1>4, <1>5, <2>1
  <2>2. CASE b \in flying
    <3>1. reader[b[1]] = "posting" /\ b[2] = current[b[1]] /\ b[1] \in Streams
      BY <1>1, <1>6, <2>2 DEF ProbeInv, FlyingShape
    <3>2. b[1] # s
      BY <1>2, <3>1
    <3> QED
      BY <1>2, <1>3, <1>5, <3>1, <3>2
  <2> QED
    BY <1>5, <2>1, <2>2
<1>13. LogShape'
  BY <1>1, <1>5, <1>7 DEF ProbeInv, LogShape
<1>14. HandledOnce' /\ HandledInOrder'
  BY <1>1 DEF ProbeInv, HandledOnce, HandledInOrder
<1> QED
  BY <1>3, <1>8, <1>9, <1>10, <1>12, <1>13, <1>14, <1>11 DEF ProbeInv

LEMMA DrainKeeps == ASSUME ProbeInv, NEW s \in Streams, Drain(s) PROVE ProbeInv'
<1>1. /\ next' = next /\ held' = held /\ feeding' = feeding /\ current' = current
      /\ reader' = reader /\ given' = [given EXCEPT ![s] = <<>>]
  BY DEF Drain, asmVars
<1>2. TypeOK'
  BY <1>1 DEF ProbeInv, TypeOK, Drain, wireVars, postVars
<1>3. GivenShape'
  <2> SUFFICES ASSUME NEW t \in Streams
               PROVE  /\ current[t] < next[t] - Len(given'[t])
                      /\ \A i \in DOMAIN given'[t] :
                           given'[t][i] = next[t] - Len(given'[t]) + i - 1
    BY <1>1 DEF GivenShape
  <2>1. /\ given \in [Streams -> Seq(Nat)] /\ next[t] \in Nat /\ current[t] \in Nat
        /\ Len(given[t]) \in Nat /\ current[t] < next[t] - Len(given[t])
    BY DEF ProbeInv, TypeOK, GivenShape
  <2>2. CASE t # s
    BY <1>1, <2>1, <2>2 DEF ProbeInv, GivenShape
  <2>3. CASE t = s
    <3>1. given'[t] = <<>> /\ Len(given'[t]) = 0 /\ DOMAIN given'[t] = {}
      BY <1>1, <2>1, <2>3
    <3> QED
      BY <2>1, <3>1
  <2> QED
    BY <2>2, <2>3
<1>4. EndShape'
  BY <1>1 DEF ProbeInv, EndShape
<1>5. PostedShape' /\ WaitShape' /\ FlyingShape' /\ LogShape' /\ HandledOnce' /\ HandledInOrder'
  BY <1>1, PostsKept, SMTT(30) DEF ProbeInv, TypeOK, Drain, postVars
<1> QED
  BY <1>2, <1>3, <1>4, <1>5 DEF ProbeInv

LEMMA EndKeeps == ASSUME ProbeInv, NEW s \in Streams, End(s) PROVE ProbeInv'
<1>1. /\ next' = next /\ held' = held /\ feeding' = feeding /\ current' = current
      /\ given' = given /\ reader' = [reader EXCEPT ![s] = "ended"]
      /\ reader[s] # "posting" /\ reader \in [Streams -> ReaderStates]
  BY DEF ProbeInv, TypeOK, End, asmVars
<1>2. TypeOK'
  BY <1>1 DEF ProbeInv, TypeOK, ReaderStates, End, wireVars, postVars
<1>3. GivenShape'
  BY <1>1 DEF ProbeInv, GivenShape
<1>4. EndShape'
  BY <1>1 DEF ProbeInv, TypeOK, EndShape, End
<1>5. PostedShape' /\ WaitShape' /\ FlyingShape' /\ LogShape' /\ HandledOnce' /\ HandledInOrder'
  BY <1>1, PostsKept DEF ProbeInv, TypeOK, End, postVars
<1> QED
  BY <1>2, <1>3, <1>4, <1>5 DEF ProbeInv

\* The steps of the control plane and of Dispatch leave the capture side alone.
LEMMA CaptureSideKept ==
  ASSUME ProbeInv, UNCHANGED <<asmVars, given, current>>,
         \A s \in Streams : reader'[s] = "ended" => reader[s] = "ended"
  PROVE  GivenShape' /\ EndShape'
BY DEF ProbeInv, GivenShape, EndShape, asmVars

\* A POST that is handled is new to the log; if it is behind one of its stream, it
\* is not the one the goroutine waits for, so it was given up on.
LEMMA HandleKeeps == ASSUME ProbeInv, NEW a \in Packets, Handle(a) PROVE ProbeInv'
<1>1. /\ a \in flying /\ flying' = flying \ {a} /\ log' = Append(log, a)
      /\ posted' = posted /\ gaveUp' = gaveUp /\ reader' = reader /\ current' = current
  BY DEF Handle
<1>2. /\ log \in Seq(Packets) /\ flying \subseteq posted /\ posted \subseteq Packets
      /\ Len(log) \in Nat /\ DOMAIN log = 1 .. Len(log)
  BY DEF ProbeInv, TypeOK
<1>3. /\ log' \in Seq(Packets) /\ DOMAIN log' = 1 .. Len(log) + 1
      /\ \A i \in DOMAIN log : log'[i] = log[i]
      /\ log'[Len(log) + 1] = a
  BY <1>1, <1>2, AppendProperties
<1>4. a \in posted /\ \A i \in DOMAIN log : log[i] \in posted /\ log[i] # a
  BY <1>1, <1>2 DEF ProbeInv, LogShape
<1>5. \A i \in DOMAIN log' : i \in DOMAIN log \/ i = Len(log) + 1
  BY <1>2, <1>3
<1>6. TypeOK'
  BY <1>1, <1>2, <1>3 DEF ProbeInv, TypeOK, Handle, wireVars, asmVars
<1>7. GivenShape' /\ EndShape'
  BY <1>1, CaptureSideKept DEF Handle
<1>8. PostedShape' /\ WaitShape' /\ FlyingShape'
  BY <1>1 DEF ProbeInv, PostedShape, WaitShape, FlyingShape
<1>9. LogShape'
  BY <1>1, <1>3, <1>4, <1>5 DEF ProbeInv, LogShape
<1>10. HandledOnce'
  <2> SUFFICES ASSUME NEW i \in DOMAIN log', NEW j \in DOMAIN log', log'[i] = log'[j]
               PROVE  i = j
    BY DEF HandledOnce
  <2>1. CASE i \in DOMAIN log /\ j \in DOMAIN log
    BY <1>3, <2>1 DEF ProbeInv, HandledOnce
  <2>2. CASE i = Len(log) + 1 \/ j = Len(log) + 1
    BY <1>3, <1>4, <1>5, <2>2
  <2> QED
    BY <1>5, <2>1, <2>2
<1>11. HandledInOrder'
  <2> SUFFICES ASSUME NEW i \in DOMAIN log', NEW j \in DOMAIN log', i < j,
                      log'[i][1] = log'[j][1], log'[i][2] > log'[j][2]
               PROVE  log'[j] \in gaveUp
    BY <1>1 DEF HandledInOrder
  <2>1. CASE i \in DOMAIN log /\ j \in DOMAIN log
    BY <1>3, <2>1 DEF ProbeInv, HandledInOrder
  <2>2. CASE j = Len(log) + 1
    <3>1. i \in DOMAIN log /\ log'[i] = log[i] /\ log'[j] = a
      BY <1>2, <1>3, <1>5, <2>2
    <3>2. log[i] \in Packets /\ a \in Packets /\ log[i][2] <= current[log[i][1]]
      BY <1>2, <1>4, <3>1 DEF ProbeInv, PostedShape
    <3>3. log[i][2] \in Nat /\ a[2] \in Nat /\ current[a[1]] \in Nat
      BY <3>2, PacketShape DEF ProbeInv, TypeOK
    <3>4. a[2] # current[a[1]]
      BY <3>1, <3>2, <3>3
    <3> QED
      BY <1>1, <3>1, <3>4 DEF ProbeInv, FlyingShape
  <2>3. CASE i = Len(log) + 1
    BY <1>2, <1>3, <2>3
  <2> QED
    BY <1>5, <2>1, <2>2, <2>3
<1> QED
  BY <1>6, <1>7, <1>8, <1>9, <1>10, <1>11 DEF ProbeInv

LEMMA LoseKeeps == ASSUME ProbeInv, NEW a \in Packets, Lose(a) PROVE ProbeInv'
<1>1. /\ flying' = flying \ {a} /\ posted' = posted /\ gaveUp' = gaveUp /\ log' = log
      /\ reader' = reader /\ current' = current
  BY DEF Lose
<1>2. TypeOK'
  BY <1>1 DEF ProbeInv, TypeOK, Lose, wireVars, asmVars
<1>3. GivenShape' /\ EndShape'
  BY <1>1, CaptureSideKept DEF Lose
<1>4. PostedShape' /\ WaitShape' /\ FlyingShape' /\ LogShape' /\ HandledOnce' /\ HandledInOrder'
  BY <1>1 DEF ProbeInv, PostedShape, WaitShape, FlyingShape, LogShape, HandledOnce, HandledInOrder
<1> QED
  BY <1>2, <1>3, <1>4 DEF ProbeInv

\* A goroutine that stops waiting leaves no POST of its own behind, but one it
\* gave up on.
LEMMA StopsWaitingKeeps ==
  ASSUME ProbeInv, NEW s \in Streams, reader[s] = "posting",
         reader' = [reader EXCEPT ![s] = "reading"],
         UNCHANGED <<wireVars, ring, asmVars, given, current, flying, posted, log>>,
         gaveUp \subseteq gaveUp', gaveUp' \subseteq Packets,
         <<s, current[s]>> \in flying => <<s, current[s]>> \in gaveUp'
  PROVE  ProbeInv'
<1>1. /\ flying' = flying /\ posted' = posted /\ log' = log /\ current' = current
      /\ given' = given /\ feeding' = feeding /\ reader \in [Streams -> ReaderStates]
      /\ flying \subseteq Packets
  BY DEF ProbeInv, TypeOK, asmVars
<1>2. TypeOK'
  BY <1>1 DEF ProbeInv, TypeOK, ReaderStates, wireVars, asmVars
<1>3. GivenShape' /\ EndShape'
  BY <1>1, CaptureSideKept
<1>4. PostedShape' /\ WaitShape' /\ LogShape' /\ HandledOnce' /\ HandledInOrder'
  BY <1>1 DEF ProbeInv, PostedShape, WaitShape, LogShape, HandledOnce, HandledInOrder
<1>5. FlyingShape'
  <2> SUFFICES ASSUME NEW a \in flying, a \notin gaveUp'
               PROVE  reader'[a[1]] = "posting" /\ a[2] = current[a[1]]
    BY <1>1 DEF FlyingShape
  <2>1. reader[a[1]] = "posting" /\ a[2] = current[a[1]]
    BY DEF ProbeInv, FlyingShape
  <2>2. a[1] \in Streams /\ a = <<a[1], a[2]>>
    BY <1>1, PacketShape
  <2>3. a[1] # s
    BY <2>1, <2>2
  <2> QED
    BY <1>1, <2>1, <2>2, <2>3
<1> QED
  BY <1>2, <1>3, <1>4, <1>5 DEF ProbeInv

LEMMA AnswerKeeps == ASSUME ProbeInv, NEW s \in Streams, Answer(s) PROVE ProbeInv'
<1>1. /\ reader[s] = "posting" /\ reader' = [reader EXCEPT ![s] = "reading"]
      /\ <<s, current[s]>> \notin flying /\ gaveUp' = gaveUp /\ gaveUp \subseteq Packets
      /\ UNCHANGED <<wireVars, ring, asmVars, given, current, flying, posted, log>>
  BY DEF Answer, postVars, ProbeInv, TypeOK
<1> QED
  BY <1>1, StopsWaitingKeeps

LEMMA TimeOutKeeps == ASSUME ProbeInv, NEW s \in Streams, TimeOut(s) PROVE ProbeInv'
<1>1. /\ reader[s] = "posting" /\ reader' = [reader EXCEPT ![s] = "reading"]
      /\ gaveUp' = gaveUp \union {<<s, current[s]>>} /\ gaveUp \subseteq Packets
      /\ UNCHANGED <<wireVars, ring, asmVars, given, current, flying, posted, log>>
  BY DEF TimeOut, ProbeInv, TypeOK
<1>2. gaveUp' \subseteq Packets
  BY <1>1 DEF ProbeInv, TypeOK, WaitShape
<1> QED
  BY <1>1, <1>2, StopsWaitingKeeps

LEMMA ProbeStep == ProbeInv /\ [Next]_vars => ProbeInv'
<1> SUFFICES ASSUME ProbeInv, [Next]_vars PROVE ProbeInv'
  OBVIOUS
<1>1. CASE UNCHANGED vars
  BY <1>1 DEF ProbeInv, vars, TypeOK, GivenShape, EndShape, PostedShape, WaitShape,
              FlyingShape, LogShape, HandledOnce, HandledInOrder
<1>2. ASSUME NEW s \in Streams, NEW n \in Numbers(s), Arrive(s, n) PROVE ProbeInv'
  BY <1>2, ArriveKeeps
<1>3. CASE Assemble
  BY <1>3, AssembleKeeps
<1>4. ASSUME NEW s \in Streams, ReaderStep(s) PROVE ProbeInv'
  BY <1>4, PassKeeps, ReportKeeps, UnsentKeeps, BreakKeeps, DrainKeeps, EndKeeps DEF ReaderStep
<1>5. ASSUME NEW s \in Streams, Fed(s) \/ DispatchStep(s) PROVE ProbeInv'
  BY <1>5, FedKeeps, AnswerKeeps, TimeOutKeeps DEF DispatchStep
<1>6. ASSUME NEW a \in Packets, Handle(a) \/ Lose(a) PROVE ProbeInv'
  BY <1>6, HandleKeeps, LoseKeeps
<1> QED
  BY <1>1, <1>2, <1>3, <1>4, <1>5, <1>6 DEF Next

THEOREM ProbeInvariant == Spec => []ProbeInv
BY ProbeInit, ProbeStep, PTL DEF Spec

-----------------------------------------------------------------------------
(* Theorems *)

\* The goroutines and the assembler are always in step: bytes wait only for the
\* stream that is being handed bytes, and no goroutine ends before it has read all
\* it was handed (the deferred io.Copy of sniffer.go:219), for any wire.
THEOREM ProbeTypeOK == Spec => []TypeOK
<1>1. ProbeInv => TypeOK
  BY DEF ProbeInv
<1> QED
  BY <1>1, ProbeInvariant, PTL

\* The control plane handles the alerts of a stream in the order of their frames,
\* but for the late ones whose POST Dispatch gave up on, for any reordering.
THEOREM AlertsInOrder == Spec => []HandledInOrder
<1>1. ProbeInv => HandledInOrder
  BY DEF ProbeInv
<1> QED
  BY <1>1, ProbeInvariant, PTL

\* No frame is handled twice, whatever POST times out, is lost or comes late.
THEOREM AlertsOnce == Spec => []HandledOnce
<1>1. ProbeInv => HandledOnce
  BY DEF ProbeInv
<1> QED
  BY <1>1, ProbeInvariant, PTL
=============================================================================
