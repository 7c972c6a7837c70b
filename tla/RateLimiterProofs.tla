------------------------- MODULE RateLimiterProofs -------------------------
(***************************************************************************)
(* Proofs about RateLimiter, for every set of keys, every limit and every  *)
(* length of the window.                                                   *)
(***************************************************************************)
EXTENDS RateLimiter, FiniteSetTheorems, SequenceTheorems, TLAPS

-----------------------------------------------------------------------------
(* The sequences of times *)

\* The end of a sequence has its elements in the same set.
LEMMA SuffixStays ==
  ASSUME NEW S, NEW w \in Seq(S), NEW n \in 0 .. Len(w)
  PROVE  SubSeq(w, n + 1, Len(w)) \in Seq(S)
<1> DEFINE e == Len(w)
<1>1. e \in Nat /\ \A i \in 1 .. e : w[i] \in S
  OBVIOUS
<1>2. n \in 0 .. e
  OBVIOUS
<1> HIDE DEF e
<1>3. e \in Int /\ n + 1 \in Int /\ \A i \in n + 1 .. e : i \in 1 .. e
  BY <1>1, <1>2
<1>4. \A i \in n + 1 .. e : w[i] \in S
  BY <1>1, <1>3
<1>5. SubSeq(w, n + 1, e) \in Seq(S)
  BY <1>3, <1>4, SubSeqProperties
<1> QED
  BY <1>5 DEF e

\* Dropping old times from the front of a window leaves the end of the history,
\* and all that is missing from it is old.
LEMMA CutKeepsRecent ==
  ASSUME NEW w \in Seq(Nat), NEW g \in Seq(Nat), NEW r, NEW cutoff \in Int,
         IsRecentPart(w, g, cutoff), Kept(w, r, cutoff)
  PROVE  /\ r \in Seq(Nat) /\ Len(r) <= Len(w)
         /\ IsRecentPart(r, g, cutoff)
         /\ \A i \in 1 .. Len(r) : r[i] > cutoff
<1>1. PICK n \in 0 .. Len(w) : /\ \A i \in 1 .. n : w[i] <= cutoff
                               /\ \A i \in n + 1 .. Len(w) : w[i] > cutoff
                               /\ r = SubSeq(w, n + 1, Len(w))
  BY DEF Kept
<1> DEFINE f == Len(g) - Len(w)
<1>2. Len(w) \in Nat /\ Len(g) \in Nat /\ f \in Nat /\ n \in Nat
  BY DEF IsRecentPart
<1>3. r \in Seq(Nat) /\ Len(r) = Len(w) - n /\ Len(r) \in Nat /\ Len(g) - Len(r) = f + n
  <2>1. r \in Seq(Nat)
    BY <1>1, SuffixStays
  <2>2. Len(r) = Len(w) - n
    BY <1>1, <1>2
  <2> QED
    BY <1>2, <2>1, <2>2
<1>4. \A i \in 1 .. Len(r) : n + i \in 1 .. Len(w) /\ r[i] = w[n + i]
  BY <1>1, <1>2, <1>3
<1>5. ASSUME NEW i \in 1 .. Len(r) PROVE r[i] = g[f + n + i] /\ r[i] > cutoff
  <2>1. w[n + i] = g[f + (n + i)] /\ f + (n + i) = f + n + i
    BY <1>2, <1>4 DEF IsRecentPart
  <2>2. n + i \in n + 1 .. Len(w)
    BY <1>2, <1>3
  <2> QED
    BY <1>1, <1>4, <2>1, <2>2
<1>6. ASSUME NEW i \in 1 .. f + n PROVE g[i] <= cutoff
  <2>1. CASE i <= f
    BY <1>2, <2>1 DEF IsRecentPart
  <2>2. CASE i > f
    <3>1. PICK j \in 1 .. n : i = f + j
      <4>1. i - f \in 1 .. n /\ i = f + (i - f)
        BY <1>2, <2>2
      <4> QED
        BY <4>1
    <3>2. j \in 1 .. Len(w)
      BY <1>2, <3>1
    <3>3. w[j] = g[f + j] /\ w[j] <= cutoff
      BY <1>1, <3>1, <3>2 DEF IsRecentPart
    <3> QED
      BY <3>1, <3>3
  <2> QED
    BY <1>2, <2>1, <2>2
<1> HIDE DEF f
<1>7. \A i \in 1 .. Len(r) : r[i] = g[Len(g) - Len(r) + i]
  BY <1>3, <1>5
<1>8. \A i \in 1 .. Len(g) - Len(r) : g[i] <= cutoff
  BY <1>3, <1>6
<1>9. Len(r) <= Len(w) /\ Len(r) <= Len(g)
  BY <1>2, <1>3
<1> QED
  BY <1>3, <1>5, <1>7, <1>8, <1>9 DEF IsRecentPart

\* A grant is recorded in the window and in the history alike.
LEMMA AppendKeepsRecent ==
  ASSUME NEW r \in Seq(Nat), NEW g \in Seq(Nat), NEW t \in Nat, NEW cutoff \in Int,
         IsRecentPart(r, g, cutoff)
  PROVE  IsRecentPart(Append(r, t), Append(g, t), cutoff)
<1> DEFINE f == Len(g) - Len(r)
<1>1. Len(r) \in Nat /\ Len(g) \in Nat /\ f \in Nat
  BY DEF IsRecentPart
<1>2. /\ Len(Append(r, t)) = Len(r) + 1 /\ Append(r, t)[Len(r) + 1] = t
      /\ \A i \in 1 .. Len(r) : Append(r, t)[i] = r[i]
  OBVIOUS
<1>3. /\ Len(Append(g, t)) = Len(g) + 1 /\ Append(g, t)[Len(g) + 1] = t
      /\ \A i \in 1 .. Len(g) : Append(g, t)[i] = g[i]
  OBVIOUS
<1>4. ASSUME NEW i \in 1 .. Len(r) + 1 PROVE Append(r, t)[i] = Append(g, t)[f + i]
  <2>1. CASE i = Len(r) + 1
    BY <1>1, <1>2, <1>3, <2>1
  <2>2. CASE i \in 1 .. Len(r)
    <3>1. r[i] = g[f + i] /\ f + i \in 1 .. Len(g)
      BY <1>1, <2>2 DEF IsRecentPart
    <3> QED
      BY <1>2, <1>3, <2>2, <3>1
  <2>3. i = Len(r) + 1 \/ i \in 1 .. Len(r)
    <3> DEFINE n == Len(r)
    <3>1. n \in Nat /\ i \in 1 .. n + 1
      BY <1>1
    <3> HIDE DEF n
    <3>2. i = n + 1 \/ i \in 1 .. n
      BY <3>1
    <3> QED
      BY <3>2 DEF n
  <2> QED
    BY <2>1, <2>2, <2>3, Zenon
<1>5. ASSUME NEW i \in 1 .. f PROVE Append(g, t)[i] <= cutoff
  <2>1. g[i] <= cutoff /\ i \in 1 .. Len(g)
    BY <1>1 DEF IsRecentPart
  <2> QED
    BY <1>3, <2>1
<1> HIDE DEF f
<1>6. Len(Append(g, t)) - Len(Append(r, t)) = f /\ Len(Append(r, t)) <= Len(Append(g, t))
  BY <1>1, <1>2, <1>3 DEF f
<1>7. \A i \in 1 .. Len(Append(r, t)) :
         Append(r, t)[i] = Append(g, t)[Len(Append(g, t)) - Len(Append(r, t)) + i]
  BY <1>2, <1>4, <1>6
<1>8. \A i \in 1 .. Len(Append(g, t)) - Len(Append(r, t)) : Append(g, t)[i] <= cutoff
  BY <1>5, <1>6
<1> QED
  BY <1>6, <1>7, <1>8 DEF IsRecentPart

\* A grant made with fewer than limit recent ones is at least a window later than
\* the grant limit places before it, because that one is not recent any more.
LEMMA GrantSpaced ==
  ASSUME NEW r \in Seq(Nat), NEW g \in Seq(Nat), NEW t \in Nat,
         NEW limit \in Nat \ {0}, Window \in Nat,
         IsRecentPart(r, g, t - Window), Len(r) < limit, Spaced(g, limit)
  PROVE  Spaced(Append(g, t), limit)
<1>1. /\ Len(Append(g, t)) = Len(g) + 1 /\ Append(g, t)[Len(g) + 1] = t
      /\ \A i \in 1 .. Len(g) : Append(g, t)[i] = g[i] /\ g[i] \in Nat
      /\ Len(g) \in Nat /\ Len(r) \in Nat
  OBVIOUS
<1>2. ASSUME NEW i \in 1 .. Len(g) + 1 - limit
      PROVE  Append(g, t)[i + limit] - Append(g, t)[i] >= Window
  <2>1. CASE i + limit <= Len(g)
    <3>1. i \in 1 .. Len(g) - limit /\ i \in 1 .. Len(g) /\ i + limit \in 1 .. Len(g)
      BY <1>1, <2>1
    <3>2. g[i + limit] - g[i] >= Window
      BY <3>1 DEF Spaced
    <3> QED
      BY <1>1, <3>1, <3>2
  <2>2. CASE i + limit = Len(g) + 1
    <3>1. i \in 1 .. Len(g) - Len(r) /\ i \in 1 .. Len(g)
      BY <1>1, <2>2
    <3>2. g[i] <= t - Window
      BY <3>1 DEF IsRecentPart
    <3>3. Append(g, t)[i + limit] = t /\ Append(g, t)[i] = g[i] /\ g[i] \in Nat
      BY <1>1, <2>2, <3>1
    <3> QED
      BY <3>2, <3>3
  <2>3. i + limit <= Len(g) \/ i + limit = Len(g) + 1
    <3>1. Len(g) \in Nat
      OBVIOUS
    <3> QED
      BY <3>1
  <2> QED
    BY <2>1, <2>2, <2>3
<1>3. \A i \in 1 .. Len(Append(g, t)) - limit :
         Append(g, t)[i + limit] - Append(g, t)[i] >= Window
  <2>1. Len(Append(g, t)) = Len(g) + 1
    BY <1>1
  <2> SUFFICES ASSUME NEW i \in 1 .. Len(Append(g, t)) - limit
               PROVE  Append(g, t)[i + limit] - Append(g, t)[i] >= Window
    OBVIOUS
  <2>2. i \in 1 .. Len(g) + 1 - limit
    BY <2>1
  <2> QED
    BY <1>2, <2>2
<1> QED
  BY <1>3 DEF Spaced
-----------------------------------------------------------------------------
(* The invariant *)

USE LimiterAssumption DEF LimiterAssumption

\* A key's limit is positive, its own or the default.
LEMMA LimitPositive == \A k \in Keys : Limit(k) \in Nat \ {0}
  BY DEF Limit

\* Counting from the end: the last m of n places.
LEMMA LastPlaces ==
  ASSUME NEW n \in Nat, NEW m \in Nat, m <= n, NEW i \in Int, n - m + 1 <= i, i <= n
  PROVE  /\ i - (n - m) \in 1 .. m
         /\ (n - m) + (i - (n - m)) = i
         /\ i \in 1 .. n
  OBVIOUS

\* What was granted to a key can be counted.
LEMMA GrantedCounts ==
  ASSUME NEW k \in Keys, granted[k] \in Seq(Nat), NEW t
  PROVE  IsFiniteSet(GrantedBy(k, t)) /\ Cardinality(GrantedBy(k, t)) \in Nat
<1>1. Len(granted[k]) \in Int /\ 1 \in Int
  OBVIOUS
<1>2. GrantedBy(k, t) \subseteq 1 .. Len(granted[k])
  BY DEF GrantedBy
<1>3. IsFiniteSet(1 .. Len(granted[k]))
  BY <1>1, FS_Interval
<1>4. IsFiniteSet(GrantedBy(k, t))
  BY <1>2, <1>3, FS_Subset
<1> QED
  BY <1>4, FS_CardinalityType

\* When the loop keeps as many times as the limit, that many requests were granted
\* within the last window.
LEMMA RefusalEarned ==
  ASSUME LimiterInv, NEW k \in Keys, NEW r, Kept(windows[k], r, now - Window),
         Len(r) >= Limit(k)
  PROVE  Cardinality(GrantedBy(k, now)) >= Limit(k)
<1>1. /\ windows[k] \in Seq(Nat) /\ granted[k] \in Seq(Nat) /\ now \in Nat
      /\ IsRecentPart(windows[k], granted[k], now - Window)
      /\ \A i \in 1 .. Len(granted[k]) : granted[k][i] <= now
  BY DEF LimiterInv, TypeOK, WindowIsHistory
<1>2. /\ r \in Seq(Nat) /\ IsRecentPart(r, granted[k], now - Window)
      /\ \A i \in 1 .. Len(r) : r[i] > now - Window
  <2>1. now - Window \in Int
    BY <1>1
  <2> QED
    BY <1>1, <2>1, CutKeepsRecent
<1> DEFINE f == Len(granted[k]) - Len(r)
           last == f + 1 .. Len(granted[k])
<1>3. /\ Len(r) \in Nat /\ Len(granted[k]) \in Nat /\ f \in Nat
      /\ \A j \in 1 .. Len(r) : r[j] = granted[k][f + j]
  BY <1>1, <1>2 DEF IsRecentPart
<1>4. Len(granted[k]) \in Int /\ 1 \in Int /\ f + 1 \in Int
  BY <1>3
<1>5. ASSUME NEW i \in last
      PROVE  /\ i - f \in 1 .. Len(r) /\ f + (i - f) = i
             /\ i \in 1 .. Len(granted[k])
  <2>1. Len(r) <= Len(granted[k])
    BY <1>2 DEF IsRecentPart
  <2>2. i \in Int /\ Len(granted[k]) - Len(r) + 1 <= i /\ i <= Len(granted[k])
    BY <1>3
  <2> QED
    BY <1>3, <2>1, <2>2, LastPlaces
<1>6. last \subseteq GrantedBy(k, now)
  <2> SUFFICES ASSUME NEW i \in last PROVE i \in GrantedBy(k, now)
    OBVIOUS
  <2>1. i - f \in 1 .. Len(r) /\ f + (i - f) = i /\ i \in 1 .. Len(granted[k])
    BY <1>5
  <2>2. granted[k][i] > now - Window /\ granted[k][i] <= now
    BY <1>1, <1>2, <1>3, <2>1
  <2> QED
    BY <1>1, <2>1, <2>2 DEF GrantedBy
<1>7. IsFiniteSet(GrantedBy(k, now)) /\ Cardinality(GrantedBy(k, now)) \in Nat
  BY <1>1, GrantedCounts
<1>8. Cardinality(last) = Len(r)
  <2>1. Cardinality(last) = IF f + 1 > Len(granted[k]) THEN 0
                            ELSE Len(granted[k]) - (f + 1) + 1
    BY <1>4, FS_Interval
  <2> QED
    BY <1>3, <2>1
<1>9. Cardinality(last) <= Cardinality(GrantedBy(k, now))
  BY <1>6, <1>7, FS_Subset
<1>10. Limit(k) \in Nat
  BY LimitPositive
<1> QED
  BY <1>3, <1>7, <1>8, <1>9, <1>10

LEMMA AppendKeeps ==
  ASSUME NEW g \in Seq(Nat), NEW u \in Nat, NEW h, h = g \/ h = Append(g, u)
  PROVE  h \in Seq(Nat) /\ \A i \in DOMAIN g : i \in DOMAIN h /\ h[i] = g[i]
<1>1. CASE h = g
  BY <1>1
<1>2. CASE h = Append(g, u)
  <2>1. h \in Seq(Nat) /\ DOMAIN h = 1 .. Len(g) + 1 /\ DOMAIN g = 1 .. Len(g)
    BY <1>2
  <2>2. Len(g) \in Nat /\ \A i \in 1 .. Len(g) : h[i] = g[i] /\ i \in 1 .. Len(g) + 1
    BY <1>2
  <2> QED
    BY <2>1, <2>2
<1> QED
  BY <1>1, <1>2

\* A grant takes nothing away from what was granted before.
LEMMA GrantAddsOnly ==
  ASSUME NEW k \in Keys, NEW t, granted[k] \in Seq(Nat), NEW u \in Nat,
         granted'[k] = granted[k] \/ granted'[k] = Append(granted[k], u)
  PROVE  /\ Cardinality(GrantedBy(k, t)) <= Cardinality(GrantedBy(k, t)')
         /\ Cardinality(GrantedBy(k, t)) \in Nat
         /\ Cardinality(GrantedBy(k, t)') \in Nat
<1> DEFINE g == granted[k]
           h == granted'[k]
<1>1. g \in Seq(Nat) /\ (h = g \/ h = Append(g, u))
  OBVIOUS
<1> HIDE DEF g, h
<1>2. h \in Seq(Nat) /\ \A i \in DOMAIN g : i \in DOMAIN h /\ h[i] = g[i]
  BY <1>1, AppendKeeps
<1> USE DEF g, h
<1>3. GrantedBy(k, t) \subseteq GrantedBy(k, t)'
  BY <1>2 DEF GrantedBy
<1>4. IsFiniteSet(GrantedBy(k, t)')
  <2>1. Len(h) \in Int /\ 1 \in Int /\ DOMAIN h = 1 .. Len(h)
    <3> HIDE DEF h
    <3> QED
      BY <1>2
  <2>2. GrantedBy(k, t)' \subseteq 1 .. Len(h)
    BY <2>1 DEF GrantedBy
  <2>3. IsFiniteSet(1 .. Len(h))
    BY <2>1, FS_Interval
  <2> QED
    BY <2>2, <2>3, FS_Subset
<1> QED
  BY <1>3, <1>4, GrantedCounts, FS_Subset, FS_CardinalityType

\* Nothing is granted and nothing forgotten initially.
LEMMA LimiterInit == Init => LimiterInv
<1> SUFFICES ASSUME Init PROVE LimiterInv
  OBVIOUS
<1>1. /\ <<>> \in Seq(0 .. MaxTime) /\ Len(<<>>) = 0
      /\ \A k \in Keys : windows[k] = <<>> /\ granted[k] = <<>>
  BY DEF Init
<1>2. TypeOK
  <2>1. \A k \in Keys : Len(windows[k]) <= Limit(k)
    BY <1>1, LimitPositive
  <2> QED
    BY <1>1, <2>1 DEF Init, TypeOK
<1>3. WindowIsHistory
  <2>1. IsRecentPart(<<>>, <<>>, now - Window)
    BY <1>1 DEF IsRecentPart
  <2>2. \A i \in 1 .. Len(<<>>) : <<>>[i] <= now
    BY <1>1
  <2> QED
    BY <1>1, <2>1, <2>2 DEF WindowIsHistory
<1>4. RateBound
  BY <1>1, LimitPositive DEF RateBound, Spaced
<1>5. NoFalseRefusal
  BY DEF Init, NoFalseRefusal
<1> QED
  BY <1>2, <1>3, <1>4, <1>5 DEF LimiterInv

\* The clock only makes old times older.
LEMMA TickInv == LimiterInv /\ Tick => LimiterInv'
<1> SUFFICES ASSUME LimiterInv, Tick PROVE LimiterInv'
  OBVIOUS
<1> USE DEF Tick, LimiterInv
<1>1. TypeOK'
  BY DEF TypeOK, Limit
<1>2. WindowIsHistory'
  BY SMTT(30) DEF WindowIsHistory, IsRecentPart, TypeOK
<1>3. RateBound'
  BY DEF RateBound, Spaced, Limit
<1>4. NoFalseRefusal'
  BY DEF NoFalseRefusal, GrantedBy, Limit
<1> QED
  BY <1>1, <1>2, <1>3, <1>4

\* One call of Allow, refused or granted.
LEMMA AllowInv == ASSUME LimiterInv, NEW k \in Keys, Allow(k) PROVE LimiterInv'
<1>1. PICK r : /\ Kept(windows[k], r, now - Window)
               /\ IF Len(r) >= Limit(k) THEN Refuse(k, r) ELSE Grant(k, r)
               /\ UNCHANGED now
  BY DEF Allow
<1> USE DEF Refuse, Grant
<1>2. /\ windows[k] \in Seq(0 .. MaxTime) /\ granted[k] \in Seq(0 .. MaxTime)
      /\ windows[k] \in Seq(Nat) /\ granted[k] \in Seq(Nat)
      /\ now \in 0 .. MaxTime /\ now \in Nat /\ now - Window \in Int
      /\ Len(windows[k]) <= Limit(k)
  BY DEF LimiterInv, TypeOK
<1>3. /\ IsRecentPart(windows[k], granted[k], now - Window)
      /\ \A i \in 1 .. Len(granted[k]) : granted[k][i] <= now
      /\ Spaced(granted[k], Limit(k))
  BY DEF LimiterInv, WindowIsHistory, RateBound
<1>4. /\ r \in Seq(Nat) /\ Len(r) <= Len(windows[k])
      /\ IsRecentPart(r, granted[k], now - Window)
  BY <1>1, <1>2, <1>3, CutKeepsRecent
<1>5. r \in Seq(0 .. MaxTime)
  <2>1. PICK n \in 0 .. Len(windows[k]) : r = SubSeq(windows[k], n + 1, Len(windows[k]))
    BY <1>1 DEF Kept
  <2> DEFINE w == windows[k]
  <2>2. w \in Seq(0 .. MaxTime)
    BY <1>2
  <2>3. n \in 0 .. Len(w) /\ r = SubSeq(w, n + 1, Len(w))
    BY <2>1
  <2> HIDE DEF w
  <2>4. SubSeq(w, n + 1, Len(w)) \in Seq(0 .. MaxTime)
    BY <2>2, <2>3, SuffixStays
  <2> QED
    BY <2>3, <2>4, Zenon
<1>6. Limit(k) \in Nat \ {0} /\ \A x \in Keys : Limit(x)' = Limit(x)
  BY LimitPositive DEF Limit
<1>7. \A x \in Keys : x # k => windows'[x] = windows[x] /\ granted'[x] = granted[x]
  BY <1>1 DEF LimiterInv, TypeOK
<1>8. /\ windows' \in [Keys -> Seq(0 .. MaxTime)]
      /\ granted' \in [Keys -> Seq(0 .. MaxTime)]
  <2>1. Append(r, now) \in Seq(0 .. MaxTime) /\ Append(granted[k], now) \in Seq(0 .. MaxTime)
    BY <1>2, <1>5
  <2> QED
    BY <1>1, <1>5, <2>1 DEF LimiterInv, TypeOK
<1>9. /\ Len(windows'[k]) <= Limit(k)
      /\ IsRecentPart(windows'[k], granted'[k], now - Window)
      /\ \A i \in 1 .. Len(granted'[k]) : granted'[k][i] <= now
      /\ Spaced(granted'[k], Limit(k))
  <2>1. CASE Len(r) >= Limit(k)
    <3>1. windows'[k] = r /\ granted'[k] = granted[k]
      BY <1>1, <2>1 DEF LimiterInv, TypeOK
    <3>2. Len(r) <= Limit(k)
      BY <1>2, <1>4, <1>6
    <3> QED
      BY <1>3, <1>4, <3>1, <3>2
  <2>2. CASE ~(Len(r) >= Limit(k))
    <3>1. windows'[k] = Append(r, now) /\ granted'[k] = Append(granted[k], now)
      BY <1>1, <2>2 DEF LimiterInv, TypeOK
    <3>2. Len(r) < Limit(k) /\ Len(Append(r, now)) <= Limit(k)
      BY <1>4, <1>6, <2>2
    <3>3. IsRecentPart(Append(r, now), Append(granted[k], now), now - Window)
      BY <1>2, <1>4, AppendKeepsRecent
    <3>4. Spaced(Append(granted[k], now), Limit(k))
      BY <1>2, <1>3, <1>4, <1>6, <3>2, GrantSpaced
    <3>5. \A i \in 1 .. Len(Append(granted[k], now)) : Append(granted[k], now)[i] <= now
      <4>1. /\ Len(Append(granted[k], now)) = Len(granted[k]) + 1
            /\ Append(granted[k], now)[Len(granted[k]) + 1] = now
            /\ \A i \in 1 .. Len(granted[k]) : Append(granted[k], now)[i] = granted[k][i]
            /\ Len(granted[k]) \in Nat
        BY <1>2
      <4>2. \A i \in 1 .. Len(granted[k]) + 1 : i = Len(granted[k]) + 1 \/ i \in 1 .. Len(granted[k])
        BY <4>1
      <4>3. now <= now
        BY <1>2
      <4> QED
        BY <1>3, <4>1, <4>2, <4>3
    <3> QED
      BY <3>1, <3>2, <3>3, <3>4, <3>5
  <2> QED
    BY <2>1, <2>2
<1>10. TypeOK'
  <2>1. refused' \in [Keys -> SUBSET (0 .. MaxTime)]
    <3>1. refused \in [Keys -> SUBSET (0 .. MaxTime)]
      BY DEF LimiterInv, TypeOK
    <3>2. refused' = refused \/ refused' = [refused EXCEPT ![k] = @ \union {now}]
      BY <1>1
    <3>3. refused[k] \union {now} \in SUBSET (0 .. MaxTime)
      BY <1>2, <3>1
    <3> QED
      BY <3>1, <3>2, <3>3
  <2> QED
    BY <1>1, <1>2, <1>6, <1>7, <1>8, <1>9, <2>1 DEF LimiterInv, TypeOK
<1>11. WindowIsHistory'
  BY <1>1, <1>7, <1>9 DEF LimiterInv, WindowIsHistory
<1>12. RateBound'
  BY <1>6, <1>7, <1>9 DEF LimiterInv, RateBound
<1>13. NoFalseRefusal'
  <2>1. ASSUME NEW x \in Keys, NEW t \in refused'[x]
        PROVE  Cardinality(GrantedBy(x, t)') >= Limit(x)
    <3>1. granted[x] \in Seq(Nat) /\ (granted'[x] = granted[x] \/ granted'[x] = Append(granted[x], now))
      BY <1>1, <1>2, <1>7 DEF LimiterInv, TypeOK
    <3>2. /\ Cardinality(GrantedBy(x, t)) <= Cardinality(GrantedBy(x, t)')
          /\ Cardinality(GrantedBy(x, t)) \in Nat /\ Cardinality(GrantedBy(x, t)') \in Nat
      BY <1>2, <3>1, GrantAddsOnly
    <3>3. CASE t \in refused[x]
      <4>1. Cardinality(GrantedBy(x, t)) >= Limit(x)
        BY <3>3 DEF LimiterInv, NoFalseRefusal
      <4> QED
        BY <1>6, <3>2, <4>1, LimitPositive
    <3>4. CASE t \notin refused[x]
      <4>1. x = k /\ t = now /\ Len(r) >= Limit(k)
        BY <1>1, <3>4 DEF LimiterInv, TypeOK
      <4>2. Cardinality(GrantedBy(x, t)) >= Limit(x)
        BY <1>1, <4>1, RefusalEarned
      <4> QED
        BY <1>6, <3>2, <4>2, LimitPositive
    <3> QED
      BY <3>3, <3>4
  <2> QED
    BY <1>6, <2>1 DEF NoFalseRefusal
<1> QED
  BY <1>10, <1>11, <1>12, <1>13 DEF LimiterInv

\* Every step keeps the invariant.
LEMMA LimiterStep == LimiterInv /\ [Next]_vars => LimiterInv'
<1>1. ASSUME LimiterInv, UNCHANGED vars PROVE LimiterInv'
  BY <1>1 DEF vars, LimiterInv, TypeOK, WindowIsHistory, RateBound, NoFalseRefusal, GrantedBy, Limit
<1> QED
  BY <1>1, TickInv, AllowInv DEF Next

\* The limiter's memory is, at all times, the end of the history of grants, and
\* everything before it is older than a window.
THEOREM LimiterCorrect == Spec => []LimiterInv
  BY LimiterInit, LimiterStep, PTL DEF Spec

\* Counting a key's window is counting the requests granted to it in the last
\* minute, however often the window was filtered before (ratelimit.go:30-43).
THEOREM WindowKept == Spec => []WindowIsHistory
  BY LimiterCorrect, PTL DEF LimiterInv

\* A key never gets more than its limit of requests in less than a window,
\* wherever the window starts (a fixed window per minute would not give this).
THEOREM RateBounded == Spec => []RateBound
  BY LimiterCorrect, PTL DEF LimiterInv

\* Whenever a request was refused, as many as the limit allows had been granted to its
\* key within the window before, whatever was refused in between.
THEOREM RefusalsJustified == Spec => []NoFalseRefusal
  BY LimiterCorrect, PTL DEF LimiterInv
=============================================================================
