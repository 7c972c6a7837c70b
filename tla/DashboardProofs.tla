-------------------------- MODULE DashboardProofs --------------------------
(***************************************************************************)
(* Proofs about Dashboard, for any alerts, any seconds they were seen in   *)
(* and any sizes of the list and of the channel: the invariant             *)
(* DashboardInv is inductive.  With it the page shows an alert once for    *)
(* its events, loses none to an event of another alert, and leaves none of *)
(* these entries without a diagnosis when one came.                        *)
(***************************************************************************)
EXTENDS Dashboard, FiniteSetTheorems, TLAPS

-----------------------------------------------------------------------------
(* Facts about the operators *)

LEMMA PhaseNames ==
  Entries(Phases) = {"new", "stored", "told", "diagnosed", "retold"}
<1>1. DOMAIN Phases = 1 .. 5
  BY DEF Phases
<1>2. \A i \in 1 .. 5 : i = 1 \/ i = 2 \/ i = 3 \/ i = 4 \/ i = 5
  OBVIOUS
<1>3. /\ Phases[1] = "new" /\ Phases[2] = "stored" /\ Phases[3] = "told"
      /\ Phases[4] = "diagnosed" /\ Phases[5] = "retold"
  BY DEF Phases
<1>4. Entries(Phases) = {Phases[1], Phases[2], Phases[3], Phases[4], Phases[5]}
  BY <1>1, <1>2 DEF Entries
<1> QED
  BY <1>3, <1>4

LEMMA EntryFields ==
  ASSUME NEW a \in Alerts, NEW live \in BOOLEAN, NEW ai \in {"none", "auto", "asked"}
  PROVE  /\ Entry(a, live, ai) \in EntryType
         /\ Entry(a, live, ai).alert = a
         /\ Entry(a, live, ai).live = live
         /\ Entry(a, live, ai).ai = ai
BY DEF Entry, EntryType

LEMMA DiagnosedType == \A a : Diagnosed(a) \in {"none", "auto"}
BY DEF Diagnosed

\* A new entry goes in front; what does not fit any more goes off the end.
LEMMA CutFront ==
  ASSUME NEW T, NEW s \in Seq(T), NEW e \in T
  PROVE  /\ Cut(<<e>> \o s) \in Seq(T) /\ Len(Cut(<<e>> \o s)) <= Cap
         /\ 1 \in DOMAIN Cut(<<e>> \o s) /\ Cut(<<e>> \o s)[1] = e
         /\ \A i \in DOMAIN Cut(<<e>> \o s) :
              i # 1 => i - 1 \in DOMAIN s /\ Cut(<<e>> \o s)[i] = s[i - 1]
<1> DEFINE c == <<e>> \o s
           n == IF Len(c) < Cap THEN Len(c) ELSE Cap
           t == SubSeq(c, 1, n)
<1>1. /\ c \in Seq(T) /\ Len(c) = Len(s) + 1 /\ c[1] = e /\ Len(s) \in Nat
      /\ \A i \in 1 .. Len(c) : i # 1 => i - 1 \in DOMAIN s /\ c[i] = s[i - 1]
  OBVIOUS
<1>2. Cap \in Nat \ {0}
  BY DashboardAssumption
<1> HIDE DEF c
<1>3. n \in 1 .. Len(c) /\ n <= Cap
  BY <1>1, <1>2
<1>4. Cut(c) = t
  BY DEF Cut
<1> HIDE DEF n
<1>5. t \in Seq(T) /\ Len(t) = n /\ DOMAIN t = 1 .. n /\ \A i \in 1 .. n : t[i] = c[i]
  BY <1>1, <1>3
<1> HIDE DEF t
<1>6. /\ 1 \in DOMAIN t /\ t[1] = e
      /\ \A i \in DOMAIN t : i # 1 => i - 1 \in DOMAIN s /\ t[i] = s[i - 1]
  BY <1>1, <1>3, <1>5
<1> QED
  BY <1>3, <1>4, <1>5, <1>6 DEF c

\* The page takes the last Cap rows of the history.
LEMMA NewestType ==
  ASSUME NEW T, NEW n \in Nat, NEW s \in [1 .. n -> T]
  PROVE  Newest(s) \in Seq(T) /\ Len(Newest(s)) <= Cap
<1>1. s \in Seq(T) /\ Len(s) = n
  OBVIOUS
<1>2. Cap \in Nat \ {0}
  BY DashboardAssumption
<1> DEFINE m == IF n > Cap THEN n - Cap + 1 ELSE 1
<1>3. m \in 1 .. n + 1 /\ n - m + 1 <= Cap
  BY <1>2
<1> HIDE DEF m
<1>4. SubSeq(s, m, n) \in Seq(T) /\ Len(SubSeq(s, m, n)) <= Cap
  BY <1>1, <1>2, <1>3
<1>5. Newest(s) = SubSeq(s, m, n)
  BY <1>1 DEF Newest, m
<1> QED
  BY <1>4, <1>5

LEMMA EntriesAppend ==
  ASSUME NEW T, NEW s \in Seq(T), NEW e \in T
  PROVE  Append(s, e) \in Seq(T) /\ Entries(Append(s, e)) = Entries(s) \union {e}
<1>1. /\ Append(s, e) \in Seq(T) /\ DOMAIN Append(s, e) = 1 .. Len(s) + 1
      /\ DOMAIN s = 1 .. Len(s) /\ Len(s) \in Nat
      /\ \A i \in 1 .. Len(s) : Append(s, e)[i] = s[i]
      /\ Append(s, e)[Len(s) + 1] = e
  OBVIOUS
<1>2. Entries(Append(s, e)) \subseteq Entries(s) \union {e}
  BY <1>1 DEF Entries
<1>3. Entries(s) \subseteq Entries(Append(s, e)) /\ e \in Entries(Append(s, e))
  BY <1>1 DEF Entries
<1> QED
  BY <1>1, <1>2, <1>3

LEMMA EntriesTail ==
  ASSUME NEW T, NEW s \in Seq(T), s # <<>>
  PROVE  /\ Head(s) \in T /\ Tail(s) \in Seq(T) /\ Len(Tail(s)) <= Len(s)
         /\ Entries(s) = {Head(s)} \union Entries(Tail(s))
<1>1. /\ Head(s) \in T /\ Tail(s) \in Seq(T) /\ DOMAIN Tail(s) = 1 .. Len(s) - 1
      /\ DOMAIN s = 1 .. Len(s) /\ Len(s) \in Nat \ {0} /\ Head(s) = s[1]
      /\ \A i \in 1 .. Len(s) - 1 : Tail(s)[i] = s[i + 1]
      /\ Len(Tail(s)) = Len(s) - 1
  OBVIOUS
<1>2. Entries(s) \subseteq {Head(s)} \union Entries(Tail(s))
  <2> SUFFICES ASSUME NEW i \in 1 .. Len(s)
               PROVE  s[i] = Head(s) \/ s[i] \in Entries(Tail(s))
    BY <1>1 DEF Entries
  <2>1. CASE i = 1
    BY <1>1, <2>1
  <2>2. CASE i # 1
    <3>1. i - 1 \in DOMAIN Tail(s) /\ Tail(s)[i - 1] = s[i]
      BY <1>1, <2>2
    <3> QED
      BY <3>1 DEF Entries
  <2> QED
    BY <2>1, <2>2
<1>3. {Head(s)} \union Entries(Tail(s)) \subseteq Entries(s)
  BY <1>1 DEF Entries
<1> QED
  BY <1>1, <1>2, <1>3

LEMMA EntriesEmpty == Entries(<<>>) = {} /\ Shown(<<>>) = {}
BY DEF Entries, Shown

-----------------------------------------------------------------------------
(* The update of onmessage *)

\* Entries of events are the same exactly when they are of the same alert.
LEMMA SameLive ==
  ASSUME NEW e \in EntryType, NEW f \in EntryType, f.live
  PROVE  Same(e, f) <=> e.live /\ e.alert = f.alert
<1>1. e.live \in BOOLEAN /\ f.live \in BOOLEAN
  BY DEF EntryType
<1>2. (e.live = f.live) <=> e.live
  BY <1>1
<1> QED
  BY <1>1, <1>2 DEF Same

\* With one entry of an alert from the events, First finds that one.
LEMMA FirstFound ==
  ASSUME TypeOK, LiveOnce, NEW e \in EntryType, e.live,
         NEW i \in DOMAIN list, Same(list[i], e)
  PROVE  First(list, e) = i
<1>1. list \in Seq(EntryType) /\ \A j \in DOMAIN list : list[j] \in EntryType
  BY DEF TypeOK
<1>2. \A j \in DOMAIN list : Same(list[j], e) => j = i
  BY <1>1, SameLive DEF LiveOnce
<1>3. \A j \in 1 .. i - 1 : j \in DOMAIN list /\ j # i
  BY <1>1
<1>4. \E k \in DOMAIN list : Same(list[k], e) /\ \A j \in 1 .. k - 1 : ~Same(list[j], e)
  BY <1>2, <1>3
<1> QED
  BY <1>2, <1>4 DEF First

\* An event puts its entry on the page and takes its alert's other entry away; the
\* other entries stay, or go off the end.
LEMMA PutPuts ==
  ASSUME TypeOK, Len(list) <= Cap, LiveOnce, NEW e \in EntryType, e.live, Put(e)
  PROVE  /\ list' \in Seq(EntryType) /\ Len(list') <= Cap
         /\ selected' \in {selected, e}
         /\ gone \subseteq gone' /\ gone' \subseteq Alerts
         /\ Shown(list) \subseteq Shown(list') \union gone'
         /\ e.alert \in Shown(list')
         /\ \A i \in DOMAIN list' :
              \/ list'[i] = e
              \/ \E j \in DOMAIN list : list'[i] = list[j] /\ ~Same(list[j], e)
         /\ LiveOnce'
<1>1. /\ list \in Seq(EntryType) /\ \A j \in DOMAIN list : list[j] \in EntryType
      /\ gone \subseteq Alerts /\ DOMAIN list = 1 .. Len(list) /\ Len(list) \in Nat
  BY DEF TypeOK
<1>2. Shown(list) \subseteq Alerts
  BY <1>1 DEF Shown, EntryType
<1>3. \A j \in DOMAIN list : Same(list[j], e) <=> list[j].live /\ list[j].alert = e.alert
  BY <1>1, SameLive
<1>4. CASE /\ \E i \in DOMAIN list : Same(list[i], e)
           /\ list' = [list EXCEPT ![First(list, e)] = e]
           /\ selected' = IF selected # None /\ Same(selected, e) THEN e ELSE selected
           /\ UNCHANGED gone
  <2>1. PICK k \in DOMAIN list : Same(list[k], e)
    BY <1>4
  <2>2. list' = [list EXCEPT ![k] = e]
    BY <1>4, <2>1, FirstFound
  <2>3. /\ list' \in Seq(EntryType) /\ Len(list') = Len(list) /\ DOMAIN list' = DOMAIN list
        /\ list'[k] = e /\ \A j \in DOMAIN list : j # k => list'[j] = list[j]
    BY <1>1, <2>2
  <2>4. \A j \in DOMAIN list : j # k => ~Same(list[j], e)
    BY <1>3, <2>1 DEF LiveOnce
  <2>5. list[k].alert = e.alert
    BY <1>3, <2>1
  <2>6. Shown(list) \subseteq Shown(list') /\ e.alert \in Shown(list')
    BY <2>3, <2>5 DEF Shown
  <2>7. LiveOnce'
    <3> SUFFICES ASSUME NEW i \in DOMAIN list, NEW j \in DOMAIN list,
                        list'[i].live, list'[j].live, list'[i].alert = list'[j].alert
                 PROVE  i = j
      BY <2>3 DEF LiveOnce
    <3>1. \A h \in DOMAIN list : list'[h].live => list[h].live /\ list'[h].alert = list[h].alert
      BY <1>3, <2>1, <2>3
    <3> QED
      BY <3>1 DEF LiveOnce
  <2> QED
    BY <1>1, <1>4, <2>3, <2>4, <2>6, <2>7
<1>5. CASE /\ \A i \in DOMAIN list : ~Same(list[i], e)
           /\ list' = Cut(<<e>> \o list)
           /\ gone' = gone \union (Shown(list) \ Shown(list'))
           /\ UNCHANGED selected
  <2>1. /\ list' \in Seq(EntryType) /\ Len(list') <= Cap
        /\ 1 \in DOMAIN list' /\ list'[1] = e
        /\ \A i \in DOMAIN list' : i # 1 => i - 1 \in DOMAIN list /\ list'[i] = list[i - 1]
    <3>1. list' = Cut(<<e>> \o list)
      BY <1>5
    <3>2. list \in Seq(EntryType) /\ e \in EntryType
      BY <1>1
    <3> HIDE DEF EntryType
    <3> QED
      BY ONLY <3>1, <3>2, CutFront
  <2>2. e.alert \in Shown(list')
    BY <2>1 DEF Shown
  <2>3. LiveOnce'
    <3>1. \A i \in DOMAIN list' : /\ i \in Nat
                                  /\ i # 1 /\ list'[i].live => list'[i].alert # e.alert
      BY <1>3, <1>5, <2>1
    <3>2. ASSUME NEW i \in DOMAIN list', NEW j \in DOMAIN list',
                 list'[i].live, list'[j].live, list'[i].alert = list'[j].alert
          PROVE  i = j
      <4>1. CASE i = 1 \/ j = 1
        BY <2>1, <3>1, <3>2, <4>1
      <4>2. CASE i # 1 /\ j # 1
        <5>1. i - 1 \in DOMAIN list /\ j - 1 \in DOMAIN list
              /\ list'[i] = list[i - 1] /\ list'[j] = list[j - 1]
          BY <2>1, <4>2
        <5>2. i - 1 = j - 1
          BY <3>2, <5>1 DEF LiveOnce
        <5> QED
          BY <3>1, <5>2
      <4> QED
        BY <4>1, <4>2
    <3> QED
      BY <3>2 DEF LiveOnce
  <2>4. \A i \in DOMAIN list' :
          list'[i] = e \/ \E j \in DOMAIN list : list'[i] = list[j] /\ ~Same(list[j], e)
    BY <1>5, <2>1
  <2> QED
    BY <1>1, <1>2, <1>5, <2>1, <2>2, <2>3, <2>4
<1> QED
  BY <1>4, <1>5 DEF Put

-----------------------------------------------------------------------------
(* Types and bounds *)

LEMMA ShownType == TypeOK => Shown(list) \subseteq Alerts
<1> SUFFICES ASSUME TypeOK, NEW i \in DOMAIN list PROVE list[i].alert \in Alerts
  BY DEF Shown
<1>1. list[i] \in EntryType
  BY DEF TypeOK
<1> QED
  BY <1>1 DEF EntryType

LEMMA DashboardTypeInit == Init => TypeOK /\ Bounded /\ SnapNotLive
<1> SUFFICES ASSUME Init PROVE TypeOK /\ Bounded /\ SnapNotLive
  OBVIOUS
<1>1. pc \in [Alerts -> Entries(Phases)]
  BY PhaseNames DEF Init
<1>2. IsFiniteSet(rows)
  BY FS_EmptySet DEF Init
<1>3. Bounded /\ SnapNotLive
  BY DashboardAssumption DEF Init, Bounded, SnapNotLive
<1> QED
  BY <1>1, <1>2, <1>3 DEF Init, TypeOK

\* A broadcast queues the event, or cuts the stream.
LEMMA OfferQueues ==
  ASSUME TypeOK, Bounded, NEW event \in Events, Offer(event)
  PROVE  /\ stream' \in {"off", "on"} /\ inbox' \in Seq(Events) /\ missed' \subseteq Events
         /\ Len(inbox') <= Channel
         /\ event \in missed' \union Entries(inbox')
         /\ missed \subseteq missed' /\ Entries(inbox) \subseteq Entries(inbox')
<1>1. inbox \in Seq(Events) /\ Len(inbox) <= Channel /\ Channel \in Nat
  BY DashboardAssumption DEF TypeOK, Bounded
<1>2. CASE stream = "on" /\ Len(inbox) < Channel /\ inbox' = Append(inbox, event)
           /\ UNCHANGED <<stream, missed>>
  <2>1. /\ inbox' \in Seq(Events) /\ Entries(inbox') = Entries(inbox) \union {event}
        /\ Len(inbox') = Len(inbox) + 1
    BY <1>1, <1>2, EntriesAppend
  <2> QED
    BY <1>1, <1>2, <2>1 DEF TypeOK
<1>3. CASE stream' \in {"off", stream} /\ missed' = missed \union {event} /\ UNCHANGED inbox
  BY <1>1, <1>3 DEF TypeOK
<1> QED
  BY <1>2, <1>3 DEF Offer

\* The history that is read: at most Cap entries, none of them from an event.
LEMMA HistoryRead ==
  ASSUME TypeOK, ListAlerts
  PROVE  snap' \in Seq(EntryType) /\ Len(snap') <= Cap /\ SnapNotLive'
<1>1. PICK s \in Histories :
        snap' = [i \in DOMAIN Newest(s) |-> Entry(Newest(s)[i], FALSE, Diagnosed(Newest(s)[i]))]
  BY DEF ListAlerts
<1> DEFINE t == Newest(s)
<1>2. Cardinality(rows) \in Nat
  BY FS_CardinalityType DEF TypeOK
<1>3. t \in Seq(rows) /\ Len(t) <= Cap
  BY <1>2, NewestType DEF Histories
<1>4. \A i \in DOMAIN t : t[i] \in Alerts
  BY <1>3 DEF TypeOK
<1>5. snap' = [i \in DOMAIN t |-> Entry(t[i], FALSE, Diagnosed(t[i]))]
  BY <1>1
<1> HIDE DEF t
<1>6. DOMAIN snap' = 1 .. Len(t) /\ Len(t) \in Nat
  BY <1>3, <1>5
<1>7. ASSUME NEW i \in DOMAIN snap' PROVE snap'[i] \in EntryType /\ ~snap'[i].live
  <2>1. i \in DOMAIN t /\ t[i] \in Alerts
    BY <1>3, <1>4, <1>6
  <2>2. snap'[i] = Entry(t[i], FALSE, Diagnosed(t[i]))
    BY <1>5, <2>1
  <2>3. Diagnosed(t[i]) \in {"none", "auto", "asked"}
    BY DiagnosedType
  <2>4. Entry(t[i], FALSE, Diagnosed(t[i])) \in EntryType
    BY <2>1, <2>3, EntryFields
  <2>5. Entry(t[i], FALSE, Diagnosed(t[i])).live = FALSE
    BY DEF Entry
  <2> QED
    BY <2>2, <2>4, <2>5
<1>8. snap' \in [1 .. Len(t) -> EntryType]
  BY <1>5, <1>6, <1>7
<1>9. snap' \in Seq(EntryType) /\ Len(snap') = Len(t)
  BY <1>6, <1>8
<1> QED
  BY <1>3, <1>7, <1>9 DEF SnapNotLive

\* The entry that OnMessage makes of an event.
LEMMA MessageEntry ==
  ASSUME TypeOK, OnMessage
  PROVE  /\ inbox # <<>> /\ Head(inbox) \in Events
         /\ inbox' \in Seq(Events) /\ Len(inbox') <= Len(inbox)
         /\ Entries(inbox) = {Head(inbox)} \union Entries(inbox')
         /\ \E e \in EntryType : /\ e.alert = Head(inbox)[1] /\ e.live
                                 /\ e.ai = Diagnosed(Head(inbox)[1]) /\ Put(e)
<1>1. inbox \in Seq(Events) /\ inbox # <<>> /\ inbox' = Tail(inbox)
  BY DEF TypeOK, OnMessage
<1> DEFINE a == Head(inbox)[1]
<1>2. /\ Head(inbox) \in Events
      /\ inbox' \in Seq(Events) /\ Len(inbox') <= Len(inbox)
      /\ Entries(inbox) = {Head(inbox)} \union Entries(inbox')
  BY <1>1, EntriesTail
<1>3. a \in Alerts
  BY <1>2 DEF Events
<1>4. Put(Entry(a, TRUE, Diagnosed(a)))
  BY DEF OnMessage
<1>5. Diagnosed(a) \in {"none", "auto", "asked"}
  BY DiagnosedType
<1> HIDE DEF a
<1>6. /\ Entry(a, TRUE, Diagnosed(a)) \in EntryType /\ Entry(a, TRUE, Diagnosed(a)).alert = a
      /\ Entry(a, TRUE, Diagnosed(a)).live /\ Entry(a, TRUE, Diagnosed(a)).ai = Diagnosed(a)
  BY <1>3, <1>5, EntryFields, ZenonT(60)
<1>7. \E e \in EntryType : e.alert = a /\ e.live /\ e.ai = Diagnosed(a) /\ Put(e)
  BY <1>4, <1>6
<1> QED
  BY <1>1, <1>2, <1>7 DEF a

\* The answer of the AI goes into the entries that are the same as the one it was asked
\* for; nothing else of them changes but the alert of an entry of the history.
LEMMA AnswerPuts ==
  ASSUME TypeOK, Asked
  PROVE  /\ list' \in Seq(EntryType) /\ Len(list') = Len(list) /\ DOMAIN list' = DOMAIN list
         /\ selected' \in EntryType
         /\ \A i \in DOMAIN list :
              \/ list'[i] = list[i]
              \/ /\ list'[i].live <=> list[i].live
                 /\ list[i].live => list'[i].alert = list[i].alert
                 /\ list'[i].ai = "asked"
<1> DEFINE u == [asking EXCEPT !.ai = "asked"]
<1>1. asking \in EntryType
  BY DEF TypeOK, Asked
<1>2. /\ u \in EntryType /\ u.alert = asking.alert /\ u.live = asking.live
      /\ u.ai = "asked"
  BY <1>1 DEF EntryType
<1>3. /\ selected' = u
      /\ list' = [i \in DOMAIN list |-> IF Same(list[i], asking) THEN u ELSE list[i]]
  BY DEF Asked
<1> HIDE DEF u
<1>4. /\ list \in Seq(EntryType) /\ DOMAIN list = 1 .. Len(list) /\ Len(list) \in Nat
      /\ \A i \in DOMAIN list : list[i] \in EntryType
  BY DEF TypeOK
<1>5. /\ list' \in [1 .. Len(list) -> EntryType]
      /\ \A i \in DOMAIN list :
           list'[i] = IF Same(list[i], asking) THEN u ELSE list[i]
  BY <1>2, <1>3, <1>4
<1>6. list' \in Seq(EntryType) /\ Len(list') = Len(list)
  BY <1>4, <1>5
<1>7. ASSUME NEW i \in DOMAIN list, Same(list[i], asking)
      PROVE  /\ u.live <=> list[i].live
             /\ list[i].live => u.alert = list[i].alert
  BY <1>1, <1>2, <1>4, <1>7 DEF Same, EntryType
<1> QED
  BY <1>2, <1>3, <1>4, <1>5, <1>6, <1>7

LEMMA DashboardTypeStep ==
  ASSUME TypeOK, Bounded, SnapNotLive, LiveOnce, [Next]_vars
  PROVE  TypeOK' /\ Bounded' /\ SnapNotLive'
<1> USE DEF server, feed, history, page
<1>1. Cap \in Nat \ {0} /\ Channel \in Nat \ {0}
  BY DashboardAssumption
<1>2. ASSUME NEW a \in Alerts, Insert(a) \/ Diagnose(a)
      PROVE  TypeOK' /\ Bounded' /\ SnapNotLive'
  <2>1. pc' \in [Alerts -> Entries(Phases)]
    BY <1>2, PhaseNames DEF Insert, Diagnose, TypeOK
  <2>2. rows' \subseteq Alerts /\ IsFiniteSet(rows')
    <3>1. rows \subseteq Alerts /\ IsFiniteSet(rows)
      BY DEF TypeOK
    <3>2. IsFiniteSet(rows \union {a})
      BY <3>1, FS_AddElement
    <3>3. rows' = rows \/ rows' = rows \union {a}
      BY <1>2 DEF Insert, Diagnose
    <3> QED
      BY <3>1, <3>2, <3>3
  <2> QED
    BY <1>2, <2>1, <2>2 DEF Insert, Diagnose, TypeOK, Bounded, SnapNotLive
<1>3. ASSUME NEW a \in Alerts, Broadcast(a) \/ Rebroadcast(a)
      PROVE  TypeOK' /\ Bounded' /\ SnapNotLive'
  <2>1. pc' \in [Alerts -> Entries(Phases)]
    BY <1>3, PhaseNames DEF Broadcast, Rebroadcast, TypeOK
  <2>2. <<a, 1>> \in Events /\ <<a, 2>> \in Events
    BY DEF Events
  <2>3. /\ stream' \in {"off", "on"} /\ inbox' \in Seq(Events) /\ missed' \subseteq Events
        /\ Len(inbox') <= Channel
    BY <1>3, <2>2, OfferQueues DEF Broadcast, Rebroadcast
  <2> QED
    BY <1>3, <2>1, <2>3 DEF Broadcast, Rebroadcast, TypeOK, Bounded, SnapNotLive
<1>4. ASSUME Connect \/ Break PROVE TypeOK' /\ Bounded' /\ SnapNotLive'
  <2>1. Entries(inbox) \subseteq Events
    BY DEF TypeOK, Entries
  <2>2. /\ stream' \in {"off", "on"} /\ inbox' \in Seq(Events) /\ missed' \subseteq Events
        /\ Len(inbox') <= Channel
    <3>1. <<>> \in Seq(Events) /\ Len(<<>>) <= Channel
      BY <1>1
    <3> HIDE DEF Events
    <3> QED
      BY <1>4, <2>1, <3>1 DEF Connect, Break, TypeOK, Bounded
  <2> QED
    BY <1>4, <2>2 DEF Connect, Break, TypeOK, Bounded, SnapNotLive
<1>5. ASSUME OnMessage PROVE TypeOK' /\ Bounded' /\ SnapNotLive'
  <2>1. inbox' \in Seq(Events) /\ Len(inbox') <= Channel
    <3>1. inbox' \in Seq(Events) /\ Len(inbox') <= Len(inbox)
      BY <1>5, MessageEntry
    <3> QED
      BY <1>1, <3>1 DEF Bounded, TypeOK
  <2>2. PICK e \in EntryType : e.live /\ Put(e)
    BY <1>5, MessageEntry
  <2>3. /\ list' \in Seq(EntryType) /\ Len(list') <= Cap
        /\ selected' \in {selected, e} /\ gone' \subseteq Alerts
    BY <2>2, PutPuts DEF Bounded
  <2> QED
    BY <1>5, <2>1, <2>3 DEF OnMessage, TypeOK, Bounded, SnapNotLive
<1>6. ASSUME ListAlerts PROVE TypeOK' /\ Bounded' /\ SnapNotLive'
  BY <1>6, HistoryRead DEF ListAlerts, TypeOK, Bounded
<1>7. ASSUME HistoryLoaded \/ HistoryFailed PROVE TypeOK' /\ Bounded' /\ SnapNotLive'
  <2>1. Shown(list) \subseteq Alerts
    BY ShownType
  <2> QED
    BY <1>7, <2>1 DEF HistoryLoaded, HistoryFailed, TypeOK, Bounded, SnapNotLive
<1>8. ASSUME Asked PROVE TypeOK' /\ Bounded' /\ SnapNotLive'
  <2>1. Shown(list) \subseteq Alerts
    BY ShownType
  <2>2. list' \in Seq(EntryType) /\ Len(list') = Len(list) /\ selected' \in EntryType
    BY <1>8, AnswerPuts
  <2> QED
    BY <1>8, <2>1, <2>2 DEF Asked, TypeOK, Bounded, SnapNotLive
<1>9. ASSUME Select \/ AskAI \/ AskFails PROVE TypeOK' /\ Bounded' /\ SnapNotLive'
  <2>1. Entries(list) \subseteq EntryType
    BY DEF TypeOK, Entries
  <2> QED
    BY <1>9, <2>1 DEF Select, AskAI, AskFails, TypeOK, Bounded, SnapNotLive
<1>10. ASSUME ClearAlerts \/ DeleteAlerts \/ Cleared \/ ClearFails PROVE TypeOK' /\ Bounded' /\ SnapNotLive'
  <2>1. Shown(list) \subseteq Alerts
    BY ShownType
  <2>2. rows' \subseteq Alerts /\ IsFiniteSet(rows')
    <3>1. IsFiniteSet({})
      BY FS_EmptySet
    <3> QED
      BY <1>10, <3>1 DEF ClearAlerts, DeleteAlerts, Cleared, ClearFails, TypeOK
  <2>3. list' \in Seq(EntryType) /\ Len(list') <= Cap
    <3>1. <<>> \in Seq(EntryType) /\ Len(<<>>) <= Cap
      BY <1>1
    <3> QED
      BY <1>10, <3>1 DEF ClearAlerts, DeleteAlerts, Cleared, ClearFails, TypeOK, Bounded
  <2> QED
    BY <1>10, <2>1, <2>2, <2>3
       DEF ClearAlerts, DeleteAlerts, Cleared, ClearFails, TypeOK, Bounded, SnapNotLive
<1>11. ASSUME Reload PROVE TypeOK' /\ Bounded' /\ SnapNotLive'
  <2>1. missed' \subseteq Events
    BY <1>11 DEF Reload, Told, Events
  <2> QED
    BY <1>1, <1>11, <2>1 DEF Reload, Fresh, TypeOK, Bounded, SnapNotLive
<1>12. ASSUME UNCHANGED vars PROVE TypeOK' /\ Bounded' /\ SnapNotLive'
  BY <1>12 DEF vars, TypeOK, Bounded, SnapNotLive
<1> QED
  BY <1>2, <1>3, <1>4, <1>5, <1>6, <1>7, <1>8, <1>9, <1>10, <1>11, <1>12 DEF Next

-----------------------------------------------------------------------------
(* What has arrived, and what the page shows *)

\* An event arrives by being taken from the channel, and in no other way: what is sent is
\* queued or lost, and a page that is loaded again starts without what was sent before.
LEMMA ArrivedSteps ==
  ASSUME TypeOK, Bounded, [Next]_vars, NEW a \in Alerts, NEW n \in {1, 2}, Arrived(a, n)'
  PROVE  Arrived(a, n) \/ (OnMessage /\ Head(inbox) = <<a, n>>)
<1> USE DEF server, feed, history, page
<1> DEFINE Sent(b, m) == IF m = 1 THEN b \in Told ELSE pc[b] = "retold"
<1>1. /\ Sent(a, n)' /\ <<a, n>> \notin missed' /\ <<a, n>> \notin Entries(inbox')
  BY DEF Arrived
<1>2. Arrived(a, n) <=> Sent(a, n) /\ <<a, n>> \notin missed /\ <<a, n>> \notin Entries(inbox)
  BY DEF Arrived
<1>3. pc' = pc => (Sent(a, n)' <=> Sent(a, n))
  BY DEF Told
<1>4. pc \in [Alerts -> Entries(Phases)]
  BY DEF TypeOK
<1>5. ASSUME NEW b \in Alerts, Insert(b) \/ Diagnose(b) PROVE Arrived(a, n)
  <2>1. /\ \/ pc[b] = "new" /\ pc' = [pc EXCEPT ![b] = "stored"]
           \/ pc[b] = "told" /\ pc' = [pc EXCEPT ![b] = "diagnosed"]
        /\ UNCHANGED <<missed, inbox>>
    BY <1>5 DEF Insert, Diagnose
  <2>2. Sent(a, n)
    BY <1>1, <1>4, <2>1 DEF Told
  <2> HIDE DEF Sent
  <2> QED
    BY <1>1, <1>2, <2>1, <2>2
<1>6. ASSUME NEW b \in Alerts, NEW m \in {1, 2}, Offer(<<b, m>>),
             \/ m = 1 /\ pc[b] = "stored" /\ pc' = [pc EXCEPT ![b] = "told"]
             \/ m = 2 /\ pc[b] = "diagnosed" /\ pc' = [pc EXCEPT ![b] = "retold"]
      PROVE  Arrived(a, n)
  <2>1. <<b, m>> \in Events
    BY DEF Events
  <2>2. /\ <<b, m>> \in missed' \union Entries(inbox')
        /\ missed \subseteq missed' /\ Entries(inbox) \subseteq Entries(inbox')
    BY <1>6, <2>1, OfferQueues
  <2>3. a # b \/ n # m
    BY <1>1, <2>2
  <2>4. Sent(a, n)
    BY <1>1, <1>4, <1>6, <2>3 DEF Told
  <2> HIDE DEF Sent
  <2> QED
    BY <1>1, <1>2, <2>2, <2>4
<1>7. ASSUME NEW b \in Alerts, Broadcast(b) \/ Rebroadcast(b) PROVE Arrived(a, n)
  BY <1>6, <1>7 DEF Broadcast, Rebroadcast
<1> HIDE DEF Sent
<1>8. ASSUME Break PROVE Arrived(a, n)
  BY <1>1, <1>2, <1>3, <1>8 DEF Break
<1>9. ASSUME OnMessage PROVE Arrived(a, n) \/ Head(inbox) = <<a, n>>
  <2>1. Entries(inbox) = {Head(inbox)} \union Entries(inbox')
    BY <1>9, MessageEntry
  <2>2. pc' = pc /\ missed' = missed
    BY <1>9 DEF OnMessage
  <2> QED
    BY <1>1, <1>2, <1>3, <2>1, <2>2
<1>10. ASSUME Reload PROVE FALSE
  <2>1. Sent(a, n)
    BY <1>1, <1>3, <1>10 DEF Reload
  <2>2. missed' = {<<b, 1>> : b \in Told} \union {<<b, 2>> : b \in {c \in Alerts : pc[c] = "retold"}}
    BY <1>10 DEF Reload
  <2> QED
    BY <1>1, <2>1, <2>2 DEF Sent
<1>11. CASE \/ Connect \/ ListAlerts \/ HistoryLoaded \/ HistoryFailed \/ Select \/ AskAI
            \/ Asked \/ AskFails \/ ClearAlerts \/ DeleteAlerts \/ Cleared \/ ClearFails
            \/ UNCHANGED vars
  <2>1. UNCHANGED <<pc, missed, inbox>>
    BY <1>11 DEF Connect, ListAlerts, HistoryLoaded, HistoryFailed, Select, AskAI, Asked,
                 AskFails, ClearAlerts, DeleteAlerts, Cleared, ClearFails, vars
  <2> QED
    BY <1>1, <1>2, <1>3, <2>1
<1> QED
  BY <1>5, <1>7, <1>8, <1>9, <1>10, <1>11 DEF Next

\* The steps that change the list.
LEMMA ListSteps ==
  ASSUME [Next]_vars
  PROVE  \/ list' = list /\ gone' = gone
         \/ OnMessage \/ Asked
         \/ fetch = "read" /\ fetch' = "loaded" /\ list' = snap /\ snap' = snap
            /\ gone' = gone \union (Shown(list) \ Shown(list'))
         \/ list' = <<>> /\ gone' = gone \union Shown(list) /\ UNCHANGED <<fetch, snap>>
         \/ list' = <<>> /\ Reload
<1> USE DEF server, feed, history, page
<1>1. CASE \/ \E a \in Alerts : Insert(a) \/ Broadcast(a) \/ Diagnose(a) \/ Rebroadcast(a)
           \/ Connect \/ Break \/ ListAlerts \/ HistoryFailed \/ Select \/ AskAI \/ AskFails
           \/ ClearAlerts \/ DeleteAlerts \/ ClearFails \/ UNCHANGED vars
  <2>1. list' = list /\ gone' = gone
    BY <1>1 DEF Insert, Broadcast, Diagnose, Rebroadcast, Connect, Break, ListAlerts,
                HistoryFailed, Select, AskAI, AskFails, ClearAlerts, DeleteAlerts, ClearFails, vars
  <2> QED
    BY <2>1
<1>2. CASE HistoryLoaded
  BY <1>2 DEF HistoryLoaded
<1>3. CASE Cleared
  BY <1>3 DEF Cleared
<1>4. CASE Reload
  BY <1>4 DEF Reload, Fresh
<1> QED
  BY <1>1, <1>2, <1>3, <1>4 DEF Next

\* The page shows what it showed, or has taken it out itself.
LEMMA ShownStays ==
  ASSUME TypeOK, Bounded, LiveOnce, [Next]_vars
  PROVE  Reload \/ Shown(list) \union gone \subseteq Shown(list') \union gone'
<1>1. CASE OnMessage
  <2>1. PICK e \in EntryType : e.live /\ Put(e)
    BY <1>1, MessageEntry
  <2>2. gone \subseteq gone' /\ Shown(list) \subseteq Shown(list') \union gone'
    BY <2>1, PutPuts DEF Bounded
  <2> QED
    BY <2>2
<1>2. CASE Asked
  BY <1>2 DEF Asked
<1> QED
  BY <1>1, <1>2, ListSteps

LEMMA LiveOnceStep ==
  ASSUME TypeOK, Bounded, SnapNotLive, LiveOnce, [Next]_vars PROVE LiveOnce'
<1>1. CASE OnMessage
  <2>1. PICK e \in EntryType : e.live /\ Put(e)
    BY <1>1, MessageEntry
  <2> QED
    BY <2>1, PutPuts DEF Bounded
<1>2. CASE Asked
  <2>1. /\ DOMAIN list' = DOMAIN list
        /\ \A i \in DOMAIN list :
             list'[i].live => list[i].live /\ list'[i].alert = list[i].alert
    BY <1>2, AnswerPuts
  <2> QED
    BY <2>1 DEF LiveOnce
<1>3. CASE list' = list
  BY <1>3 DEF LiveOnce
<1>4. CASE list' = snap
  BY <1>4 DEF LiveOnce, SnapNotLive
<1>5. CASE list' = <<>>
  BY <1>5 DEF LiveOnce
<1> QED
  BY <1>1, <1>2, <1>3, <1>4, <1>5, ListSteps

LEMMA NothingVanishesStep ==
  ASSUME TypeOK, Bounded, LiveOnce, NothingVanishes, [Next]_vars PROVE NothingVanishes'
<1> DEFINE Due(a) == Arrived(a, 1) \/ (fetch = "loaded" /\ a \in Shown(snap))
<1> SUFFICES ASSUME NEW a \in Alerts, Due(a)' PROVE a \in Shown(list') \union gone'
  BY DEF NothingVanishes
<1>1. Due(a) => a \in Shown(list) \union gone
  BY DEF NothingVanishes
<1>2. ASSUME OnMessage, Head(inbox)[1] = a PROVE a \in Shown(list')
  <2>1. PICK e \in EntryType : e.alert = Head(inbox)[1] /\ e.live /\ Put(e)
    BY <1>2, MessageEntry
  <2>2. e.alert \in Shown(list')
    BY <2>1, PutPuts DEF Bounded
  <2> QED
    BY <1>2, <2>1, <2>2
<1>3. CASE Arrived(a, 1)'
  <2>1. CASE Arrived(a, 1)
    <3>1. ~Reload
      <4>1. Reload => a \in Told /\ <<a, 1>> \in missed'
        BY <2>1 DEF Reload, Arrived
      <4> QED
        BY <1>3, <4>1 DEF Arrived
    <3> QED
      BY <1>1, <2>1, <3>1, ShownStays
  <2>2. CASE OnMessage /\ Head(inbox) = <<a, 1>>
    BY <1>2, <2>2
  <2> QED
    BY <1>3, <2>1, <2>2, ArrivedSteps
<1>4. CASE fetch' = "loaded" /\ a \in Shown(snap)'
  <2>1. HistoryLoaded \/ (fetch = "loaded" /\ snap' = snap /\ ~Reload)
    BY <1>4 DEF Next, vars, server, feed, history, page, Insert, Broadcast, Diagnose, Rebroadcast,
       Connect, Break, OnMessage, ListAlerts, HistoryFailed, Select, AskAI, Asked, AskFails,
       ClearAlerts, DeleteAlerts, Cleared, ClearFails, Reload, Fresh
  <2>2. CASE HistoryLoaded
    <3>1. snap' = snap /\ snap # <<>>
      BY <1>4, <2>2, EntriesEmpty DEF HistoryLoaded, Shown
    <3> QED
      BY <1>4, <2>2, <3>1 DEF HistoryLoaded, Shown
  <2>3. CASE fetch = "loaded" /\ snap' = snap /\ ~Reload
    BY <1>1, <1>4, <2>3, ShownStays DEF Shown
  <2> QED
    BY <2>1, <2>2, <2>3
<1> QED
  BY <1>3, <1>4

LEMMA DiagnosisArrivesStep ==
  ASSUME TypeOK, Bounded, SnapNotLive, LiveOnce, DiagnosisArrives, [Next]_vars
  PROVE  DiagnosisArrives'
<1> SUFFICES ASSUME NEW e \in Entries(list'), e.live, Arrived(e.alert, 2)'
             PROVE  e.ai # "none"
  BY DEF DiagnosisArrives
<1>1. PICK i \in DOMAIN list' : e = list'[i]
  BY DEF Entries
<1>2. e \in EntryType /\ e.alert \in Alerts
  <2>1. list' \in Seq(EntryType)
    BY DashboardTypeStep DEF TypeOK
  <2>2. e \in EntryType
    BY <1>1, <2>1
  <2> QED
    BY <2>2 DEF EntryType
<1>3. Arrived(e.alert, 2) \/ (OnMessage /\ Head(inbox) = <<e.alert, 2>>)
  BY <1>2, ArrivedSteps
<1>4. Arrived(e.alert, 2) /\ e \in Entries(list) => e.ai # "none"
  BY DEF DiagnosisArrives
<1>5. CASE OnMessage
  <2>1. PICK m \in EntryType : /\ m.alert = Head(inbox)[1] /\ m.live
                              /\ m.ai = Diagnosed(Head(inbox)[1]) /\ Put(m)
    BY <1>5, MessageEntry
  <2>2. e = m \/ \E j \in DOMAIN list : e = list[j] /\ ~Same(list[j], m)
    BY <1>1, <2>1, PutPuts DEF Bounded
  <2>3. CASE e = m
    <3>1. pc'[e.alert] = "retold" /\ pc' = pc
      BY <1>5 DEF Arrived, OnMessage, server
    <3> QED
      BY <2>1, <2>3, <3>1 DEF Diagnosed
  <2>4. CASE \E j \in DOMAIN list : e = list[j] /\ ~Same(list[j], m)
    <3>1. e.alert # Head(inbox)[1] /\ e \in Entries(list)
      BY <1>2, <2>1, <2>4, SameLive DEF Entries
    <3> QED
      BY <1>3, <1>4, <3>1
  <2> QED
    BY <2>2, <2>3, <2>4
<1>6. CASE Asked /\ ~OnMessage
  <2>1. /\ i \in DOMAIN list
        /\ e = list[i] \/ e.ai = "asked"
    BY <1>1, <1>6, AnswerPuts
  <2> QED
    BY <1>3, <1>4, <1>6, <2>1 DEF Entries
<1>7. CASE list' = list /\ ~OnMessage
  BY <1>3, <1>4, <1>7
<1>8. CASE list' = snap
  BY <1>1, <1>8 DEF SnapNotLive
<1>9. CASE list' = <<>>
  BY <1>1, <1>9
<1> QED
  BY <1>5, <1>6, <1>7, <1>8, <1>9, ListSteps

-----------------------------------------------------------------------------
(* The inductive invariant, and what follows from it *)

LEMMA DashboardInit == Init => DashboardInv
<1> SUFFICES ASSUME Init PROVE DashboardInv
  OBVIOUS
<1>1. TypeOK /\ Bounded /\ SnapNotLive
  BY DashboardTypeInit
<1>2. LiveOnce /\ DiagnosisArrives
  BY EntriesEmpty DEF Init, LiveOnce, DiagnosisArrives
<1>3. NothingVanishes
  BY DEF Init, NothingVanishes, Arrived, Told
<1> QED
  BY <1>1, <1>2, <1>3 DEF DashboardInv

LEMMA DashboardStep == DashboardInv /\ [Next]_vars => DashboardInv'
BY DashboardTypeStep, LiveOnceStep, NothingVanishesStep, DiagnosisArrivesStep DEF DashboardInv

\* The invariant holds of every behaviour: of any order of the history and the events, of
\* broken connections, of a server that is anywhere in its work on any alert, and of what
\* the user does meanwhile.
THEOREM DashboardCorrect == Spec => []DashboardInv
<1>1. Init => DashboardInv
  BY DashboardInit
<1>2. DashboardInv /\ [Next]_vars => DashboardInv'
  BY DashboardStep
<1> QED
  BY <1>1, <1>2, PTL DEF Spec

\* The page and the channel it is fed from never hold more than they are cut to.
THEOREM DashboardBounded == Spec => []Bounded
<1>1. DashboardInv => Bounded
  BY DEF DashboardInv
<1> QED
  BY <1>1, DashboardCorrect, PTL

\* An alert has at most one entry from the events: a diagnosis that comes later goes into
\* the entry that is there.
THEOREM AlertsLiveOnce == Spec => []LiveOnce
<1>1. DashboardInv => LiveOnce
  BY DEF DashboardInv
<1> QED
  BY <1>1, DashboardCorrect, PTL

\* An alert whose event has arrived, or that was in the history, is on the page, unless it was
\* cleared, pushed off the end, or replaced by the history or by an answer to "Ask AI".
THEOREM AlertsDoNotVanish == Spec => []NothingVanishes
<1>1. DashboardInv => NothingVanishes
  BY DEF DashboardInv
<1> QED
  BY <1>1, DashboardCorrect, PTL

\* The event with the diagnosis leaves no entry of the events with no diagnosis at all; the
\* answer to "Ask AI" may take the place of the one of the server.
THEOREM DiagnosesArrive == Spec => []DiagnosisArrives
<1>1. DashboardInv => DiagnosisArrives
  BY DEF DashboardInv
<1> QED
  BY <1>1, DashboardCorrect, PTL

=============================================================================
