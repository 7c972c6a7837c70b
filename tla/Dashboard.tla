----------------------------- MODULE Dashboard -----------------------------
(***************************************************************************)
(* The page (ui/src/App.tsx): its list of alerts, which is made of the     *)
(* history it fetches once and of the events it receives, the alert that   *)
(* is selected, "Ask AI" and "Clear".  The fetch and the event stream are  *)
(* opened together and the server may take them in either order.           *)
(*                                                                         *)
(* An event carries the time of its alert as the probe took it, the        *)
(* history has it cut to a second (store/alerts.go), so the page, which    *)
(* compares times and rules, never knows an entry of the history again     *)
(* when an event comes for it.                                             *)
(*                                                                         *)
(* Of the control plane there is what the page sees: rows, and a channel   *)
(* that is filled by broadcasts and cut when it is full (AlertFeed).       *)
(***************************************************************************)
EXTENDS Integers, Sequences, FiniteSets

CONSTANTS Alerts,   \* alerts of the tenant, all of one rule
          Second,   \* the second each was seen in
          Cap,      \* entries the page keeps, 500
          Channel,  \* events that wait for the page, 100
          None      \* no entry

ASSUME DashboardAssumption ==
  /\ Second \in [Alerts -> Nat]
  /\ Cap \in Nat \ {0} /\ Channel \in Nat \ {0}

VARIABLES pc,       \* pc[a]: how far the control plane is with a
          rows,     \* the alerts in the database
          stream,   \* the subscription of the page: "off" or "on"
          inbox,    \* events on their way: <<a, 1>>, and <<a, 2>> with a diagnosis
          fetch,    \* the history: "asked", "read", "loaded", "failed"
          snap,     \* the history that was read
          list,     \* alerts, as the page shows them
          selected, \* selectedAlert
          asking,   \* the alert "Ask AI" was pressed for, None when it is not waiting
          clearing, \* "no", "sent", "done": the DELETE, up to its answer
          missed,   \* history: events that were not offered, or lost on their way
          gone      \* history: alerts with an entry the page has taken out itself

server == <<pc, rows>>
feed == <<stream, inbox, missed>>
history == <<fetch, snap>>
page == <<list, selected, asking, gone>>
vars == <<server, feed, history, page, clearing>>

Phases == <<"new", "stored", "told", "diagnosed", "retold">>

\* live: from an event; ai: the diagnosis an entry shows.
Entry(a, live, ai) == [alert |-> a, live |-> live, ai |-> ai]

\* Mutant: the time is compared to the second, as the history has it.
SameSecond(e, f) == Second[e.alert] = Second[f.alert]

\* timestamp and rule_id, as the page compares them.
Same(e, f) == /\ e.live = f.live
              /\ IF e.live THEN e.alert = f.alert ELSE Second[e.alert] = Second[f.alert]

Diagnosed(a) == IF pc[a] \in {"diagnosed", "retold"} THEN "auto" ELSE "none"

Entries(s) == {s[i] : i \in DOMAIN s}
Shown(s) == {s[i].alert : i \in DOMAIN s}
Cut(s) == SubSeq(s, 1, IF Len(s) < Cap THEN Len(s) ELSE Cap)

Told == {a \in Alerts : pc[a] \notin {"new", "stored"}}

\* The page is opened: its state is new, and it is offered what comes from now on.
Fresh == /\ stream' = "off" /\ inbox' = <<>>
         /\ fetch' = "asked" /\ snap' = <<>>
         /\ list' = <<>> /\ selected' = None /\ asking' = None
         /\ clearing' = "no" /\ gone' = {}

Init == /\ pc = [a \in Alerts |-> "new"] /\ rows = {}
        /\ stream = "off" /\ inbox = <<>> /\ fetch = "asked" /\ snap = <<>>
        /\ list = <<>> /\ selected = None /\ asking = None
        /\ clearing = "no" /\ missed = {} /\ gone = {}

-----------------------------------------------------------------------------
(* The control plane *)

Insert(a) == /\ pc[a] = "new"
             /\ pc' = [pc EXCEPT ![a] = "stored"]
             /\ rows' = rows \union {a}
             /\ UNCHANGED <<feed, history, page, clearing>>

\* broadcastAlert, to this one client: queued; not sent, and the client dropped when it is
\* slow; or not reached, when the broadcaster panics at a channel before it (AlertFeed).
Offer(event) == \/ /\ stream = "on" /\ Len(inbox) < Channel
                   /\ inbox' = Append(inbox, event)
                   /\ UNCHANGED <<stream, missed>>
                \/ /\ stream = "off" \/ Len(inbox) = Channel
                   /\ stream' = "off"
                   /\ missed' = missed \union {event}
                   /\ UNCHANGED inbox
                \/ /\ missed' = missed \union {event}
                   /\ UNCHANGED <<stream, inbox>>

Broadcast(a) == /\ pc[a] = "stored"
                /\ pc' = [pc EXCEPT ![a] = "told"]
                /\ Offer(<<a, 1>>)
                /\ UNCHANGED <<rows, history, page, clearing>>

\* UpdateAlertDiagnosis, and the assignment to the alert that events point to.
Diagnose(a) == /\ pc[a] = "told"
               /\ pc' = [pc EXCEPT ![a] = "diagnosed"]
               /\ UNCHANGED <<rows, feed, history, page, clearing>>

Rebroadcast(a) == /\ pc[a] = "diagnosed"
                  /\ pc' = [pc EXCEPT ![a] = "retold"]
                  /\ Offer(<<a, 2>>)
                  /\ UNCHANGED <<rows, history, page, clearing>>

-----------------------------------------------------------------------------
(* The event stream *)

\* EventSource connects by itself, and again when the answer has ended.
Connect == /\ stream = "off" /\ inbox = <<>>
           /\ stream' = "on"
           /\ UNCHANGED <<server, inbox, missed, history, page, clearing>>

\* The connection breaks, with the events that are on their way.
Break == /\ stream = "on" \/ inbox # <<>>
         /\ stream' = "off" /\ inbox' = <<>>
         /\ missed' = missed \union Entries(inbox)
         /\ UNCHANGED <<server, history, page, clearing>>

\* Mutant: an alert that is known already is ignored.
PutOnce(e) == /\ UNCHANGED selected
              /\ \/ /\ \E i \in DOMAIN list : Same(list[i], e)
                    /\ UNCHANGED <<list, gone>>
                 \/ /\ \A i \in DOMAIN list : ~Same(list[i], e)
                    /\ list' = Cut(<<e>> \o list)
                    /\ gone' = gone \union (Shown(list) \ Shown(list'))

\* Mutant: always a new entry.
PutAlways(e) == /\ list' = Cut(<<e>> \o list)
                /\ gone' = gone \union (Shown(list) \ Shown(list'))
                /\ UNCHANGED selected

First(s, e) == CHOOSE i \in DOMAIN s :
                 Same(s[i], e) /\ \A j \in 1 .. i - 1 : ~Same(s[j], e)

\* The update of onmessage: in place when findIndex finds the alert, else in front.
Put(e) == \/ /\ \E i \in DOMAIN list : Same(list[i], e)
             /\ list' = [list EXCEPT ![First(list, e)] = e]
             /\ selected' = IF selected # None /\ Same(selected, e) THEN e ELSE selected
             /\ UNCHANGED gone
          \/ /\ \A i \in DOMAIN list : ~Same(list[i], e)
             /\ list' = Cut(<<e>> \o list)
             /\ gone' = gone \union (Shown(list) \ Shown(list'))
             /\ UNCHANGED selected

\* The handler marshals what the alert is by now.
OnMessage == /\ inbox # <<>>
             /\ inbox' = Tail(inbox)
             /\ LET a == Head(inbox)[1] IN Put(Entry(a, TRUE, Diagnosed(a)))
             /\ UNCHANGED <<server, stream, missed, history, asking, clearing>>

-----------------------------------------------------------------------------
(* The history *)

\* ORDER BY timestamp DESC LIMIT 500, reversed by the page; rows of one second come
\* in any order.
Histories == {s \in [1 .. Cardinality(rows) -> rows] :
                /\ Shown([i \in DOMAIN s |-> Entry(s[i], FALSE, "none")]) = rows
                /\ \A i, j \in DOMAIN s : i < j => Second[s[i]] <= Second[s[j]]}

Newest(s) == SubSeq(s, IF Len(s) > Cap THEN Len(s) - Cap + 1 ELSE 1, Len(s))

ListAlerts == /\ fetch = "asked"
              /\ fetch' = "read"
              /\ \E s \in Histories : LET t == Newest(s) IN
                   snap' = [i \in DOMAIN t |-> Entry(t[i], FALSE, Diagnosed(t[i]))]
              /\ UNCHANGED <<server, feed, page, clearing>>

\* The whole list is replaced, with the events that came before.  Without rows the answer
\* is null, which is no array, and the list stays.
HistoryLoaded == /\ fetch = "read"
                 /\ fetch' = "loaded"
                 /\ \/ /\ snap # <<>>
                       /\ list' = snap
                       /\ gone' = gone \union (Shown(list) \ Shown(snap))
                    \/ /\ snap = <<>>
                       /\ UNCHANGED <<list, gone>>
                 /\ UNCHANGED <<server, feed, snap, selected, asking, clearing>>

\* It is not tried again.
HistoryFailed == /\ fetch \in {"asked", "read"}
                 /\ fetch' = "failed"
                 /\ UNCHANGED <<server, feed, snap, page, clearing>>

-----------------------------------------------------------------------------
(* The user *)

\* A row is clicked, or the details are closed.
Select == /\ \E e \in Entries(list) \union {None} : selected' = e
          /\ UNCHANGED <<server, feed, history, list, asking, gone, clearing>>

\* handleAskAI: the button is there for an alert without a diagnosis.
AskAI == /\ selected # None /\ asking = None
         /\ selected.ai = "none"
         /\ asking' = selected
         /\ UNCHANGED <<server, feed, history, list, selected, gone, clearing>>

\* The answer goes into the alert as it was when asked: that one becomes the selected
\* one, and takes the place of every entry with its time and rule.
Asked == /\ asking # None
         /\ asking' = None
         /\ LET updated == [asking EXCEPT !.ai = "asked"] IN
              /\ selected' = updated
              /\ list' = [i \in DOMAIN list |->
                            IF Same(list[i], asking) THEN updated ELSE list[i]]
         /\ gone' = gone \union (Shown(list) \ Shown(list'))
         /\ UNCHANGED <<server, feed, history, clearing>>

AskFails == /\ asking # None
            /\ asking' = None
            /\ UNCHANGED <<server, feed, history, list, selected, gone, clearing>>

\* handleClearAlerts; the server answers 200 also when its DELETE has failed.
ClearAlerts == /\ clearing = "no"
               /\ clearing' = "sent"
               /\ UNCHANGED <<server, feed, history, page>>

DeleteAlerts == /\ clearing = "sent"
                /\ clearing' = "done"
                /\ rows' \in {rows, {}}
                /\ UNCHANGED <<pc, feed, history, page>>

Cleared == /\ clearing = "done"
           /\ clearing' = "no"
           /\ list' = <<>> /\ selected' = None
           /\ gone' = gone \union Shown(list)
           /\ UNCHANGED <<server, feed, history, asking>>

\* No answer, or one that is not ok, whatever the server has done.
ClearFails == /\ clearing \in {"sent", "done"}
              /\ clearing' = "no"
              /\ UNCHANGED <<server, feed, history, page>>

\* The page is loaded again; what it was told before is not told again.
Reload == /\ Fresh
          /\ missed' = {<<a, 1>> : a \in Told}
                         \union {<<a, 2>> : a \in {b \in Alerts : pc[b] = "retold"}}
          /\ UNCHANGED server

Next == \/ \E a \in Alerts : Insert(a) \/ Broadcast(a) \/ Diagnose(a) \/ Rebroadcast(a)
        \/ Connect \/ Break \/ OnMessage
        \/ ListAlerts \/ HistoryLoaded \/ HistoryFailed
        \/ Select \/ AskAI \/ Asked \/ AskFails
        \/ ClearAlerts \/ DeleteAlerts \/ Cleared \/ ClearFails \/ Reload

Spec == Init /\ [][Next]_vars
-----------------------------------------------------------------------------
(* Properties *)

\* "deduplicates alerts" (README.md:62), as far as the page does: an alert has at
\* most one entry from the events, through reconnections and late diagnoses.  It may
\* have one from the history besides, which the page does not know again.
LiveOnce ==
  \A i, j \in DOMAIN list :
    list[i].live /\ list[j].live /\ list[i].alert = list[j].alert => i = j

Arrived(a, n) == /\ IF n = 1 THEN a \in Told ELSE pc[a] = "retold"
                 /\ <<a, n>> \notin missed
                 /\ <<a, n>> \notin Entries(inbox)

\* No event takes another alert off the page (App.tsx:347-357): an alert whose event has
\* arrived, or that was in the history, is shown, unless it was cleared, pushed off the end,
\* or replaced by the history or by the answer to "Ask AI".  What those two take away the
\* page does lose; the property says that nothing else is lost.
NothingVanishes ==
  \A a \in Alerts : \/ Arrived(a, 1)
                    \/ fetch = "loaded" /\ a \in Shown(snap)
                    => a \in Shown(list) \union gone

\* When the event with the diagnosis has arrived, no entry from the events is left with
\* no diagnosis at all (App.tsx:347-357).  An answer to "Ask AI" may have replaced the one
\* of the server, and entries of the history are not updated by events.
DiagnosisArrives ==
  \A e \in Entries(list) : e.live /\ Arrived(e.alert, 2) => e.ai # "none"
-----------------------------------------------------------------------------
(* The inductive invariant *)

EntryType == [alert : Alerts, live : BOOLEAN, ai : {"none", "auto", "asked"}]

Events == Alerts \X {1, 2}

TypeOK ==
  /\ pc \in [Alerts -> Entries(Phases)]
  /\ rows \subseteq Alerts /\ IsFiniteSet(rows)
  /\ stream \in {"off", "on"} /\ inbox \in Seq(Events) /\ missed \subseteq Events
  /\ fetch \in {"asked", "read", "loaded", "failed"} /\ snap \in Seq(EntryType)
  /\ list \in Seq(EntryType) /\ gone \subseteq Alerts
  /\ selected \in EntryType \union {None} /\ asking \in EntryType \union {None}
  /\ clearing \in {"no", "sent", "done"}

\* The page and the channel are bounded, however many alerts there are.
Bounded == Len(list) <= Cap /\ Len(snap) <= Cap /\ Len(inbox) <= Channel

\* No entry of the history came from an event.
SnapNotLive == \A i \in DOMAIN snap : ~snap[i].live

DashboardInv == /\ TypeOK /\ Bounded /\ SnapNotLive
                /\ LiveOnce /\ NothingVanishes /\ DiagnosisArrives

=============================================================================
