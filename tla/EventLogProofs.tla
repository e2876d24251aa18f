--------------------------- MODULE EventLogProofs ---------------------------
(***************************************************************************)
(* The event history keeps every acknowledged event for its retention and  *)
(* in order, for any number of hosts, writers, events and ticks.           *)
(***************************************************************************)
EXTENDS EventLog, TLAPS

Pending(w) == append[w] # Idle

\* What is stored was acknowledged, and each row was inserted in its turn.
RowsAcked == \A r \in records : r.event \in acked /\ r.row <= lastRow

\* Stamps are in the past; what an event follows was acknowledged before.
Stamped(e) ==
  /\ e.at <= now /\ e.id <= lastID
  /\ \A i \in e.before : i < e.id /\ \E a \in acked : a.id = i
  /\ \A a \in acked : a.id \in e.before => a.at <= e.at
AllStamped ==
  /\ \A e \in acked : Stamped(e)
  /\ \A w \in Writer : Pending(w) => Stamped(append[w].event)

\* An event that is being appended has an id of its own.
IdsFresh ==
  /\ \A w \in Writer : Pending(w) => \A a \in acked : a.id # append[w].event.id
  /\ \A v, w \in Writer :
       v # w /\ Pending(v) /\ Pending(w) => append[v].event.id # append[w].event.id

IndInv ==
  TypeOK /\ RowsAcked /\ AllStamped /\ IdsFresh /\ EventsRetained /\ HistoryInOrder

LEMMA EventsInit == Init => IndInv
BY EventConstants DEF Init, IndInv, TypeOK, Time, RowsAcked, AllStamped, IdsFresh, Pending,
     EventsRetained, HistoryInOrder, HostEvents

\* The store and the acknowledgements do not change.
LEMMA StoreUntouched ==
  ASSUME IndInv, UNCHANGED <<backend, now, records, lastRow, acked>>
  PROVE  RowsAcked' /\ EventsRetained' /\ HistoryInOrder'
BY Zenon DEF IndInv, RowsAcked, EventsRetained, HistoryInOrder, HostEvents, ListedBefore

LEMMA StampStep ==
  ASSUME IndInv, NEW w \in Writer, NEW m \in Mac, Stamp(w, m)
  PROVE  IndInv'
<1> PICK e : e = [id |-> lastID + 1, at |-> now, mac |-> m, before |-> {a.id : a \in acked}]
  BY Zenon
<1>1. /\ UNCHANGED <<backend, now, mirror, records, lastRow, cutoff, acked>>
      /\ lastID' = lastID + 1 /\ lastID < MaxEvents /\ append[w] = Idle
      /\ append' = [append EXCEPT ![w] = [event |-> e, step |-> "read", seen |-> {}]]
  BY Zenon DEF Stamp
<1>2. TypeOK
  BY Zenon DEF IndInv
<1>3. e \in Event
  BY <1>1, <1>2, EventConstants DEF TypeOK, Event
<1>4. TypeOK'
  BY <1>1, <1>2, <1>3, EventConstants DEF TypeOK, AppendCall
<1>5. /\ append'[w].event = e
      /\ \A v \in Writer \ {w} : append'[v] = append[v]
  BY <1>1, <1>2, Zenon DEF TypeOK
<1>6. \A a \in acked : a.id \in Int /\ a.id <= lastID /\ a.at <= now
  BY <1>2, EventConstants DEF IndInv, AllStamped, Stamped, TypeOK, Event
<1>7. /\ \A a \in acked : Stamped(a)
      /\ \A v \in Writer : Pending(v) => Stamped(append[v].event) /\ append[v].event.id <= lastID
  BY Zenon DEF IndInv, AllStamped, Stamped
<1>8. ASSUME NEW f \in Event, Stamped(f) PROVE Stamped(f)'
  BY <1>1, <1>2, <1>8, EventConstants DEF Stamped, TypeOK, Event
<1>9. Stamped(e)'
  <2>1. /\ e.at = now /\ e.id = lastID + 1 /\ now \in Int /\ lastID \in Int
        /\ \A i \in e.before : \E a \in acked : a.id = i
    BY <1>2, EventConstants DEF TypeOK, Time
  <2>2. \A i \in e.before : i < e.id
    BY <1>6, <2>1
  <2> QED BY <1>1, <1>6, <2>1, <2>2 DEF Stamped
<1>10. AllStamped'
  <2>1. \A a \in acked : Stamped(a)'
    BY <1>2, <1>7, <1>8, Zenon DEF TypeOK
  <2>2. ASSUME NEW v \in Writer, Pending(v)' PROVE Stamped(append[v].event)'
    <3>1. CASE v = w
      BY <1>1, <1>5, <1>9, <3>1, Zenon DEF Stamped
    <3>2. CASE v # w
      <4>1. append'[v] = append[v] /\ Pending(v)
        BY <1>5, <2>2, <3>2, Zenon DEF Pending
      <4>2. append[v].event \in Event
        BY <1>2, <4>1, Zenon DEF TypeOK, AppendCall, Pending
      <4> QED BY <1>7, <1>8, <4>1, <4>2, Zenon DEF Stamped
    <3> QED BY <3>1, <3>2, Zenon
  <2> QED BY <1>1, <2>1, <2>2, Zenon DEF AllStamped
<1>11. IdsFresh'
  <2>1. ASSUME NEW v \in Writer, v # w, Pending(v)'
        PROVE  /\ append'[v].event.id \in Int /\ append'[v].event.id <= lastID
               /\ append'[v] = append[v] /\ Pending(v)
    BY <1>2, <1>5, <1>7, <2>1, EventConstants DEF Pending, TypeOK, AppendCall, Event
  <2>2. lastID \in Int /\ e.id = lastID + 1
    BY <1>2, EventConstants DEF TypeOK
  <2> QED BY <1>1, <1>5, <1>6, <2>1, <2>2 DEF IdsFresh, IndInv
<1> QED BY <1>1, <1>4, <1>10, <1>11, StoreUntouched, Zenon DEF IndInv

\* A step of an append that stays pending.
LEMMA MirrorStep ==
  ASSUME IndInv, NEW w \in Writer, MirrorRead(w) \/ MirrorWrite(w)
  PROVE  IndInv'
<1>1. TypeOK
  BY Zenon DEF IndInv
<1>2. /\ UNCHANGED <<backend, now, lastID, records, lastRow, cutoff, acked>>
      /\ append[w] # Idle /\ append[w] \in AppendCall
  BY <1>1, Zenon DEF MirrorRead, MirrorWrite, At, TypeOK
<1>3. TypeOK'
  <2>1. CASE MirrorRead(w)
    <3>1. mirror[append[w].event.mac] \in SUBSET Event
      BY <1>1, <1>2, Zenon DEF TypeOK, AppendCall, Event
    <3> QED BY <1>1, <1>2, <2>1, <3>1, Zenon DEF MirrorRead, TypeOK, AppendCall
  <2>2. CASE MirrorWrite(w)
    <3>1. append[w].seen \cup {append[w].event} \in SUBSET Event
      BY <1>2, Zenon DEF AppendCall
    <3> QED BY <1>1, <1>2, <2>2, <3>1, Zenon DEF MirrorWrite, TypeOK, AppendCall
  <2> QED BY <2>1, <2>2, Zenon
<1>4. \A v \in Writer : Pending(v)' => Pending(v) /\ append'[v].event = append[v].event
  BY <1>1, <1>2 DEF MirrorRead, MirrorWrite, Pending, TypeOK, AppendCall
<1>5. AllStamped'
  BY <1>2, <1>4, Zenon DEF IndInv, AllStamped, Stamped
<1>6. IdsFresh'
  BY <1>2, <1>4, Zenon DEF IndInv, IdsFresh
<1> QED BY <1>2, <1>3, <1>5, <1>6, StoreUntouched, Zenon DEF IndInv

LEMMA StoreStep ==
  ASSUME IndInv, NEW w \in Writer, Store(w) \/ StoreFails(w)
  PROVE  IndInv'
<1>1. TypeOK /\ RowsAcked /\ AllStamped /\ IdsFresh /\ EventsRetained /\ HistoryInOrder
  BY Zenon DEF IndInv
<1> PICK e : e = append[w].event
  BY Zenon
<1>2. /\ UNCHANGED <<backend, now, lastID, mirror, cutoff>>
      /\ append' = [append EXCEPT ![w] = Idle] /\ Pending(w) /\ e \in Event
  BY <1>1, Zenon DEF Store, StoreFails, At, Pending, TypeOK, AppendCall
<1>3. \A v \in Writer : Pending(v)' => v # w /\ Pending(v) /\ append'[v] = append[v]
  BY <1>1, <1>2, Zenon DEF Pending, TypeOK
<1>4. Stamped(e) /\ \A a \in acked : a.id # e.id
  BY <1>1, <1>2, Zenon DEF AllStamped, IdsFresh
<1>5. CASE StoreFails(w)
  <2>1. UNCHANGED <<records, lastRow, acked>>
    BY <1>5, Zenon DEF StoreFails
  <2>2. TypeOK'
    BY <1>1, <1>2, <2>1, Zenon DEF TypeOK
  <2>3. AllStamped' /\ IdsFresh'
    BY <1>1, <1>2, <1>3, <2>1 DEF AllStamped, Stamped, IdsFresh
  <2> QED BY <1>2, <2>1, <2>2, <2>3, StoreUntouched, Zenon DEF IndInv
<1>6. CASE Store(w)
  <2> PICK n : n = [event |-> e, row |-> lastRow + 1]
    BY Zenon
  <2>1. records' = records \cup {n} /\ lastRow' = lastRow + 1 /\ acked' = acked \cup {e}
    BY <1>6, Zenon DEF Store
  <2>2. n \in Row /\ n.event = e /\ n.row = lastRow + 1 /\ lastRow \in Nat
    BY <1>1, <1>2 DEF TypeOK, Row
  <2>3. TypeOK'
    BY <1>1, <1>2, <2>1, <2>2 DEF TypeOK
  <2>4. \A r \in records : r.row \in Int /\ r.row <= lastRow /\ r.event \in acked
    BY <1>1 DEF TypeOK, RowsAcked, Row
  <2>5. RowsAcked'
    BY <2>1, <2>2, <2>4 DEF RowsAcked
  <2>6. ASSUME NEW f, Stamped(f) PROVE Stamped(f)' /\ e.id \notin f.before
    <3>1. e.id \notin f.before
      BY <1>4, <2>6, Zenon DEF Stamped
    <3> QED BY <1>2, <2>1, <2>6, <3>1, Zenon DEF Stamped
  <2>7. AllStamped'
    <3>1. \A a \in acked' : Stamped(a)'
      BY <1>1, <1>4, <2>1, <2>6, Zenon DEF AllStamped
    <3>2. ASSUME NEW v \in Writer, Pending(v)' PROVE Stamped(append[v].event)'
      <4> PICK f : f = append[v].event
        BY Zenon
      <4>1. Stamped(f)
        BY <1>1, <1>3, <3>2, Zenon DEF AllStamped
      <4> QED BY <1>3, <2>6, <3>2, <4>1, Zenon DEF Stamped
    <3> QED BY <3>1, <3>2, Zenon DEF AllStamped
  <2>8. IdsFresh'
    BY <1>1, <1>2, <1>3, <2>1 DEF IdsFresh
  <2>9. EventsRetained'
    BY <1>1, <1>2, <2>1, <2>2, Zenon DEF EventsRetained
  <2>10. HistoryInOrder'
    <3> SUFFICES ASSUME NEW r \in records', NEW q \in records', r.event.mac = q.event.mac,
                        r.event.mac \in Mac, r.event.id \in q.event.before
                 PROVE  ListedBefore(r, q)'
      BY Zenon DEF HistoryInOrder, HostEvents
    <3>1. CASE r \in records /\ q \in records
      BY <1>1, <1>2, <3>1, Zenon DEF HistoryInOrder, HostEvents, ListedBefore
    <3>2. CASE q = n /\ r \in records
      <4>1. /\ r.event.at <= e.at /\ r.event.id < e.id /\ r.row < n.row
        BY <1>4, <2>2, <2>4, <3>2 DEF Stamped
      <4>2. r.event \in Event
        BY <1>1, <3>2, Zenon DEF TypeOK, Row
      <4>3. r.event.at \in Int /\ e.at \in Int
        BY <1>2, <4>2, EventConstants DEF Event, Time
      <4> QED BY <1>2, <2>2, <3>2, <4>1, <4>3 DEF ListedBefore
    <3>3. CASE r = n
      <4>1. Stamped(q.event)
        BY <1>1, <1>4, <2>1, <2>2, <2>4, Zenon DEF AllStamped
      <4> QED BY <2>2, <2>6, <3>3, <4>1, Zenon
    <3> QED BY <2>1, <3>1, <3>2, <3>3, Zenon
  <2> QED BY <2>3, <2>5, <2>7, <2>8, <2>9, <2>10, Zenon DEF IndInv
<1> QED BY <1>5, <1>6, Zenon

\* A deletion with a cutoff that is older than the retention.
LEMMA DeleteKeeps ==
  ASSUME IndInv, NEW at, at \in Int, at <= now - Retention,
         records' = Kept(at), UNCHANGED <<backend, now, lastRow, acked>>
  PROVE  RowsAcked' /\ EventsRetained' /\ HistoryInOrder' /\ records' \subseteq Row
<1>1. TypeOK /\ RowsAcked /\ EventsRetained /\ HistoryInOrder /\ records' \subseteq records
  BY Zenon DEF IndInv, Kept
<1>2. RowsAcked' /\ HistoryInOrder' /\ records' \subseteq Row
  BY <1>1, Zenon DEF RowsAcked, HistoryInOrder, HostEvents, ListedBefore, TypeOK
<1>3. EventsRetained'
  <2> SUFFICES ASSUME NEW e \in acked, e.at >= now - Retention
               PROVE  \E r \in records' : r.event = e
    BY Zenon DEF EventsRetained
  <2>1. PICK r \in records : r.event = e
    BY <1>1, Zenon DEF EventsRetained
  <2>2. e.at \in Int /\ now - Retention \in Int
    BY <1>1, EventConstants DEF TypeOK, Event, Time
  <2> QED BY <2>1, <2>2 DEF Kept, Old
<1> QED BY <1>2, <1>3, Zenon

LEMMA SweepStep ==
  ASSUME IndInv, SweepStart \/ SweepDelete \/ SweepFails
  PROVE  IndInv'
<1>1. TypeOK /\ UNCHANGED <<backend, now, lastID, append, mirror, lastRow, acked>>
  BY Zenon DEF IndInv, SweepStart, SweepDelete, SweepFails
<1>2. AllStamped' /\ IdsFresh'
  BY <1>1, Zenon DEF IndInv, AllStamped, Stamped, IdsFresh, Pending
<1>3. CASE SweepDelete
  <2>1. /\ cutoff \in Int /\ cutoff <= now - Retention
        /\ records' = Kept(cutoff) /\ cutoff' = Idle
    BY <1>1, <1>3, EventConstants DEF SweepDelete, TypeOK, Time
  <2>2. RowsAcked' /\ EventsRetained' /\ HistoryInOrder' /\ records' \subseteq Row
    BY <1>1, <2>1, DeleteKeeps, Zenon
  <2>3. TypeOK'
    BY <1>1, <2>1, <2>2, Zenon DEF TypeOK
  <2> QED BY <1>2, <2>2, <2>3, Zenon DEF IndInv
<1>4. CASE SweepStart \/ SweepFails
  <2>1. UNCHANGED records /\ cutoff' \in {now - Retention, Idle}
    BY <1>4, Zenon DEF SweepStart, SweepFails
  <2>2. now - Retention \in -Retention .. now - Retention
    BY <1>1, EventConstants DEF TypeOK, Time
  <2>3. TypeOK'
    BY <1>1, <2>1, <2>2, Zenon DEF TypeOK
  <2> QED BY <1>1, <1>2, <2>1, <2>3, StoreUntouched, Zenon DEF IndInv
<1> QED BY <1>3, <1>4, Zenon

LEMMA TickStep ==
  ASSUME IndInv, Tick
  PROVE  IndInv'
<1>1. /\ TypeOK /\ UNCHANGED <<backend, lastID, append, mirror, records, lastRow, cutoff, acked>>
      /\ now' = now + 1 /\ now < MaxTime /\ now \in Nat
  BY EventConstants DEF IndInv, Tick, TypeOK, Time
<1>2. TypeOK'
  <2>1. now' \in Time
    BY <1>1, EventConstants DEF Time
  <2>2. \A c \in -Retention .. now - Retention : c \in -Retention .. now' - Retention
    BY <1>1, EventConstants
  <2> QED BY <1>1, <2>1, <2>2, Zenon DEF TypeOK
<1>3. \A e \in Event : e.at \in Int
  BY EventConstants DEF Event, Time
<1>4. ASSUME NEW f \in Event, Stamped(f) PROVE Stamped(f)'
  BY <1>1, <1>3, <1>4 DEF Stamped
<1>5. AllStamped'
  <2>1. \A a \in acked : Stamped(a)'
    BY <1>1, <1>4, Zenon DEF IndInv, AllStamped, TypeOK
  <2>2. ASSUME NEW w \in Writer, Pending(w)' PROVE Stamped(append[w].event)'
    <3> PICK f : f = append[w].event
      BY Zenon
    <3>1. f \in Event /\ Stamped(f)
      BY <1>1, <2>2, Zenon DEF IndInv, AllStamped, TypeOK, AppendCall, Pending
    <3> QED BY <1>1, <1>4, <3>1, Zenon DEF Stamped
  <2> QED BY <1>1, <2>1, <2>2, Zenon DEF AllStamped
<1>6. RowsAcked' /\ IdsFresh' /\ HistoryInOrder'
  BY <1>1, Zenon DEF IndInv, RowsAcked, IdsFresh, Pending, HistoryInOrder, HostEvents, ListedBefore
<1>7. EventsRetained'
  <2> SUFFICES ASSUME NEW e \in acked, e.at >= now' - Retention
               PROVE  \E r \in records : r.event = e
    BY <1>1, Zenon DEF EventsRetained
  <2>1. e.at >= now - Retention
    BY <1>1, <1>3, EventConstants DEF TypeOK
  <2> QED BY <2>1, Zenon DEF IndInv, EventsRetained
<1> QED BY <1>2, <1>5, <1>6, <1>7, Zenon DEF IndInv

LEMMA CrashStep ==
  ASSUME IndInv, Crash
  PROVE  IndInv'
<1>1. /\ TypeOK /\ UNCHANGED <<backend, now, lastID>> /\ cutoff' = Idle
      /\ append' = [w \in Writer |-> Idle] /\ mirror' = [m \in Mac |-> {}]
      /\ lastRow' = IF backend = "memory" THEN 0 ELSE lastRow
      /\ acked' = IF backend = "memory" THEN {} ELSE acked
      /\ records' \in IF backend = "memory" THEN {{}}
                      ELSE {Kept(now - Retention)} \cup {r \in {records} : "Sweep" \in Faults}
  BY Zenon DEF IndInv, Crash, Restart
<1>2. \A w \in Writer : ~Pending(w)'
  BY <1>1, Zenon DEF Pending
<1>3. IdsFresh'
  BY <1>2, Zenon DEF IdsFresh
<1>4. RowsAcked' /\ EventsRetained' /\ HistoryInOrder' /\ records' \subseteq Row
  <2>1. CASE backend = "memory"
    BY <1>1, <2>1, Zenon DEF RowsAcked, EventsRetained, HistoryInOrder, HostEvents
  <2>2. CASE backend # "memory" /\ records' = records
    BY <1>1, <2>2, StoreUntouched, Zenon DEF TypeOK
  <2>3. CASE backend # "memory" /\ records' = Kept(now - Retention)
    <3>1. now - Retention \in Int /\ now - Retention <= now - Retention
      BY <1>1, EventConstants DEF TypeOK, Time
    <3> QED BY <1>1, <2>3, <3>1, DeleteKeeps, Zenon
  <2> QED BY <1>1, <2>1, <2>2, <2>3, Zenon
<1>5. AllStamped'
  <2>1. CASE backend = "memory"
    BY <1>1, <1>2, <2>1, Zenon DEF AllStamped
  <2>2. CASE backend # "memory"
    BY <1>1, <1>2, <2>2, Zenon DEF IndInv, AllStamped, Stamped
  <2> QED BY <2>1, <2>2, Zenon
<1>6. TypeOK'
  BY <1>1, <1>4, Zenon DEF TypeOK
<1> QED BY <1>3, <1>4, <1>5, <1>6, Zenon DEF IndInv

\* The strengthening is inductive.
THEOREM EventsInvariance == Spec => []IndInv
<1>1. IndInv /\ [Next]_vars => IndInv'
  <2> SUFFICES ASSUME IndInv, [Next]_vars PROVE IndInv'
    BY Zenon
  <2>1. CASE UNCHANGED vars
    BY <2>1 DEF vars, IndInv, TypeOK, RowsAcked, AllStamped, Stamped, IdsFresh, Pending,
         EventsRetained, HistoryInOrder, HostEvents, ListedBefore
  <2>2. CASE Next
    BY <2>2, StampStep, MirrorStep, StoreStep, SweepStep, TickStep, CrashStep, Zenon DEF Next
  <2> QED BY <2>1, <2>2, Zenon
<1> QED BY <1>1, EventsInit, PTL DEF Spec

\* Every reachable state is typed: in particular no sweep's cutoff is younger
\* than the retention (cleanupEventRetention).
THEOREM EventsTyped == Spec => []TypeOK
BY EventsInvariance, PTL DEF IndInv

\* AppendEvent, DeleteEventsBefore and the sweep at start-up: an acknowledged
\* event stays for its whole retention.
THEOREM NoEventLost == Spec => []EventsRetained
BY EventsInvariance, PTL DEF IndInv

\* ListEvents of both backends: an event that followed another one is listed
\* after it.
THEOREM HistoriesOrdered == Spec => []HistoryInOrder
BY EventsInvariance, PTL DEF IndInv
=============================================================================
