----------------------------- MODULE EventLog ------------------------------
(***************************************************************************)
(* The event history.  AppendEvent stamps an event, writes it to the       *)
(* in-memory mirror of event.Log without a lock, and then to the store, so *)
(* the appends of concurrent requests interleave.  The retention cleaner   *)
(* and every start of the server delete old events from the store.         *)
(***************************************************************************)
EXTENDS Integers

CONSTANTS
  Mac,         \* hosts
  Writer,      \* goroutines inside AppendEvent
  Retention,   \* persistence.retention.events, in ticks
  MaxTime,     \* bound of the clock
  MaxEvents,   \* bound of the number of events
  Faults,      \* "Append", "Sweep", "Crash"
  Idle

ASSUME EventConstants ==
  /\ Retention \in Nat \ {0} /\ MaxTime \in Nat /\ MaxEvents \in Nat
  /\ Idle \notin Int

Time == 0 .. MaxTime

\* persistence.EventRecord.  before (history): the events whose append had
\* returned when this one was stamped.
Event == [id : 1 .. MaxEvents, at : Time, mac : Mac, before : SUBSET (1 .. MaxEvents)]

\* step: what AppendEvent does next; seen: the host's mirror as it was read.
AppendCall == [event : Event, step : {"read", "write", "store"}, seen : SUBSET Event]

\* A stored event; row: its place in the order of insertion.
Row == [event : Event, row : Nat]

ASSUME EventSentinels == Idle \notin AppendCall

VARIABLES
  backend,  \* persistence.backend, "sqlite" or "memory": read once, at start
  now,      \* the clock
  lastID,   \* the last ULID drawn: ULIDs increase
  append,   \* what each writer is appending
  mirror,   \* Log.Events, for each host
  records,  \* the store's events
  lastRow,  \* the last row inserted
  cutoff,   \* the cutoff of the running sweep, or Idle
  acked     \* history: the events whose append returned without error

vars == <<backend, now, lastID, append, mirror, records, lastRow, cutoff, acked>>

Init ==
  /\ backend \in {"sqlite", "memory"}
  /\ now = 0 /\ lastID = 0
  /\ append = [w \in Writer |-> Idle]
  /\ mirror = [m \in Mac |-> {}]
  /\ records = {} /\ lastRow = 0
  /\ cutoff = Idle
  /\ acked = {}

-----------------------------------------------------------------------------
At(w, s) == append[w] # Idle /\ append[w].step = s

\* newWithID: the event gets its id and time before anything is locked.
Stamp(w, m) ==
  /\ append[w] = Idle /\ lastID < MaxEvents
  /\ lastID' = lastID + 1
  /\ append' = [append EXCEPT ![w] =
       [event |-> [id |-> lastID + 1, at |-> now, mac |-> m,
                   before |-> {e.id : e \in acked}],
        step |-> "read", seen |-> {}]]
  /\ UNCHANGED <<backend, now, mirror, records, lastRow, cutoff, acked>>

\* el.Events[mac] = append(el.Events[mac], event): a read and a write of a map
\* that other goroutines write too.
MirrorRead(w) ==
  /\ At(w, "read")
  /\ append' = [append EXCEPT ![w].step = "write", ![w].seen = mirror[append[w].event.mac]]
  /\ UNCHANGED <<backend, now, lastID, mirror, records, lastRow, cutoff, acked>>

MirrorWrite(w) ==
  /\ At(w, "write")
  /\ mirror' = [mirror EXCEPT ![append[w].event.mac] = append[w].seen \cup {append[w].event}]
  /\ append' = [append EXCEPT ![w].step = "store"]
  /\ UNCHANGED <<backend, now, lastID, records, lastRow, cutoff, acked>>

\* Mutant: an append whose insertion failed is reported as a success.
Store_ErrorLost(w) ==
  /\ At(w, "store")
  /\ records' \in {records, records \cup {[event |-> append[w].event, row |-> lastRow + 1]}}
  /\ lastRow' = lastRow + 1
  /\ acked' = acked \cup {append[w].event}
  /\ append' = [append EXCEPT ![w] = Idle]
  /\ UNCHANGED <<backend, now, lastID, mirror, cutoff>>

\* commands.AppendEvent inserts the record.
Store(w) ==
  /\ At(w, "store")
  /\ records' = records \cup {[event |-> append[w].event, row |-> lastRow + 1]}
  /\ lastRow' = lastRow + 1
  /\ acked' = acked \cup {append[w].event}
  /\ append' = [append EXCEPT ![w] = Idle]
  /\ UNCHANGED <<backend, now, lastID, mirror, cutoff>>

\* The insertion fails (the database is locked, the disk is full):
\* the event stays in the mirror.
StoreFails(w) ==
  /\ At(w, "store") /\ "Append" \in Faults
  /\ append' = [append EXCEPT ![w] = Idle]
  /\ UNCHANGED <<backend, now, lastID, mirror, records, lastRow, cutoff, acked>>

-----------------------------------------------------------------------------
\* Mutant: nothing is ever old enough.
Old_Never(e, at) == FALSE

\* DeleteEventsBefore's condition, in both backends.
Old(e, at) == e.at < at

Kept(at) == {r \in records : ~Old(r.event, at)}

\* Mutant: the retention is not subtracted.
SweepStart_NoRetention ==
  /\ cutoff = Idle
  /\ cutoff' = now
  /\ UNCHANGED <<backend, now, lastID, append, mirror, records, lastRow, acked>>

\* cleanupEventRetention takes its cutoff, then deletes; the mirror is left.
SweepStart ==
  /\ cutoff = Idle
  /\ cutoff' = now - Retention
  /\ UNCHANGED <<backend, now, lastID, append, mirror, records, lastRow, acked>>

SweepDelete ==
  /\ cutoff # Idle
  /\ records' = Kept(cutoff)
  /\ cutoff' = Idle
  /\ UNCHANGED <<backend, now, lastID, append, mirror, lastRow, acked>>

SweepFails ==
  /\ cutoff # Idle /\ "Sweep" \in Faults
  /\ cutoff' = Idle
  /\ UNCHANGED <<backend, now, lastID, append, mirror, records, lastRow, acked>>

Tick ==
  /\ now < MaxTime
  /\ now' = now + 1
  /\ UNCHANGED <<backend, lastID, append, mirror, records, lastRow, cutoff, acked>>

\* The process ends and starts again: the mirror is empty, the memory backend
\* too, and the SQLite backend is swept, unless that fails.
Restart ==
  /\ append' = [w \in Writer |-> Idle]
  /\ mirror' = [m \in Mac |-> {}]
  /\ records' \in IF backend = "memory" THEN {{}}
                  ELSE {Kept(now - Retention)} \cup {r \in {records} : "Sweep" \in Faults}
  /\ lastRow' = IF backend = "memory" THEN 0 ELSE lastRow
  /\ acked' = IF backend = "memory" THEN {} ELSE acked
  /\ cutoff' = Idle
  /\ UNCHANGED <<backend, now, lastID>>

\* The process is killed, or the runtime notices two goroutines inside the
\* unlocked map write and ends it ("concurrent map writes").
Crash ==
  /\ \/ "Crash" \in Faults
     \/ \E v, w \in Writer : v # w /\ At(v, "write") /\ At(w, "write")
  /\ Restart

Next ==
  \/ \E w \in Writer, m \in Mac : Stamp(w, m)
  \/ \E w \in Writer : MirrorRead(w) \/ MirrorWrite(w) \/ Store(w) \/ StoreFails(w)
  \/ SweepStart \/ SweepDelete \/ SweepFails
  \/ Tick
  \/ Crash

Spec == Init /\ [][Next]_vars

\* The cleaner's ticker fires again and again, a sweep runs to its end, and the
\* deletion does not fail (nor the process stop in it) every single time.
FairSpec == Spec /\ WF_vars(SweepStart) /\ SF_vars(SweepDelete)

-----------------------------------------------------------------------------
\* Mutant: SQLite lists the newest event first.
ListedBefore_Newest(r, q) ==
  IF backend = "memory" THEN r.row < q.row
  ELSE \/ r.event.at > q.event.at
       \/ r.event.at = q.event.at /\ r.event.id > q.event.id

\* ListEvents: SQLite orders by time and id, memory keeps the insertion order.
ListedBefore(r, q) ==
  IF backend = "memory" THEN r.row < q.row
  ELSE \/ r.event.at < q.event.at
       \/ r.event.at = q.event.at /\ r.event.id < q.event.id

\* Log.ListEvents groups the listing by host.
HostEvents(m) == {r \in records : r.event.mac = m}

(* Properties *)

\* Type correctness; no sweep has a cutoff younger than the retention.
TypeOK ==
  /\ backend \in {"sqlite", "memory"}
  /\ now \in Time /\ lastID \in 0 .. MaxEvents
  /\ append \in [Writer -> AppendCall \cup {Idle}]
  /\ mirror \in [Mac -> SUBSET Event]
  /\ records \subseteq Row /\ lastRow \in Nat
  /\ cutoff \in (-Retention .. now - Retention) \cup {Idle}
  /\ acked \subseteq Event

\* An append that succeeded is in the history for the whole retention, whatever
\* races the mirror, whichever other append fails and however often the server
\* restarts or sweeps (docs/persistence.md: a restart does not lose events).
EventsRetained ==
  \A e \in acked : e.at >= now - Retention => \E r \in records : r.event = e

\* A host's history respects what its clients saw: an event appended after
\* another append had returned is listed after it, in both backends.
HistoryInOrder ==
  \A m \in Mac : \A r, q \in HostEvents(m) :
    r.event.id \in q.event.before => ListedBefore(r, q)

\* Old events do not pile up in the store: each is deleted in the end, without
\* a restart (eventsSweepInterval).
OldEventsDeleted ==
  \A i \in 1 .. MaxEvents :
    (\E r \in records : r.event.id = i /\ r.event.at < now - Retention)
      ~> ~(\E r \in records : r.event.id = i)
=============================================================================
