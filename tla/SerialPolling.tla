--------------------------- MODULE SerialPolling ---------------------------
(***************************************************************************)
(* The polling service when the requests of one host come one after the    *)
(* other, as they do for a single iPXE client that waits for each answer   *)
(* and an operator who looks at the page it got.  The server does not      *)
(* enforce it; under it the handlers behave as one atomic step each.       *)
(***************************************************************************)
EXTENDS Polling

\* At most one request per host, and no sweep while one is served.
Serial ==
  /\ \A p, q \in Poller :
       poll[p] # Idle /\ poll[q] # Idle /\ poll[p].mac = poll[q].mac => p = q
  /\ \A o, u \in Operator :
       update[o] # Idle /\ update[u] # Idle /\ update[o].mac = update[u].mac => o = u
  /\ \A p \in Poller, o \in Operator :
       poll[p] # Idle /\ update[o] # Idle => poll[p].mac # update[o].mac
  /\ sweep # Idle => \A m \in Mac : Quiet(m)

SerialSpec == Init /\ [][Next /\ Serial']_vars

\* A stored state as the queue sees it.
QueueEntry(s) ==
  IF s = NoState THEN NoState
  ELSE [selected |-> {s.target} \ {InitTarget}, polls |-> s.retry, idle |-> s.age]

Entries == [m \in Mac |-> QueueEntry(store[m])]

Queue == INSTANCE ManualQueue WITH Absent <- NoState, queue <- Entries

\* The absent value is no entry of the queue either.
ASSUME AbsentAssumption == NoState \notin Queue!Entry

\* Without overlap the handlers implement the atomic queue: no poll is counted
\* twice or lost, the timeout comes exactly after maxRetry + 1 polls, and only
\* an inactive host expires (Poll, UpdateTarget and CleanExpiredStates).
ImplementsQueue == Queue!Spec

-----------------------------------------------------------------------------
(* What the proofs rest on *)

\* What a request in flight read is still what the store holds: nobody else
\* touched the host, and both grew older together.
PollInTouch(r) ==
  LET s == store[r.mac]
  IN  /\ r.at = "QueueServer" =>
           s = NoState /\ r.state # NoState /\ r.state.retry = 1
      /\ r.at = "SaveRetry" =>
           /\ s # NoState /\ s.target = InitTarget /\ s.retry <= MaxRetry
           /\ r.state # NoState /\ r.state.retry = s.retry + 1
           /\ r.state.age <= s.age
      /\ r.at = "DeleteSelected" =>
           s # NoState /\ s.target = r.target /\ r.how = "manual"
      /\ r.at = "DeleteTimedOut" =>
           s # NoState /\ s.target = InitTarget /\ s.retry = MaxRetry + 1

UpdateInTouch(r) ==
  LET s == store[r.mac]
  IN  r.at # "GetState" =>
        s # NoState /\ r.state.retry = s.retry /\ r.state.age <= s.age

\* The inductive invariant behind ImplementsQueue.
InTouch ==
  /\ Serial
  /\ \A p \in Poller : poll[p] # Idle => PollInTouch(poll[p])
  /\ \A o \in Operator : update[o] # Idle => UpdateInTouch(update[o])

\* A poll that took m's selection out of the store and is about to deliver it.
Delivering(p, m) ==
  /\ poll[p] # Idle /\ poll[p].mac = m
  /\ poll[p].at \in {"HostBoot", "CreateSession", "Render"}
  /\ poll[p].how = "manual" /\ poll[p].target = owed[m]

\* The inductive invariant behind SelectionKept: a selection that is owed is in
\* the store or on its way.
OwedInHand ==
  \A m \in Mac : owed[m] # InitTarget =>
    \/ store[m] # NoState /\ store[m].target = owed[m]
    \/ \E p \in Poller : Delivering(p, m)

\* No call fails, and the process does not stop, after DeleteState has taken
\* the selection out of the store.
NoLateFaults == Faults \cap {"AppendEvent", "CreateSession", "Render", "Crash"} = {}
=============================================================================
