---------------------------- MODULE ManualQueue ----------------------------
(***************************************************************************)
(* What the manual queue promises, one atomic step per request: a host     *)
(* waits for MaxRetry + 1 polls and is then dropped, a selection replaces  *)
(* the wait, the next poll consumes the selection, and only a host that    *)
(* was inactive for longer than ExpireAfter is dropped otherwise.          *)
(***************************************************************************)
EXTENDS Naturals

CONSTANTS Mac, Target, MaxRetry, ExpireAfter, AgeCap, Absent

VARIABLE queue   \* Absent, or a host's selection, polls and idle time

\* selected is empty while the host waits.  Idle times stop at AgeCap.
Entry == [selected : SUBSET Target, polls : 1 .. MaxRetry + 1, idle : 0 .. AgeCap]

Present(m) == queue[m] # Absent
Waits(m) == Present(m) /\ queue[m].selected = {}
Drop(ms) == queue' = [m \in Mac |-> IF m \in ms THEN Absent ELSE queue[m]]

\* A request may take time: it leaves the host at most as idle as it was.
Enqueue(m) ==
  /\ ~Present(m)
  /\ \E d \in 0 .. AgeCap :
       queue' = [queue EXCEPT ![m] = [selected |-> {}, polls |-> 1, idle |-> d]]

Retry(m) ==
  /\ Waits(m) /\ queue[m].polls <= MaxRetry
  /\ \E d \in 0 .. queue[m].idle :
       queue' = [queue EXCEPT ![m] =
                   [selected |-> {}, polls |-> queue[m].polls + 1, idle |-> d]]

Select(m, t) ==
  /\ Present(m)
  /\ \E d \in 0 .. queue[m].idle :
       queue' = [queue EXCEPT ![m] =
                   [selected |-> {t}, polls |-> queue[m].polls, idle |-> d]]

GiveUp(m) == Waits(m) /\ queue[m].polls = MaxRetry + 1 /\ Drop({m})

Boot(m) == Present(m) /\ ~Waits(m) /\ Drop({m})

Expire(ms) ==
  /\ \A m \in ms : Present(m) /\ queue[m].idle > ExpireAfter
  /\ Drop(ms)

Tick ==
  queue' = [m \in Mac |-> IF Present(m) /\ queue[m].idle < AgeCap
                            THEN [queue[m] EXCEPT !.idle = @ + 1] ELSE queue[m]]

Init == queue = [m \in Mac |-> Absent]

Next ==
  \/ \E m \in Mac : Enqueue(m) \/ Retry(m) \/ GiveUp(m) \/ Boot(m)
  \/ \E m \in Mac, t \in Target : Select(m, t)
  \/ \E ms \in SUBSET Mac : Expire(ms)
  \/ Tick

Spec == Init /\ [][Next]_queue
=============================================================================
