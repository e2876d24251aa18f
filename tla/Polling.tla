------------------------------ MODULE Polling ------------------------------
(***************************************************************************)
(* The polling service: hosts that poll for a boot script, operators that  *)
(* select a target for a waiting host, and the cleaner that drops inactive *)
(* hosts, all working on one server-state store keyed by MAC address.      *)
(*                                                                         *)
(* Every HTTP request runs on a goroutine of its own and nothing is locked *)
(* across two calls of the store, so a handler is modelled as one action   *)
(* per call: what it has read so far is kept in poll[p] or update[o] and   *)
(* may be stale when it is used.  The store is the persistent one          *)
(* (server.PersistentStateStore over SQLite), which survives a restart.    *)
(*                                                                         *)
(* Data: a target stands for the script, environment, params, users and    *)
(* provisioning it resolves to; Hostname for the identity (IP and host     *)
(* name) a request reports.  LastAccess is modelled by the age of a state, *)
(* now - LastAccess, so that time needs no bound.                          *)
(***************************************************************************)
EXTENDS Naturals, FiniteSets

CONSTANTS
  Mac,          \* MAC addresses of the hosts
  Hostname,     \* identities a poll may report for one MAC
  Target,       \* targets of mappings.yaml
  InitTarget,   \* server.InitTarget: no target selected
  Poller,       \* goroutines that may serve /poll at the same time
  Operator,     \* goroutines that may serve /update/target
  Policy,       \* what the resolver answers for a MAC and an identity
  MaxRetry,     \* polling.maxRetry
  ExpireAfter,  \* server.StateExpireAfter, in ticks
  MaxLag,       \* bound: ticks between a sweep's cutoff and its delete
  Faults,       \* calls that may fail; "Crash" if the process may stop
  NoState,      \* a MAC without a state
  Idle          \* a goroutine that serves no request

ASSUME ConstantsAssumption ==
  /\ MaxRetry \in Nat /\ ExpireAfter \in Nat /\ MaxLag \in Nat
  /\ InitTarget \notin Target
  /\ Policy \in [Mac \X Hostname ->
                   [auto : Target \cup {InitTarget}, allowed : SUBSET Target]]
  /\ \A m \in Mac, h \in Hostname :
       Policy[<<m, h>>].auto # InitTarget
         => Policy[<<m, h>>].auto \in Policy[<<m, h>>].allowed

-----------------------------------------------------------------------------
(* State *)

TargetOrInit == Target \cup {InitTarget}

\* Ages beyond this one all count as expired, for every cutoff.
AgeCap == ExpireAfter + MaxLag + 1

\* server.State; age counts the ticks since LastAccess.
ServerState == [host : Hostname, allowed : SUBSET Target, target : TargetOrInit,
                retry : 1 .. MaxRetry + 1, age : 0 .. AgeCap]
StateOrNone == ServerState \cup {NoState}

\* The call of the store or of the renderer that a poll makes next.
PollStep == {"GetState", "QueueServer", "SaveRetry", "DeleteSelected",
             "DeleteTimedOut", "HostPoll", "HostBoot", "CreateSession",
             "Render"}

PollRequest == [at : PollStep, mac : Mac, host : Hostname,
                how : {"auto", "manual"}, target : TargetOrInit,
                state : StateOrNone]

UpdateRequest == [at : {"GetState", "UserSelection", "SaveState"},
                  mac : Mac, target : Target, host : Hostname,
                  state : StateOrNone]

EventType == {"HostPoll", "UserSelection", "HostBoot", "HostTimeout"}

Event == [type : EventType, mac : Mac, target : TargetOrInit,
          how : {"none", "auto", "manual"}]

\* The absent values differ from the records they stand beside.
ASSUME SentinelsAssumption ==
  /\ NoState \notin ServerState
  /\ Idle \notin PollRequest /\ Idle \notin UpdateRequest /\ Idle \notin Nat

VARIABLES
  store,      \* the server state of every MAC, or NoState
  log,        \* the persisted events, as the set of what happened
  sessions,   \* the boot sessions created: MAC and target of the snapshot
  poll,       \* the request each poller serves
  update,     \* the request each operator goroutine serves
  sweep,      \* Idle, or the ticks since the running sweep took its cutoff
  delivered,  \* history: boot scripts written to hosts
  owed        \* history: selection acknowledged, not yet delivered or expired

persisted == <<store, log, sessions>>
history == <<delivered, owed>>
vars == <<store, log, sessions, poll, update, sweep, delivered, owed>>

Init ==
  /\ store = [m \in Mac |-> NoState]
  /\ log = {}
  /\ sessions = {}
  /\ poll = [p \in Poller |-> Idle]
  /\ update = [o \in Operator |-> Idle]
  /\ sweep = Idle
  /\ delivered = {}
  /\ owed = [m \in Mac |-> InitTarget]

-----------------------------------------------------------------------------
(* Helpers *)

\* QueueServer's new state: waiting, with the choices the resolver allows.
QueuedState(m, h) ==
  [host |-> h, allowed |-> Policy[<<m, h>>].allowed, target |-> InitTarget,
   retry |-> 1, age |-> 0]

\* Mutant: the poll is not counted.
RetriedState_NotCounted(s) == [s EXCEPT !.age = 0]

\* chooseManualAction counts the poll and notes the access.
RetriedState(s) == [s EXCEPT !.retry = @ + 1, !.age = 0]

\* UpdateTarget's changes to the state it read: the retry count and the
\* allowed targets stay, the host name becomes the resolved one.
SelectedState(s, t, h) == [s EXCEPT !.target = t, !.host = h, !.age = 0]

\* Mutants: the count is compared one too late, or one too early.
OutOfRetries_Late(s) == s.retry > MaxRetry + 1
OutOfRetries_Early(s) == s.retry >= MaxRetry

OutOfRetries(s) == s.retry > MaxRetry

HostPollEvent(m) ==
  [type |-> "HostPoll", mac |-> m, target |-> InitTarget, how |-> "none"]
SelectionEvent(m, t) ==
  [type |-> "UserSelection", mac |-> m, target |-> t, how |-> "none"]
BootEvent(m, t, how) ==
  [type |-> "HostBoot", mac |-> m, target |-> t, how |-> how]

\* The poll continues at another call, or answers and is over.
PollAt(p, step) == poll' = [poll EXCEPT ![p].at = step]
PollOver(p) == poll' = [poll EXCEPT ![p] = Idle]
UpdateOver(o) == update' = [update EXCEPT ![o] = Idle]

-----------------------------------------------------------------------------
(* Poll *)

\* Poll resolves the reported identity.  A policy with a default target boots
\* without looking at the server state; any other goes to manualAction.
PollStart(p, m, h) ==
  /\ poll[p] = Idle
  /\ LET auto == Policy[<<m, h>>].auto
     IN  poll' = [poll EXCEPT ![p] =
                    [at |-> IF auto = InitTarget THEN "GetState" ELSE "HostBoot",
                     mac |-> m, host |-> h, target |-> auto,
                     how |-> IF auto = InitTarget THEN "manual" ELSE "auto",
                     state |-> NoState]]
  /\ UNCHANGED <<persisted, update, sweep, history>>

\* Mutant: the retries are looked at before the selection.
PollChoice_RetriesFirst(r, s) ==
  IF s = NoState
    THEN [r EXCEPT !.at = "QueueServer", !.state = QueuedState(r.mac, r.host)]
  ELSE IF OutOfRetries(s)
    THEN [r EXCEPT !.at = "DeleteTimedOut"]
  ELSE IF s.target # InitTarget
    THEN [r EXCEPT !.at = "DeleteSelected", !.target = s.target]
  ELSE [r EXCEPT !.at = "SaveRetry", !.state = RetriedState(s)]

\* chooseManualAction after GetState: the branch is chosen on what was read.
PollChoice(r, s) ==
  IF s = NoState
    THEN [r EXCEPT !.at = "QueueServer", !.state = QueuedState(r.mac, r.host)]
  ELSE IF s.target # InitTarget
    THEN [r EXCEPT !.at = "DeleteSelected", !.target = s.target]
  ELSE IF ~OutOfRetries(s)
    THEN [r EXCEPT !.at = "SaveRetry", !.state = RetriedState(s)]
  ELSE [r EXCEPT !.at = "DeleteTimedOut"]

PollGetState(p) ==
  /\ poll[p] # Idle /\ poll[p].at = "GetState"
  /\ poll' = [poll EXCEPT ![p] = PollChoice(poll[p], store[poll[p].mac])]
  /\ UNCHANGED <<persisted, update, sweep, history>>

\* A host that was not known: queue it, then record the poll.
PollQueueServer(p) ==
  /\ poll[p] # Idle /\ poll[p].at = "QueueServer"
  /\ store' = [store EXCEPT ![poll[p].mac] = poll[p].state]
  /\ PollAt(p, "HostPoll")
  /\ UNCHANGED <<log, sessions, update, sweep, history>>

\* An error of this append is only logged: the host is told to retry anyway.
PollHostPoll(p) ==
  /\ poll[p] # Idle /\ poll[p].at = "HostPoll"
  /\ \/ log' = log \cup {HostPollEvent(poll[p].mac)}
     \/ "AppendEvent" \in Faults /\ log' = log
  /\ PollOver(p)
  /\ UNCHANGED <<store, sessions, update, sweep, history>>

\* A waiting host: save the state as read, counted once more, and tell the
\* host to retry.
PollSaveRetry(p) ==
  /\ poll[p] # Idle /\ poll[p].at = "SaveRetry"
  /\ store' = [store EXCEPT ![poll[p].mac] = poll[p].state]
  /\ PollOver(p)
  /\ UNCHANGED <<log, sessions, update, sweep, history>>

\* Out of retries: drop the state and send the timeout script.  No event.
PollDeleteTimedOut(p) ==
  /\ poll[p] # Idle /\ poll[p].at = "DeleteTimedOut"
  /\ store' = [store EXCEPT ![poll[p].mac] = NoState]
  /\ PollOver(p)
  /\ UNCHANGED <<log, sessions, update, sweep, history>>

\* A selection was read: the state goes before the script is produced.
PollDeleteSelected(p) ==
  /\ poll[p] # Idle /\ poll[p].at = "DeleteSelected"
  /\ store' = [store EXCEPT ![poll[p].mac] = NoState]
  /\ PollAt(p, "HostBoot")
  /\ UNCHANGED <<log, sessions, update, sweep, history>>

\* Mutant: an error of the append is only logged, as it is for HostPoll.
PollHostBoot_ErrorLogged(p) ==
  /\ poll[p] # Idle /\ poll[p].at = "HostBoot"
  /\ \/ log' = log \cup {BootEvent(poll[p].mac, poll[p].target, poll[p].how)}
     \/ "AppendEvent" \in Faults /\ log' = log
  /\ PollAt(p, "CreateSession")
  /\ UNCHANGED <<store, sessions, update, sweep, history>>

PollHostBoot(p) ==
  /\ poll[p] # Idle /\ poll[p].at = "HostBoot"
  /\ log' = log \cup {BootEvent(poll[p].mac, poll[p].target, poll[p].how)}
  /\ PollAt(p, "CreateSession")
  /\ UNCHANGED <<store, sessions, update, sweep, history>>

PollCreateSession(p) ==
  /\ poll[p] # Idle /\ poll[p].at = "CreateSession"
  /\ sessions' = sessions \cup {[mac |-> poll[p].mac, target |-> poll[p].target]}
  /\ PollAt(p, "Render")
  /\ UNCHANGED <<store, log, update, sweep, history>>

\* The rendered boot script is the answer.
PollRender(p) ==
  /\ poll[p] # Idle /\ poll[p].at = "Render"
  /\ LET r == poll[p]
     IN  /\ delivered' = delivered
              \cup {[mac |-> r.mac, target |-> r.target, how |-> r.how]}
         /\ owed' = IF r.how = "manual" /\ owed[r.mac] = r.target
                      THEN [owed EXCEPT ![r.mac] = InitTarget] ELSE owed
  /\ PollOver(p)
  /\ UNCHANGED <<persisted, update, sweep>>

\* The call a poll is at fails: the host gets an error, what was done stays.
FaultAt == [s \in PollStep |->
  CASE s = "GetState" -> "GetState"
    [] s \in {"QueueServer", "SaveRetry"} -> "SaveState"
    [] s \in {"DeleteSelected", "DeleteTimedOut"} -> "DeleteState"
    [] s \in {"HostPoll", "HostBoot"} -> "AppendEvent"
    [] s = "CreateSession" -> "CreateSession"
    [] s = "Render" -> "Render"]

PollFails(p) ==
  /\ poll[p] # Idle /\ poll[p].at # "HostPoll"
  /\ FaultAt[poll[p].at] \in Faults
  /\ PollOver(p)
  /\ UNCHANGED <<persisted, update, sweep, history>>

PollStepOf(p) ==
  \/ PollGetState(p) \/ PollQueueServer(p) \/ PollHostPoll(p)
  \/ PollSaveRetry(p) \/ PollDeleteTimedOut(p) \/ PollDeleteSelected(p)
  \/ PollHostBoot(p) \/ PollCreateSession(p) \/ PollRender(p)
  \/ PollFails(p)

-----------------------------------------------------------------------------
(* UpdateTarget *)

\* An operator posts target t for m; h is the host name the request resolves
\* to (a posted parameter, or the generated one).
UpdateStart(o, m, t, h) ==
  /\ update[o] = Idle
  /\ update' = [update EXCEPT ![o] =
       [at |-> "GetState", mac |-> m, target |-> t, host |-> h,
        state |-> NoState]]
  /\ UNCHANGED <<persisted, poll, sweep, history>>

\* Mutant: the policy's list is not consulted.
UpdateAccepts_AnyTarget(r, s) == s # NoState

\* The MAC must be waiting or selected, and its stored identity must allow
\* the target; anything else is refused.
UpdateAccepts(r, s) ==
  s # NoState /\ r.target \in Policy[<<r.mac, s.host>>].allowed

UpdateGetState(o) ==
  /\ update[o] # Idle /\ update[o].at = "GetState"
  /\ LET s == store[update[o].mac]
     IN  IF UpdateAccepts(update[o], s)
           THEN update' = [update EXCEPT ![o].at = "UserSelection", ![o].state = s]
           ELSE UpdateOver(o)
  /\ UNCHANGED <<persisted, poll, sweep, history>>

\* Mutant: an error of the append is only logged.
UpdateUserSelection_ErrorLogged(o) ==
  /\ update[o] # Idle /\ update[o].at = "UserSelection"
  /\ \/ log' = log \cup {SelectionEvent(update[o].mac, update[o].target)}
     \/ "AppendEvent" \in Faults /\ log' = log
  /\ update' = [update EXCEPT ![o].at = "SaveState",
       ![o].state = SelectedState(@, update[o].target, update[o].host)]
  /\ UNCHANGED <<store, sessions, poll, sweep, history>>

\* The selection is recorded before it is saved.
UpdateUserSelection(o) ==
  /\ update[o] # Idle /\ update[o].at = "UserSelection"
  /\ log' = log \cup {SelectionEvent(update[o].mac, update[o].target)}
  /\ update' = [update EXCEPT ![o].at = "SaveState",
       ![o].state = SelectedState(@, update[o].target, update[o].host)]
  /\ UNCHANGED <<store, sessions, poll, sweep, history>>

\* Saved: the operator is redirected, the selection is acknowledged.
UpdateSaveState(o) ==
  /\ update[o] # Idle /\ update[o].at = "SaveState"
  /\ store' = [store EXCEPT ![update[o].mac] = update[o].state]
  /\ owed' = [owed EXCEPT ![update[o].mac] = update[o].target]
  /\ UpdateOver(o)
  /\ UNCHANGED <<log, sessions, poll, sweep, delivered>>

\* GetState, resolving, the trial render, AppendEvent or SaveState fails.
UpdateFails(o) ==
  /\ update[o] # Idle
  /\ \/ update[o].at = "GetState" /\ Faults \cap {"GetState", "Resolve", "Render"} # {}
     \/ update[o].at = "UserSelection" /\ "AppendEvent" \in Faults
     \/ update[o].at = "SaveState" /\ "SaveState" \in Faults
  /\ UpdateOver(o)
  /\ UNCHANGED <<persisted, poll, sweep, history>>

UpdateStepOf(o) ==
  \/ UpdateGetState(o) \/ UpdateUserSelection(o) \/ UpdateSaveState(o)
  \/ UpdateFails(o)

-----------------------------------------------------------------------------
(* The cleaner, time, and a restart *)

\* The cleaner wakes up, takes its cutoff and lists the waiting hosts.
CleanStart ==
  /\ sweep = Idle
  /\ sweep' = 0
  /\ UNCHANGED <<persisted, poll, update, history>>

\* LastAccess < cutoff, selected states included.
Expired(s) == s # NoState /\ s.age > ExpireAfter + sweep

CleanDelete ==
  /\ sweep # Idle
  /\ store' = [m \in Mac |-> IF Expired(store[m]) THEN NoState ELSE store[m]]
  /\ owed' = [m \in Mac |-> IF Expired(store[m]) THEN InitTarget ELSE owed[m]]
  /\ sweep' = Idle
  /\ UNCHANGED <<log, sessions, poll, update, delivered>>

\* ListWaiting or DeleteStatesBefore fails: nothing is removed this time.
CleanFails ==
  /\ sweep # Idle /\ "Clean" \in Faults
  /\ sweep' = Idle
  /\ UNCHANGED <<persisted, poll, update, history>>

Aged(s) == IF s = NoState \/ s.age >= AgeCap THEN s ELSE [s EXCEPT !.age = @ + 1]

Tick ==
  /\ sweep # Idle => sweep < MaxLag
  /\ sweep' = IF sweep = Idle THEN Idle ELSE sweep + 1
  /\ store' = [m \in Mac |-> Aged(store[m])]
  /\ poll' = [p \in Poller |-> IF poll[p] = Idle THEN Idle
                ELSE [poll[p] EXCEPT !.state = Aged(@)]]
  /\ update' = [o \in Operator |-> IF update[o] = Idle THEN Idle
                  ELSE [update[o] EXCEPT !.state = Aged(@)]]
  /\ UNCHANGED <<log, sessions, history>>

\* The server has no graceful shutdown: stopping it drops what is in flight,
\* and the next process starts from what was persisted.
Restart ==
  /\ "Crash" \in Faults
  /\ poll' = [p \in Poller |-> Idle]
  /\ update' = [o \in Operator |-> Idle]
  /\ sweep' = Idle
  /\ UNCHANGED <<persisted, history>>

-----------------------------------------------------------------------------
Next ==
  \/ \E p \in Poller, m \in Mac, h \in Hostname : PollStart(p, m, h)
  \/ \E p \in Poller : PollStepOf(p)
  \/ \E o \in Operator, m \in Mac, t \in Target, h \in Hostname :
       UpdateStart(o, m, t, h)
  \/ \E o \in Operator : UpdateStepOf(o)
  \/ CleanStart \/ CleanDelete \/ CleanFails
  \/ Tick
  \/ Restart

Spec == Init /\ [][Next]_vars

\* A started handler keeps running, the cleaner wakes up again and again, and
\* time passes.  Nothing makes a host poll or an operator select.
Fairness ==
  /\ \A p \in Poller : WF_vars(PollStepOf(p))
  /\ \A o \in Operator : WF_vars(UpdateStepOf(o))
  /\ WF_vars(CleanStart) /\ WF_vars(CleanDelete)
  /\ WF_vars(Tick)

FairSpec == Spec /\ Fairness

-----------------------------------------------------------------------------
(* Properties *)

\* Type correctness.  The retry count of a stored or pending state never
\* exceeds maxRetry + 1, whatever polls overlap (chooseManualAction counts
\* only a state that still has retries).
TypeOK ==
  /\ store \in [Mac -> StateOrNone]
  /\ log \subseteq Event
  /\ sessions \subseteq [mac : Mac, target : Target]
  /\ poll \in [Poller -> PollRequest \cup {Idle}]
  /\ update \in [Operator -> UpdateRequest \cup {Idle}]
  /\ sweep \in 0 .. MaxLag \cup {Idle}
  /\ delivered \subseteq [mac : Mac, target : Target, how : {"auto", "manual"}]
  /\ owed \in [Mac -> TargetOrInit]

\* A boot script that reached a host has its whole trail on record, however
\* requests overlap, calls fail or the process restarts: the HostBoot event,
\* the boot session its ref resolves to and, for a manual boot, the operator's
\* UserSelection event of that very target (manualAction and genBootScript
\* append and create before they render; UpdateTarget appends before it saves).
AuditTrail ==
  \A d \in delivered :
    /\ BootEvent(d.mac, d.target, d.how) \in log
    /\ [mac |-> d.mac, target |-> d.target] \in sessions
    /\ d.how = "manual" => SelectionEvent(d.mac, d.target) \in log

\* A host only ever gets a target that the resolver approves for an identity
\* it reported or was given: neither a stale read nor a save that brings a
\* dropped state back lets another target through.
DeliveredAllowed ==
  \A d \in delivered :
    \E h \in Hostname : d.target \in Policy[<<d.mac, h>>].allowed

Approved(m, t) == \E h \in Hostname : t \in Policy[<<m, h>>].allowed
Chosen(m, t) == SelectionEvent(m, t) \in log /\ Approved(m, t)

\* What a request in flight knows: a poll that boots a manual target carries a
\* recorded selection, and each later call finds the earlier ones on record.
PollKnows(r) ==
  /\ r.state # NoState => r.state.target = InitTarget
  /\ r.at = "GetState" => r.how = "manual"
  /\ r.at \in {"DeleteSelected", "HostBoot", "CreateSession", "Render"}
       => /\ r.target \in Target
          /\ Approved(r.mac, r.target)
          /\ r.how = "manual" => Chosen(r.mac, r.target)
  /\ r.at \in {"CreateSession", "Render"} => BootEvent(r.mac, r.target, r.how) \in log
  /\ r.at = "Render" => [mac |-> r.mac, target |-> r.target] \in sessions

\* An update that passed GetState holds an approved target and a state whose
\* earlier selection, if any, is recorded; at the save its own one is.
UpdateKnows(r) ==
  /\ r.at # "GetState" => r.state # NoState /\ Approved(r.mac, r.target)
  /\ r.at = "SaveState" => r.state.target = r.target /\ Chosen(r.mac, r.target)

\* The inductive invariant behind AuditTrail and DeliveredAllowed.
TrailInv ==
  /\ \A m \in Mac : store[m] # NoState /\ store[m].target # InitTarget
       => Chosen(m, store[m].target)
  /\ \A p \in Poller : poll[p] # Idle => PollKnows(poll[p])
  /\ \A o \in Operator : update[o] # Idle => UpdateKnows(update[o])
  /\ AuditTrail
  /\ DeliveredAllowed

\* The records as the ledger sees them.
Selections == {[mac |-> e.mac, target |-> e.target] :
                 e \in {x \in log : x.type = "UserSelection"}}
Boots == {[mac |-> e.mac, target |-> e.target, how |-> e.how] :
            e \in {x \in log : x.type = "HostBoot"}}

Ledger == INSTANCE BootLedger WITH
  selections <- Selections, boots <- Boots, snapshots <- sessions,
  scripts <- delivered

\* The polling service implements the ledger: every append, create and render
\* of a poll or an update is a step the ledger allows, in the order it allows.
ImplementsLedger == Ledger!Spec

Quiet(m) ==
  /\ \A p \in Poller : poll[p] # Idle => poll[p].mac # m
  /\ \A o \in Operator : update[o] # Idle => update[o].mac # m

\* An acknowledged selection is kept: while no request for the host is being
\* served, a selection that was neither delivered nor expired is what the
\* store holds, so that the next poll gets it (the comment of BootAction).
SelectionKept ==
  \A m \in Mac :
    owed[m] # InitTarget /\ Quiet(m)
      => store[m] # NoState /\ store[m].target = owed[m]

Waiting(m) == store[m] # NoState /\ store[m].target = InitTarget

\* No host waits forever: a waiting host is selected, times out or expires,
\* although overlapping polls lose counts and bring old states back.
WaitingEnds == \A m \in Mac : Waiting(m) ~> ~Waiting(m)
=============================================================================
