--------------------------- MODULE PollingProofs ---------------------------
(***************************************************************************)
(* Proofs about Polling, for any hosts, targets, policies, numbers of      *)
(* overlapping requests, retry limit, expiry and set of failing calls; and *)
(* about SerialPolling: the handlers implement the atomic queue, and an    *)
(* acknowledged selection is kept.                                         *)
(***************************************************************************)
EXTENDS SerialPolling, TLAPS

\* A newly queued host has a typed state.
LEMMA QueuedType ==
  ASSUME NEW m \in Mac, NEW h \in Hostname
  PROVE  QueuedState(m, h) \in ServerState
<1>1. Policy[<<m, h>>].allowed \in SUBSET Target
  BY ConstantsAssumption, Zenon
<1>2. 1 \in 1 .. MaxRetry + 1 /\ 0 \in 0 .. AgeCap
  BY ConstantsAssumption DEF AgeCap
<1> QED BY <1>1, <1>2, Zenon DEF QueuedState, ServerState, TargetOrInit

\* Counting a poll stays within maxRetry + 1, because only a state that still
\* has retries is counted.
LEMMA RetriedType ==
  ASSUME NEW s \in ServerState, ~OutOfRetries(s)
  PROVE  RetriedState(s) \in ServerState /\ RetriedState(s).target = s.target
<1>1. s.retry + 1 \in 1 .. MaxRetry + 1 /\ 0 \in 0 .. AgeCap
  BY ConstantsAssumption DEF OutOfRetries, ServerState, AgeCap
<1> QED BY <1>1, Zenon DEF RetriedState, ServerState

\* A selection keeps the state typed.
LEMMA SelectedType ==
  ASSUME NEW s \in ServerState, NEW t \in Target, NEW h \in Hostname
  PROVE  SelectedState(s, t, h) \in ServerState /\ SelectedState(s, t, h).target = t
<1>1. 0 \in 0 .. AgeCap
  BY ConstantsAssumption DEF AgeCap
<1> QED BY <1>1, Zenon DEF SelectedState, ServerState, TargetOrInit

\* Time passing keeps a state typed, and changes nothing but its age.
LEMMA AgedType ==
  ASSUME NEW s \in StateOrNone
  PROVE  /\ Aged(s) \in StateOrNone
         /\ Aged(s) = NoState <=> s = NoState
         /\ s # NoState => Aged(s).target = s.target
<1>1. CASE s = NoState
  BY <1>1, Zenon DEF Aged, StateOrNone
<1>2. CASE s # NoState
  <2>1. s \in ServerState
    BY <1>2, Zenon DEF StateOrNone
  <2>2. s.age < AgeCap => s.age + 1 \in 0 .. AgeCap
    BY <2>1, ConstantsAssumption DEF ServerState, AgeCap
  <2>3. Aged(s) \in ServerState /\ Aged(s).target = s.target
    BY <1>2, <2>1, <2>2, ConstantsAssumption DEF Aged, ServerState, AgeCap
  <2> QED BY <1>2, <2>3, SentinelsAssumption, Zenon DEF StateOrNone
<1> QED BY <1>1, <1>2, Zenon

\* What the resolver answers is typed.
LEMMA PolicyType ==
  ASSUME NEW m \in Mac, NEW h \in Hostname
  PROVE  /\ Policy[<<m, h>>].auto \in TargetOrInit
         /\ Policy[<<m, h>>].allowed \in SUBSET Target
BY ConstantsAssumption, Zenon DEF TargetOrInit

\* The fields of a request in flight are typed.
LEMMA RequestTypes ==
  ASSUME TypeOK
  PROVE  /\ \A p \in Poller : poll[p] # Idle =>
              /\ poll[p] \in PollRequest /\ poll[p].mac \in Mac
              /\ poll[p].host \in Hostname /\ poll[p].how \in {"auto", "manual"}
              /\ poll[p].target \in TargetOrInit /\ poll[p].state \in StateOrNone
              /\ poll[p].at \in PollStep
         /\ \A o \in Operator : update[o] # Idle =>
              /\ update[o] \in UpdateRequest /\ update[o].mac \in Mac
              /\ update[o].host \in Hostname /\ update[o].target \in Target
              /\ update[o].state \in StateOrNone
BY Zenon DEF TypeOK, PollRequest, UpdateRequest

\* Records are never removed, so what a request knows stays true.
LEMMA KnowledgeGrows ==
  ASSUME log \subseteq log', sessions \subseteq sessions'
  PROVE  /\ \A m, t : Chosen(m, t) => Chosen(m, t)'
         /\ \A r : PollKnows(r) => PollKnows(r)'
         /\ \A r : UpdateKnows(r) => UpdateKnows(r)'
BY Zenon DEF Chosen, PollKnows, UpdateKnows, Approved

StoreKnows == \A m \in Mac : store[m] # NoState /\ store[m].target # InitTarget
                => Chosen(m, store[m].target)

IndInv == TypeOK /\ TrailInv

\* A step of one poll keeps the trail if its new local state knows enough and
\* it delivers nothing.
LEMMA PollFrame ==
  ASSUME IndInv, NEW p \in Poller, NEW x,
         poll' = [poll EXCEPT ![p] = x], x # Idle => PollKnows(x)',
         UNCHANGED <<update, delivered>>,
         log \subseteq log', sessions \subseteq sessions', StoreKnows'
  PROVE  TrailInv'
<1>1. ASSUME NEW q \in Poller, poll'[q] # Idle PROVE PollKnows(poll[q])'
  <2>1. CASE q = p
    BY <2>1, <1>1, Zenon DEF IndInv, TypeOK
  <2>2. CASE q # p
    BY <2>2, <1>1, KnowledgeGrows, Zenon DEF IndInv, TypeOK, TrailInv
  <2> QED BY <2>1, <2>2, Zenon
<1>2. \A o \in Operator : update'[o] # Idle => UpdateKnows(update[o])'
  BY KnowledgeGrows, Zenon DEF IndInv, TrailInv
<1>3. AuditTrail' /\ DeliveredAllowed'
  BY Zenon DEF IndInv, TrailInv, AuditTrail, DeliveredAllowed, BootEvent, SelectionEvent
<1> QED BY <1>1, <1>2, <1>3, Zenon DEF TrailInv, StoreKnows

\* A step of one update keeps the trail likewise.
LEMMA UpdateFrame ==
  ASSUME IndInv, NEW o \in Operator, NEW x,
         update' = [update EXCEPT ![o] = x], x # Idle => UpdateKnows(x)',
         UNCHANGED <<poll, delivered>>,
         log \subseteq log', sessions \subseteq sessions', StoreKnows'
  PROVE  TrailInv'
<1>1. ASSUME NEW q \in Operator, update'[q] # Idle PROVE UpdateKnows(update[q])'
  <2>1. CASE q = o
    BY <2>1, <1>1, Zenon DEF IndInv, TypeOK
  <2>2. CASE q # o
    BY <2>2, <1>1, KnowledgeGrows, Zenon DEF IndInv, TypeOK, TrailInv
  <2> QED BY <2>1, <2>2, Zenon
<1>2. \A p \in Poller : poll'[p] # Idle => PollKnows(poll[p])'
  BY KnowledgeGrows, Zenon DEF IndInv, TrailInv
<1>3. AuditTrail' /\ DeliveredAllowed'
  BY Zenon DEF IndInv, TrailInv, AuditTrail, DeliveredAllowed, BootEvent, SelectionEvent
<1> QED BY <1>1, <1>2, <1>3, Zenon DEF TrailInv, StoreKnows

\* An unchanged store, or one in which a state was dropped or replaced by one
\* that knows its selection, is justified by the records.
LEMMA StoreFrame ==
  ASSUME IndInv, log \subseteq log', NEW m \in Mac, NEW s,
         store' = store \/ store' = [store EXCEPT ![m] = s],
         s # NoState /\ s.target # InitTarget => Chosen(m, s.target)'
  PROVE  StoreKnows'
<1>1. ASSUME NEW n \in Mac, store'[n] # NoState, store'[n].target # InitTarget
      PROVE  Chosen(n, store[n].target)'
  <2>1. CASE store'[n] = store[n]
    BY <1>1, <2>1, Zenon DEF IndInv, TrailInv, Chosen
  <2>2. CASE store'[n] # store[n]
    BY <1>1, <2>2, Zenon DEF IndInv, TypeOK
  <2> QED BY <2>1, <2>2, Zenon
<1> QED BY <1>1, Zenon DEF StoreKnows

\* Starting a poll: an automatic target is one the policy allows.
LEMMA PollStartInv ==
  ASSUME IndInv, NEW p \in Poller, NEW m \in Mac, NEW h \in Hostname,
         PollStart(p, m, h)
  PROVE  IndInv'
<1> DEFINE auto == Policy[<<m, h>>].auto
           x == [at |-> IF auto = InitTarget THEN "GetState" ELSE "HostBoot",
                 mac |-> m, host |-> h, target |-> auto,
                 how |-> IF auto = InitTarget THEN "manual" ELSE "auto",
                 state |-> NoState]
<1>1. poll' = [poll EXCEPT ![p] = x] /\ UNCHANGED <<persisted, update, sweep, history>>
  BY Zenon DEF PollStart
<1>2. x \in PollRequest
  BY PolicyType, Zenon DEF PollRequest, PollStep, StateOrNone
<1>3. TypeOK'
  BY <1>1, <1>2, Zenon DEF IndInv, TypeOK, persisted, history
<1>4. auto # InitTarget => auto \in Target /\ Approved(m, auto)
  BY ConstantsAssumption, PolicyType, ZenonT(30) DEF Approved
<1>5. PollKnows(x)
  BY <1>4, Zenon DEF PollKnows
<1>6. PollKnows(x)' /\ StoreKnows'
  BY <1>1, <1>5, KnowledgeGrows, Zenon DEF persisted, StoreKnows, IndInv, TrailInv, Chosen
<1> HIDE DEF x
<1>7. TrailInv'
  BY <1>1, <1>6, PollFrame, Zenon DEF persisted, history
<1> QED BY <1>3, <1>7, Zenon DEF IndInv

\* The branch taken after GetState: a selection read from the store is on
\* record, and only a state without one is saved again.
LEMMA PollGetStateInv ==
  ASSUME IndInv, NEW p \in Poller, PollGetState(p)
  PROVE  IndInv'
<1> DEFINE r == poll[p]
           s == store[r.mac]
<1>x. PICK x : x = PollChoice(r, s)
  BY Zenon
<1>1. /\ r # Idle /\ r.at = "GetState"
      /\ poll' = [poll EXCEPT ![p] = x] /\ UNCHANGED <<persisted, update, sweep, history>>
  BY <1>x, Zenon DEF PollGetState
<1>2. /\ r \in PollRequest /\ r.mac \in Mac /\ r.host \in Hostname
      /\ s \in StateOrNone /\ PollKnows(r)
  BY <1>1, RequestTypes, Zenon DEF IndInv, TypeOK, TrailInv
<1>3. x \in PollRequest /\ PollKnows(x)
  <2>1. CASE s = NoState
    <3>1. QueuedState(r.mac, r.host) \in ServerState
      BY <1>2, QueuedType, Zenon
    <3> QED BY <1>x, <1>1, <1>2, <2>1, <3>1, Zenon
          DEF PollChoice, PollRequest, PollStep, StateOrNone, PollKnows, QueuedState
  <2>2. CASE s # NoState /\ s.target # InitTarget
    <3>1. s.target \in Target /\ Chosen(r.mac, s.target)
      BY <1>2, <2>2, Zenon DEF IndInv, TrailInv, StateOrNone, ServerState, TargetOrInit
    <3> QED BY <1>x, <1>1, <1>2, <2>2, <3>1, Zenon
          DEF PollChoice, PollRequest, PollStep, TargetOrInit, PollKnows, Chosen
  <2>3. CASE s # NoState /\ s.target = InitTarget /\ ~OutOfRetries(s)
    <3>1. s \in ServerState
      BY <1>2, <2>3, Zenon DEF StateOrNone
    <3>2. RetriedState(s) \in ServerState /\ RetriedState(s).target = InitTarget
      BY <2>3, <3>1, RetriedType, Zenon
    <3> QED BY <1>x, <1>1, <1>2, <2>3, <3>2, Zenon
          DEF PollChoice, PollRequest, PollStep, StateOrNone, PollKnows
  <2>4. CASE s # NoState /\ s.target = InitTarget /\ OutOfRetries(s)
    BY <1>x, <1>1, <1>2, <2>4, Zenon DEF PollChoice, PollRequest, PollStep, PollKnows
  <2> QED BY <2>1, <2>2, <2>3, <2>4, Zenon
<1>4. TypeOK'
  BY <1>1, <1>3, Zenon DEF IndInv, TypeOK, persisted, history
<1>5. PollKnows(x)' /\ StoreKnows'
  BY <1>1, <1>3, KnowledgeGrows, Zenon DEF persisted, StoreKnows, IndInv, TrailInv, Chosen
<1>6. TrailInv'
  BY <1>1, <1>5, PollFrame, Zenon DEF persisted, history
<1> QED BY <1>4, <1>6, Zenon DEF IndInv

\* The store calls of a poll that is not booting: queue, retry, time out, fail,
\* and the event of a queued host.
LEMMA PollQueueInv ==
  ASSUME IndInv, NEW p \in Poller,
         \/ PollQueueServer(p) \/ PollHostPoll(p) \/ PollSaveRetry(p)
         \/ PollDeleteTimedOut(p) \/ PollFails(p)
  PROVE  IndInv'
<1>1. PICK r : r = poll[p]
  BY Zenon
<1>2. /\ r # Idle /\ r \in PollRequest /\ r.mac \in Mac /\ r.state \in StateOrNone
      /\ PollKnows(r)
  BY <1>1, RequestTypes, Zenon DEF IndInv, TrailInv, PollQueueServer, PollHostPoll,
       PollSaveRetry, PollDeleteTimedOut, PollFails
<1>3. PICK x : /\ poll' = [poll EXCEPT ![p] = x]
               /\ x = Idle \/ x = [r EXCEPT !.at = "HostPoll"]
  BY <1>1, Zenon DEF PollQueueServer, PollHostPoll, PollSaveRetry, PollDeleteTimedOut,
       PollFails, PollAt, PollOver
<1>4. PICK s : /\ s \in {r.state, NoState}
               /\ store' = store \/ store' = [store EXCEPT ![r.mac] = s]
  BY <1>1, Zenon DEF PollQueueServer, PollHostPoll, PollSaveRetry, PollDeleteTimedOut,
       PollFails, persisted
<1>5. /\ UNCHANGED <<sessions, update, sweep, delivered, owed>>
      /\ log \subseteq log' /\ log' \subseteq log \cup {HostPollEvent(r.mac)}
  BY <1>1, Zenon DEF PollQueueServer, PollHostPoll, PollSaveRetry, PollDeleteTimedOut,
       PollFails, persisted, history
<1>6. HostPollEvent(r.mac) \in Event
  BY <1>2, Zenon DEF HostPollEvent, Event, EventType, TargetOrInit
<1>7. x \in PollRequest \cup {Idle} /\ (x # Idle => PollKnows(x))
  BY <1>2, <1>3, Zenon DEF PollRequest, PollStep, PollKnows
<1>8. TypeOK'
  BY <1>2, <1>3, <1>4, <1>5, <1>6, <1>7, Zenon DEF IndInv, TypeOK, StateOrNone
<1>9. StoreKnows'
  BY <1>2, <1>4, <1>5, StoreFrame, Zenon DEF PollKnows
<1>10. TrailInv'
  BY <1>3, <1>5, <1>7, <1>9, KnowledgeGrows, PollFrame, Zenon
<1> QED BY <1>8, <1>10, Zenon DEF IndInv

\* The calls of a booting poll before the script is rendered: each one puts on
\* record what the next one relies on.
LEMMA PollBootInv ==
  ASSUME IndInv, NEW p \in Poller,
         PollDeleteSelected(p) \/ PollHostBoot(p) \/ PollCreateSession(p)
  PROVE  IndInv'
<1>1. PICK r : r = poll[p]
  BY Zenon
<1>2. /\ r # Idle /\ r \in PollRequest /\ r.mac \in Mac /\ r.how \in {"auto", "manual"}
      /\ PollKnows(r) /\ r.at \in {"DeleteSelected", "HostBoot", "CreateSession"}
  BY <1>1, RequestTypes, Zenon DEF IndInv, TrailInv, PollDeleteSelected, PollHostBoot,
       PollCreateSession
<1>3. r.target \in Target /\ Approved(r.mac, r.target)
  BY <1>2, Zenon DEF PollKnows
<1>4. PICK x : poll' = [poll EXCEPT ![p] = x] /\
         \/ x = [r EXCEPT !.at = "HostBoot"] /\ r.at = "DeleteSelected"
         \/ /\ x = [r EXCEPT !.at = "CreateSession"]
            /\ BootEvent(r.mac, r.target, r.how) \in log'
         \/ /\ x = [r EXCEPT !.at = "Render"] /\ r.at = "CreateSession"
            /\ [mac |-> r.mac, target |-> r.target] \in sessions'
  BY <1>1, Zenon DEF PollDeleteSelected, PollHostBoot, PollCreateSession, PollAt
<1>5. /\ UNCHANGED <<update, sweep, delivered, owed>>
      /\ log \subseteq log'
      /\ log' \subseteq log \cup {BootEvent(r.mac, r.target, r.how)}
      /\ sessions \subseteq sessions'
      /\ sessions' \subseteq sessions \cup {[mac |-> r.mac, target |-> r.target]}
      /\ store' = store \/ store' = [store EXCEPT ![r.mac] = NoState]
  BY <1>1, Zenon DEF PollDeleteSelected, PollHostBoot, PollCreateSession, history
<1>6. BootEvent(r.mac, r.target, r.how) \in Event
  BY <1>2, <1>3, Zenon DEF BootEvent, Event, EventType, TargetOrInit
<1>7. x \in PollRequest
  BY <1>2, <1>4, Zenon DEF PollRequest, PollStep
<1>8. TypeOK'
  BY <1>2, <1>3, <1>4, <1>5, <1>6, <1>7 DEF IndInv, TypeOK, StateOrNone
<1>9. PollKnows(r)' /\ (r.how = "manual" => Chosen(r.mac, r.target)')
  BY <1>2, <1>5, KnowledgeGrows, Zenon DEF PollKnows
<1>10. PollKnows(x)'
  BY <1>2, <1>3, <1>4, <1>9, Zenon DEF PollKnows, PollRequest
<1>11. StoreKnows'
  BY <1>2, <1>5, StoreFrame, Zenon
<1>12. TrailInv'
  BY <1>4, <1>5, <1>10, <1>11, PollFrame, ZenonT(30)
<1> QED BY <1>8, <1>12, Zenon DEF IndInv

\* The script is delivered with its whole trail on record.
LEMMA PollRenderInv ==
  ASSUME IndInv, NEW p \in Poller, PollRender(p)
  PROVE  IndInv'
<1>1. PICK r : r = poll[p]
  BY Zenon
<1>2. /\ r \in PollRequest /\ r.mac \in Mac /\ r.how \in {"auto", "manual"}
      /\ PollKnows(r) /\ r.at = "Render"
  BY <1>1, RequestTypes, Zenon DEF IndInv, TrailInv, PollRender
<1> DEFINE d == [mac |-> r.mac, target |-> r.target, how |-> r.how]
<1>3. /\ r.target \in Target /\ Approved(r.mac, r.target)
      /\ BootEvent(r.mac, r.target, r.how) \in log
      /\ [mac |-> r.mac, target |-> r.target] \in sessions
      /\ r.how = "manual" => SelectionEvent(r.mac, r.target) \in log
  BY <1>2, Zenon DEF PollKnows, Chosen
<1>4. /\ delivered' = delivered \cup {d}
      /\ owed' = owed \/ owed' = [owed EXCEPT ![r.mac] = InitTarget]
      /\ poll' = [poll EXCEPT ![p] = Idle]
      /\ UNCHANGED <<store, log, sessions, update, sweep>>
  BY <1>1, Zenon DEF PollRender, PollOver, persisted
<1>5. TypeOK'
  BY <1>2, <1>3, <1>4 DEF IndInv, TypeOK, TargetOrInit
<1>6. AuditTrail'
  <2>1. \A e \in delivered : /\ BootEvent(e.mac, e.target, e.how) \in log
                             /\ [mac |-> e.mac, target |-> e.target] \in sessions
                             /\ e.how = "manual" => SelectionEvent(e.mac, e.target) \in log
    BY Zenon DEF IndInv, TrailInv, AuditTrail
  <2>2. \A e \in delivered' : e \in delivered \/ e = d
    BY <1>4, Zenon
  <2>3. d.mac = r.mac /\ d.target = r.target /\ d.how = r.how
    BY Zenon
  <2> HIDE DEF d
  <2> QED BY <1>3, <1>4, <2>1, <2>2, <2>3, ZenonT(30) DEF AuditTrail, BootEvent, SelectionEvent
<1>7. DeliveredAllowed'
  BY <1>3, <1>4, SMTT(30) DEF IndInv, TrailInv, DeliveredAllowed, Approved
<1>8. /\ \A q \in Poller : poll'[q] # Idle => PollKnows(poll[q])'
      /\ \A o \in Operator : update'[o] # Idle => UpdateKnows(update[o])'
  BY <1>4, KnowledgeGrows, Zenon DEF IndInv, TypeOK, TrailInv
<1>9. StoreKnows'
  BY <1>4, Zenon DEF IndInv, TrailInv, StoreKnows, Chosen
<1> QED BY <1>5, <1>6, <1>7, <1>8, <1>9, Zenon DEF IndInv, TrailInv, StoreKnows

\* Starting an update, reading the state, and giving up.
LEMMA UpdateReadInv ==
  ASSUME IndInv, NEW o \in Operator,
         \/ \E m \in Mac, t \in Target, h \in Hostname : UpdateStart(o, m, t, h)
         \/ UpdateGetState(o) \/ UpdateFails(o)
  PROVE  IndInv'
<1>1. PICK x : /\ update' = [update EXCEPT ![o] = x]
               /\ x \in UpdateRequest \cup {Idle} /\ (x # Idle => UpdateKnows(x))
  <2>1. CASE \E m \in Mac, t \in Target, h \in Hostname : UpdateStart(o, m, t, h)
    BY <2>1, ZenonT(30) DEF UpdateStart, UpdateRequest, UpdateKnows, StateOrNone
  <2>2. CASE UpdateFails(o)
    BY <2>2, Zenon DEF UpdateFails, UpdateOver
  <2>3. CASE UpdateGetState(o)
    <3>1. PICK r, s : r = update[o] /\ s = store[r.mac]
      BY Zenon
    <3>2. /\ r \in UpdateRequest /\ r.mac \in Mac /\ r.target \in Target
          /\ s \in StateOrNone
      BY <2>3, <3>1, RequestTypes, Zenon DEF UpdateGetState, IndInv, TypeOK
    <3>3. CASE UpdateAccepts(r, s)
      <4>1. s \in ServerState /\ s # NoState /\ Approved(r.mac, r.target)
        BY <3>2, <3>3, Zenon DEF UpdateAccepts, StateOrNone, Approved, ServerState
      <4>2. update' = [update EXCEPT ![o] = [r EXCEPT !.at = "UserSelection", !.state = s]]
        BY <2>3, <3>1, <3>3, Zenon DEF UpdateGetState, IndInv, TypeOK
      <4>3. [r EXCEPT !.at = "UserSelection", !.state = s] \in UpdateRequest
        BY <3>2, Zenon DEF UpdateRequest
      <4>4. UpdateKnows([r EXCEPT !.at = "UserSelection", !.state = s])
        BY <3>2, <4>1, Zenon DEF UpdateKnows, UpdateRequest
      <4> QED BY <4>2, <4>3, <4>4, Zenon
    <3>4. CASE ~UpdateAccepts(r, s)
      BY <2>3, <3>1, <3>4, Zenon DEF UpdateGetState, UpdateOver
    <3> QED BY <3>3, <3>4, Zenon
  <2> QED BY <2>1, <2>2, <2>3, Zenon
<1>2. UNCHANGED <<store, log, sessions, poll, sweep, delivered, owed>>
  BY Zenon DEF UpdateStart, UpdateGetState, UpdateFails, persisted, history
<1>3. TypeOK'
  BY <1>1, <1>2, Zenon DEF IndInv, TypeOK
<1>4. StoreKnows'
  BY <1>2, Zenon DEF IndInv, TrailInv, StoreKnows, Chosen
<1>5. TrailInv'
  BY <1>1, <1>2, <1>4, KnowledgeGrows, UpdateFrame, Zenon
<1> QED BY <1>3, <1>5, Zenon DEF IndInv

\* The selection is put on record before it can reach the store.
LEMMA UpdateUserSelectionInv ==
  ASSUME IndInv, NEW o \in Operator, UpdateUserSelection(o)
  PROVE  IndInv'
<1>1. PICK r : r = update[o]
  BY Zenon
<1>2. /\ r \in UpdateRequest /\ r.mac \in Mac /\ r.target \in Target /\ r.host \in Hostname
      /\ r.state \in ServerState /\ Approved(r.mac, r.target)
  BY <1>1, RequestTypes, Zenon DEF UpdateUserSelection, IndInv, TrailInv, UpdateKnows, StateOrNone
<1>3. PICK s : s = SelectedState(r.state, r.target, r.host)
  BY Zenon
<1>4. s \in ServerState /\ s.target = r.target
  BY <1>2, <1>3, SelectedType, Zenon
<1>5. PICK x : x = [r EXCEPT !.at = "SaveState", !.state = s]
  BY Zenon
<1>6. update' = [update EXCEPT ![o] = x]
  BY <1>1, <1>3, <1>5, Zenon DEF UpdateUserSelection, IndInv, TypeOK
<1>7. /\ log' = log \cup {SelectionEvent(r.mac, r.target)}
      /\ UNCHANGED <<store, sessions, poll, sweep, delivered, owed>>
  BY <1>1, Zenon DEF UpdateUserSelection, history
<1>8. x \in UpdateRequest
  BY <1>2, <1>4, <1>5, Zenon DEF UpdateRequest, StateOrNone
<1>9. SelectionEvent(r.mac, r.target) \in Event
  BY <1>2, Zenon DEF SelectionEvent, Event, EventType, TargetOrInit
<1>10. TypeOK'
  BY <1>6, <1>7, <1>8, <1>9, Zenon DEF IndInv, TypeOK
<1>11. Chosen(r.mac, r.target)'
  BY <1>2, <1>7, Zenon DEF Chosen, Approved, SelectionEvent
<1>12. UpdateKnows(x)'
  BY <1>2, <1>4, <1>5, <1>11, SentinelsAssumption, Zenon DEF UpdateKnows, UpdateRequest, Approved
<1>13. StoreKnows'
  BY <1>7, Zenon DEF IndInv, TrailInv, StoreKnows, Chosen
<1>14. TrailInv'
  BY <1>6, <1>7, <1>12, <1>13, UpdateFrame, ZenonT(30)
<1> QED BY <1>10, <1>14, Zenon DEF IndInv

\* The selection that is saved is the recorded one.
LEMMA UpdateSaveStateInv ==
  ASSUME IndInv, NEW o \in Operator, UpdateSaveState(o)
  PROVE  IndInv'
<1>1. PICK r : r = update[o]
  BY Zenon
<1>2. /\ r \in UpdateRequest /\ r.mac \in Mac /\ r.target \in Target
      /\ r.state \in StateOrNone /\ r.state.target = r.target /\ Chosen(r.mac, r.target)
  BY <1>1, RequestTypes, Zenon DEF UpdateSaveState, IndInv, TrailInv, UpdateKnows
<1>3. /\ store' = [store EXCEPT ![r.mac] = r.state]
      /\ owed' = [owed EXCEPT ![r.mac] = r.target]
      /\ update' = [update EXCEPT ![o] = Idle]
      /\ UNCHANGED <<log, sessions, poll, sweep, delivered>>
  BY <1>1, Zenon DEF UpdateSaveState, UpdateOver
<1>4. TypeOK'
  BY <1>2, <1>3, Zenon DEF IndInv, TypeOK, TargetOrInit
<1>5. Chosen(r.mac, r.target)'
  BY <1>2, <1>3, Zenon DEF Chosen
<1>6. StoreKnows'
  BY <1>2, <1>3, <1>5, StoreFrame, Zenon
<1>7. TrailInv'
  BY <1>3, <1>6, UpdateFrame, Zenon
<1> QED BY <1>4, <1>7, Zenon DEF IndInv

\* The cleaner only drops states.
LEMMA CleanInv ==
  ASSUME IndInv, CleanStart \/ CleanDelete \/ CleanFails
  PROVE  IndInv'
<1>1. /\ UNCHANGED <<log, sessions, poll, update, delivered>>
      /\ sweep' \in {0, Idle}
      /\ store' = store \/ store' = [m \in Mac |-> IF Expired(store[m]) THEN NoState ELSE store[m]]
      /\ owed' = owed \/ owed' = [m \in Mac |-> IF Expired(store[m]) THEN InitTarget ELSE owed[m]]
  BY Zenon DEF CleanStart, CleanDelete, CleanFails, persisted, history
<1>2. \A m \in Mac : store'[m] = store[m] \/ store'[m] = NoState
  BY <1>1, Zenon
<1>3. TypeOK'
  <2>1. store' \in [Mac -> StateOrNone]
    BY <1>1, Zenon DEF IndInv, TypeOK, StateOrNone
  <2>2. owed' \in [Mac -> TargetOrInit]
    BY <1>1, Zenon DEF IndInv, TypeOK, TargetOrInit
  <2> QED BY <1>1, <2>1, <2>2, ConstantsAssumption DEF IndInv, TypeOK
<1>4. TrailInv'
  BY <1>1, <1>2, KnowledgeGrows, Zenon
     DEF IndInv, TrailInv, AuditTrail, DeliveredAllowed, Chosen, BootEvent, SelectionEvent
<1> QED BY <1>3, <1>4, Zenon DEF IndInv

\* Time passing changes ages only.
LEMMA TickInv ==
  ASSUME IndInv, Tick
  PROVE  IndInv'
<1>1. /\ store' = [m \in Mac |-> Aged(store[m])]
      /\ poll' = [p \in Poller |-> IF poll[p] = Idle THEN Idle
                    ELSE [poll[p] EXCEPT !.state = Aged(poll[p].state)]]
      /\ update' = [o \in Operator |-> IF update[o] = Idle THEN Idle
                    ELSE [update[o] EXCEPT !.state = Aged(update[o].state)]]
      /\ UNCHANGED <<log, sessions, delivered, owed>>
  BY Zenon DEF Tick, history
<1>2. sweep' \in 0 .. MaxLag \cup {Idle}
  BY ConstantsAssumption, SentinelsAssumption DEF Tick, IndInv, TypeOK
<1>3. ASSUME NEW m \in Mac
      PROVE  /\ store'[m] \in StateOrNone
             /\ store'[m] # NoState /\ store'[m].target # InitTarget
                  => Chosen(m, store[m].target)'
  BY <1>1, <1>3, AgedType, Zenon DEF IndInv, TypeOK, TrailInv, Chosen
<1>4. ASSUME NEW p \in Poller
      PROVE  /\ poll'[p] \in PollRequest \cup {Idle}
             /\ poll'[p] # Idle => PollKnows(poll[p])'
  <2>1. CASE poll[p] = Idle
    BY <1>1, <2>1, Zenon
  <2>2. CASE poll[p] # Idle
    <3>1. PICK r, s : r = poll[p] /\ s = Aged(r.state)
      BY Zenon
    <3>2. /\ r \in PollRequest /\ PollKnows(r) /\ s \in StateOrNone
          /\ s # NoState => s.target = InitTarget
      BY <2>2, <3>1, RequestTypes, AgedType, Zenon DEF IndInv, TrailInv, PollKnows
    <3>3. poll'[p] = [r EXCEPT !.state = s]
      BY <1>1, <2>2, <3>1, Zenon
    <3>4. [r EXCEPT !.state = s] \in PollRequest
      BY <3>2, Zenon DEF PollRequest
    <3>5. PollKnows([r EXCEPT !.state = s])
      BY <3>2, Zenon DEF PollKnows, PollRequest
    <3> QED BY <1>1, <3>3, <3>4, <3>5, KnowledgeGrows, Zenon
  <2> QED BY <2>1, <2>2, Zenon
<1>5. ASSUME NEW o \in Operator
      PROVE  /\ update'[o] \in UpdateRequest \cup {Idle}
             /\ update'[o] # Idle => UpdateKnows(update[o])'
  <2>1. CASE update[o] = Idle
    BY <1>1, <2>1, Zenon
  <2>2. CASE update[o] # Idle
    <3>1. PICK r, s : r = update[o] /\ s = Aged(r.state)
      BY Zenon
    <3>2. /\ r \in UpdateRequest /\ UpdateKnows(r) /\ s \in StateOrNone
          /\ s # NoState <=> r.state # NoState
          /\ r.state # NoState => s.target = r.state.target
      BY <2>2, <3>1, RequestTypes, AgedType, Zenon DEF IndInv, TrailInv
    <3>3. update'[o] = [r EXCEPT !.state = s]
      BY <1>1, <2>2, <3>1, Zenon
    <3>4. [r EXCEPT !.state = s] \in UpdateRequest
      BY <3>2, Zenon DEF UpdateRequest
    <3>5. UpdateKnows([r EXCEPT !.state = s])
      BY <3>2, Zenon DEF UpdateKnows, UpdateRequest
    <3> QED BY <1>1, <3>3, <3>4, <3>5, KnowledgeGrows, Zenon
  <2> QED BY <2>1, <2>2, Zenon
<1>6. TypeOK'
  BY <1>1, <1>2, <1>3, <1>4, <1>5, Zenon DEF IndInv, TypeOK
<1>7. AuditTrail' /\ DeliveredAllowed'
  BY <1>1, ZenonT(30) DEF IndInv, TrailInv, AuditTrail, DeliveredAllowed, BootEvent, SelectionEvent
<1> QED BY <1>3, <1>4, <1>5, <1>6, <1>7, Zenon DEF IndInv, TrailInv

\* A restart forgets requests and keeps records.
LEMMA RestartInv ==
  ASSUME IndInv, Restart
  PROVE  IndInv'
<1>1. /\ \A p \in Poller : poll'[p] = Idle
      /\ \A o \in Operator : update'[o] = Idle
      /\ UNCHANGED <<store, log, sessions, delivered, owed>>
  BY Zenon DEF Restart, persisted, history
<1>2. TypeOK'
  BY Zenon DEF IndInv, TypeOK, Restart, persisted, history
<1>3. TrailInv'
  BY <1>1, Zenon DEF IndInv, TrailInv, Chosen, AuditTrail, DeliveredAllowed, BootEvent, SelectionEvent
<1> QED BY <1>2, <1>3, Zenon DEF IndInv

\* The invariant is inductive.
LEMMA IndInvStep ==
  ASSUME IndInv, [Next]_vars
  PROVE  IndInv'
<1>1. CASE UNCHANGED vars
  BY <1>1, ZenonT(30) DEF vars, IndInv, TypeOK, TrailInv, PollKnows, UpdateKnows, Chosen,
       AuditTrail, DeliveredAllowed
<1>2. CASE \E p \in Poller, m \in Mac, h \in Hostname : PollStart(p, m, h)
  BY <1>2, PollStartInv, Zenon
<1>3. CASE \E p \in Poller : PollStepOf(p)
  BY <1>3, PollGetStateInv, PollQueueInv, PollBootInv, PollRenderInv, Zenon DEF PollStepOf
<1>4. CASE \E o \in Operator, m \in Mac, t \in Target, h \in Hostname : UpdateStart(o, m, t, h)
  BY <1>4, UpdateReadInv, Zenon
<1>5. CASE \E o \in Operator : UpdateStepOf(o)
  BY <1>5, UpdateReadInv, UpdateUserSelectionInv, UpdateSaveStateInv, Zenon DEF UpdateStepOf
<1>6. CASE CleanStart \/ CleanDelete \/ CleanFails
  BY <1>6, CleanInv, Zenon
<1>7. CASE Tick
  BY <1>7, TickInv, Zenon
<1>8. CASE Restart
  BY <1>8, RestartInv, Zenon
<1> QED BY <1>1, <1>2, <1>3, <1>4, <1>5, <1>6, <1>7, <1>8, Zenon DEF Next

\* The invariant holds initially.
LEMMA IndInvInit == Init => IndInv
<1> SUFFICES ASSUME Init PROVE IndInv
  BY Zenon
<1>1. TypeOK
  BY Zenon DEF Init, TypeOK, StateOrNone, TargetOrInit
<1>2. TrailInv
  BY Zenon DEF Init, TrailInv, AuditTrail, DeliveredAllowed
<1> QED BY <1>1, <1>2, Zenon DEF IndInv

\* Every reachable state satisfies the inductive invariant.
THEOREM Invariance == Spec => []IndInv
BY IndInvInit, IndInvStep, PTL DEF Spec

\* Every reachable state is typed: in particular no overlap of polls takes a
\* retry count beyond maxRetry + 1 (chooseManualAction).
THEOREM TypeCorrect == Spec => []TypeOK
BY Invariance, PTL DEF IndInv

\* Every delivered boot script has its HostBoot event, its boot session and,
\* if manual, its UserSelection event on record (Poll, manualAction,
\* genBootScript, UpdateTarget), whatever overlaps, fails or restarts.
THEOREM TrailComplete == Spec => []AuditTrail
BY Invariance, PTL DEF IndInv, TrailInv

\* A host only gets targets that the resolver approves for its MAC (Poll,
\* UpdateTarget).
THEOREM OnlyApprovedBoots == Spec => []DeliveredAllowed
BY Invariance, PTL DEF IndInv, TrailInv

-----------------------------------------------------------------------------
(* Polling implements BootLedger. *)

\* What an append does to the ledger's view of the log.
LEMMA LedgerView ==
  ASSUME NEW m, NEW t, NEW how
  PROVE  /\ log' = log => Selections' = Selections /\ Boots' = Boots
         /\ log' = log \cup {HostPollEvent(m)} => Selections' = Selections /\ Boots' = Boots
         /\ log' = log \cup {SelectionEvent(m, t)}
              => /\ Selections' = Selections \cup {[mac |-> m, target |-> t]}
                 /\ Boots' = Boots
         /\ log' = log \cup {BootEvent(m, t, how)}
              => /\ Boots' = Boots \cup {[mac |-> m, target |-> t, how |-> how]}
                 /\ Selections' = Selections
         /\ SelectionEvent(m, t) \in log => [mac |-> m, target |-> t] \in Selections
         /\ BootEvent(m, t, how) \in log => [mac |-> m, target |-> t, how |-> how] \in Boots
<1> USE DEF Selections, Boots
<1> DEFINE sel == SelectionEvent(m, t)
           boot == BootEvent(m, t, how)
<1>1. log' = log => Selections' = Selections /\ Boots' = Boots
  BY Zenon
<1>2. log' = log \cup {HostPollEvent(m)} => Selections' = Selections /\ Boots' = Boots
  BY DEF HostPollEvent
<1>3. log' = log \cup {SelectionEvent(m, t)}
        => /\ Selections' = Selections \cup {[mac |-> m, target |-> t]}
           /\ Boots' = Boots
  <2> SUFFICES ASSUME log' = log \cup {sel}
               PROVE  /\ Selections' = Selections \cup {[mac |-> m, target |-> t]}
                      /\ Boots' = Boots
    BY Zenon
  <2>1. sel.type = "UserSelection" /\ sel.mac = m /\ sel.target = t
    BY Zenon DEF SelectionEvent
  <2> HIDE DEF sel
  <2> QED BY <2>1, Zenon
<1>4. log' = log \cup {BootEvent(m, t, how)}
        => /\ Boots' = Boots \cup {[mac |-> m, target |-> t, how |-> how]}
           /\ Selections' = Selections
  <2> SUFFICES ASSUME log' = log \cup {boot}
               PROVE  /\ Boots' = Boots \cup {[mac |-> m, target |-> t, how |-> how]}
                      /\ Selections' = Selections
    BY Zenon
  <2>1. boot.type = "HostBoot" /\ boot.mac = m /\ boot.target = t /\ boot.how = how
    BY Zenon DEF BootEvent
  <2> HIDE DEF boot
  <2> QED BY <2>1, Zenon
<1>5. SelectionEvent(m, t) \in log => [mac |-> m, target |-> t] \in Selections
  BY DEF SelectionEvent
<1>6. BootEvent(m, t, how) \in log => [mac |-> m, target |-> t, how |-> how] \in Boots
  BY DEF BootEvent
<1> QED BY <1>1, <1>2, <1>3, <1>4, <1>5, <1>6, Zenon

\* Every step of the polling service is a step of the ledger or changes
\* none of its records.
LEMMA LedgerStep ==
  ASSUME IndInv, [Next]_vars
  PROVE  [Ledger!Next]_(Ledger!ledger)
<1> USE DEF Ledger!ledger
<1>1. ASSUME log' = log, sessions' = sessions, delivered' = delivered
      PROVE  UNCHANGED Ledger!ledger
  BY <1>1, LedgerView, Zenon
<1>2. CASE UNCHANGED vars
  BY <1>1, <1>2, Zenon DEF vars
<1>3. ASSUME NEW p \in Poller, PollStepOf(p)
      PROVE  [Ledger!Next]_(Ledger!ledger)
  <2>1. CASE \/ PollGetState(p) \/ PollQueueServer(p) \/ PollSaveRetry(p)
             \/ PollDeleteTimedOut(p) \/ PollDeleteSelected(p) \/ PollFails(p)
    BY <1>1, <2>1, Zenon DEF PollGetState, PollQueueServer, PollSaveRetry,
         PollDeleteTimedOut, PollDeleteSelected, PollFails, persisted, history
  <2>2. CASE PollHostPoll(p)
    BY <2>2, LedgerView, Zenon DEF PollHostPoll, history
  <2>3. PICK r : r = poll[p]
    BY Zenon
  <2>4. ASSUME r # Idle, r.at \in {"HostBoot", "CreateSession", "Render"}
        PROVE  /\ [mac |-> r.mac, target |-> r.target, how |-> r.how] \in Ledger!BootRecord
               /\ PollKnows(r)
    BY <2>3, <2>4, RequestTypes, Zenon DEF IndInv, TrailInv, PollKnows, Ledger!BootRecord
  <2> DEFINE b == [mac |-> r.mac, target |-> r.target, how |-> r.how]
  <2>5. Ledger!PairOf(b) = [mac |-> r.mac, target |-> r.target] /\ b.how = r.how
    BY Zenon DEF Ledger!PairOf
  <2>6. CASE PollHostBoot(p)
    <3>1. /\ Boots' = Boots \cup {b} /\ Selections' = Selections
          /\ sessions' = sessions /\ delivered' = delivered
      BY <2>3, <2>6, LedgerView, ZenonT(30) DEF PollHostBoot, history
    <3>2. b \in Ledger!BootRecord
          /\ (r.how = "manual" => [mac |-> r.mac, target |-> r.target] \in Selections)
      BY <2>3, <2>4, <2>6, LedgerView, Zenon DEF PollHostBoot, PollKnows, Chosen
    <3> HIDE DEF b
    <3> QED BY <3>1, <3>2, <2>5, Zenon DEF Ledger!Next, Ledger!RecordBoot
  <2>7. CASE PollCreateSession(p)
    <3>1. /\ sessions' = sessions \cup {[mac |-> r.mac, target |-> r.target]}
          /\ Selections' = Selections /\ Boots' = Boots /\ delivered' = delivered
      BY <2>3, <2>7, LedgerView, Zenon DEF PollCreateSession, history
    <3>2. b \in Ledger!BootRecord /\ b \in Boots
      BY <2>3, <2>4, <2>7, LedgerView, ZenonT(30) DEF PollCreateSession, PollKnows
    <3> HIDE DEF b
    <3> QED BY <3>1, <3>2, <2>5, Zenon DEF Ledger!Next, Ledger!OpenSession
  <2>8. CASE PollRender(p)
    <3>1. /\ delivered' = delivered \cup {b}
          /\ Selections' = Selections /\ Boots' = Boots /\ sessions' = sessions
      BY <2>3, <2>8, LedgerView, ZenonT(30) DEF PollRender, persisted
    <3>2. /\ b \in Ledger!BootRecord /\ b \in Boots
          /\ [mac |-> r.mac, target |-> r.target] \in sessions
      BY <2>3, <2>4, <2>8, LedgerView, Zenon DEF PollRender, PollKnows
    <3> HIDE DEF b
    <3> QED BY <3>1, <3>2, <2>5, Zenon DEF Ledger!Next, Ledger!Deliver
  <2> QED BY <1>3, <2>1, <2>2, <2>6, <2>7, <2>8, Zenon DEF PollStepOf
<1>4. ASSUME NEW o \in Operator, UpdateStepOf(o)
      PROVE  [Ledger!Next]_(Ledger!ledger)
  <2>1. CASE UpdateGetState(o) \/ UpdateSaveState(o) \/ UpdateFails(o)
    BY <1>1, <2>1, Zenon DEF UpdateGetState, UpdateSaveState, UpdateFails, persisted, history
  <2>2. CASE UpdateUserSelection(o)
    <3>1. PICK r : r = update[o]
      BY Zenon
    <3>2. [mac |-> r.mac, target |-> r.target] \in Ledger!Pair
      BY <2>2, <3>1, RequestTypes, Zenon DEF UpdateUserSelection, IndInv, Ledger!Pair
    <3>3. /\ Selections' = Selections \cup {[mac |-> r.mac, target |-> r.target]}
          /\ Boots' = Boots /\ sessions' = sessions /\ delivered' = delivered
      BY <2>2, <3>1, LedgerView, Zenon DEF UpdateUserSelection, history
    <3> QED BY <3>2, <3>3, Zenon DEF Ledger!Next, Ledger!Select
  <2> QED BY <1>4, <2>1, <2>2, Zenon DEF UpdateStepOf
<1>5. CASE \/ \E p \in Poller, m \in Mac, h \in Hostname : PollStart(p, m, h)
           \/ \E o \in Operator, m \in Mac, t \in Target, h \in Hostname :
                UpdateStart(o, m, t, h)
           \/ CleanStart \/ CleanDelete \/ CleanFails \/ Tick \/ Restart
  BY <1>1, <1>5, ZenonT(30) DEF PollStart, UpdateStart, CleanStart, CleanDelete, CleanFails,
       Tick, Restart, persisted, history
<1> QED BY <1>2, <1>3, <1>4, <1>5, Zenon DEF Next

\* The polling service implements the ledger: selections, boots, sessions and
\* scripts come on record in the order of UpdateTarget and of Poll,
\* manualAction and genBootScript, in every behaviour.
THEOREM LedgerRefinement == Spec => ImplementsLedger
<1>1. Init => Ledger!Init
  BY Zenon DEF Init, Ledger!Init, Selections, Boots
<1>2. IndInv /\ [Next]_vars => [Ledger!Next]_(Ledger!ledger)
  BY LedgerStep, Zenon
<1> QED BY <1>1, <1>2, Invariance, PTL DEF Spec, ImplementsLedger, Ledger!Spec

-----------------------------------------------------------------------------
(* One request of a host after the other *)

\* A behaviour without overlap is a behaviour of the polling service.
LEMMA SerialIsPolling == SerialSpec => Spec
<1>1. [Next /\ Serial']_vars => [Next]_vars
  BY Zenon
<1> QED BY <1>1, PTL DEF SerialSpec, Spec

\* A request that did not move, whose host's state did not change, stays in touch.
LEMMA PollStays ==
  ASSUME NEW p, poll'[p] = poll[p], store'[poll[p].mac] = store[poll[p].mac],
         PollInTouch(poll[p])
  PROVE  PollInTouch(poll[p])'
<1>1. PICK r, s : r = poll[p] /\ s = store[r.mac]
  BY Zenon
<1>2. poll'[p] = r /\ store'[r.mac] = s
  BY <1>1, Zenon
<1> QED BY <1>1, <1>2, Zenon DEF PollInTouch

LEMMA UpdateStays ==
  ASSUME NEW o, update'[o] = update[o], store'[update[o].mac] = store[update[o].mac],
         UpdateInTouch(update[o])
  PROVE  UpdateInTouch(update[o])'
<1>1. PICK r, s : r = update[o] /\ s = store[r.mac]
  BY Zenon
<1>2. update'[o] = r /\ store'[r.mac] = s
  BY <1>1, Zenon
<1> QED BY <1>1, <1>2, Zenon DEF UpdateInTouch

\* A step of one poll, which may write the state of its host, leaves every
\* other request in touch with the store.
LEMMA PollTouch ==
  ASSUME InTouch, Serial', IndInv, NEW p \in Poller, NEW x, NEW s,
         poll' = [poll EXCEPT ![p] = x], x # Idle => PollInTouch(x)',
         UNCHANGED update,
         \/ store' = store
         \/ poll[p] # Idle /\ store' = [store EXCEPT ![poll[p].mac] = s]
  PROVE  InTouch'
<1>1. ASSUME NEW q \in Poller, poll'[q] # Idle PROVE PollInTouch(poll[q])'
  <2>1. CASE q = p
    BY <1>1, <2>1, Zenon DEF IndInv, TypeOK
  <2>2. CASE q # p
    <3>1. poll'[q] = poll[q] /\ poll[q] # Idle
      BY <1>1, <2>2, Zenon DEF IndInv, TypeOK
    <3>2. store'[poll[q].mac] = store[poll[q].mac]
      BY <2>2, <3>1, RequestTypes, ZenonT(30) DEF InTouch, Serial, IndInv, TypeOK
    <3>3. PollInTouch(poll[q])
      BY <3>1, ZenonT(30) DEF InTouch
    <3> QED BY <3>1, <3>2, <3>3, PollStays, Zenon
  <2> QED BY <2>1, <2>2, Zenon
<1>2. ASSUME NEW o \in Operator, update'[o] # Idle PROVE UpdateInTouch(update[o])'
  <2>1. update'[o] = update[o]
    BY Zenon
  <2>2. store'[update[o].mac] = store[update[o].mac]
    BY <1>2, <2>1, RequestTypes, Zenon DEF InTouch, Serial, IndInv, TypeOK
  <2>3. UpdateInTouch(update[o])
    BY <1>2, <2>1, Zenon DEF InTouch
  <2> QED BY <2>1, <2>2, <2>3, UpdateStays, Zenon
<1> QED BY <1>1, <1>2, Zenon DEF InTouch

\* So does a step of one update.
LEMMA UpdateTouch ==
  ASSUME InTouch, Serial', IndInv, NEW o \in Operator, NEW x, NEW s,
         update' = [update EXCEPT ![o] = x], x # Idle => UpdateInTouch(x)',
         UNCHANGED poll,
         \/ store' = store
         \/ update[o] # Idle /\ store' = [store EXCEPT ![update[o].mac] = s]
  PROVE  InTouch'
<1>1. ASSUME NEW u \in Operator, update'[u] # Idle PROVE UpdateInTouch(update[u])'
  <2>1. CASE u = o
    BY <1>1, <2>1, Zenon DEF IndInv, TypeOK
  <2>2. CASE u # o
    <3>1. update'[u] = update[u] /\ update[u] # Idle
      BY <1>1, <2>2, Zenon DEF IndInv, TypeOK
    <3>2. store'[update[u].mac] = store[update[u].mac]
      BY <2>2, <3>1, RequestTypes, Zenon DEF InTouch, Serial, IndInv, TypeOK
    <3>3. UpdateInTouch(update[u])
      BY <3>1, Zenon DEF InTouch
    <3> QED BY <3>1, <3>2, <3>3, UpdateStays, Zenon
  <2> QED BY <2>1, <2>2, Zenon
<1>2. ASSUME NEW p \in Poller, poll'[p] # Idle PROVE PollInTouch(poll[p])'
  <2>1. poll'[p] = poll[p]
    BY Zenon
  <2>2. store'[poll[p].mac] = store[poll[p].mac]
    BY <1>2, <2>1, RequestTypes, ZenonT(30) DEF InTouch, Serial, IndInv, TypeOK
  <2>3. PollInTouch(poll[p])
    BY <1>2, <2>1, ZenonT(30) DEF InTouch
  <2> QED BY <2>1, <2>2, <2>3, PollStays, Zenon
<1> QED BY <1>1, <1>2, Zenon DEF InTouch

\* The branch a poll takes after GetState is in touch with the state it read.
LEMMA ChoiceTouch ==
  ASSUME IndInv, NEW r \in PollRequest, r.at = "GetState", r.how = "manual"
  PROVE  PollInTouch(PollChoice(r, store[r.mac]))
<1>s. PICK s, x : s = store[r.mac] /\ x = PollChoice(r, s)
  BY Zenon
<1>1. r.mac \in Mac /\ r.host \in Hostname /\ s \in StateOrNone
  BY <1>s, Zenon DEF PollRequest, IndInv, TypeOK
<1>2. CASE s = NoState
  <2>1. x.at = "QueueServer" /\ x.mac = r.mac /\ x.state = QueuedState(r.mac, r.host)
    BY <1>s, <1>2, Zenon DEF PollChoice, PollRequest
  <2>2. QueuedState(r.mac, r.host) # NoState /\ QueuedState(r.mac, r.host).retry = 1
    BY <1>1, QueuedType, SentinelsAssumption, Zenon DEF QueuedState
  <2> QED BY <1>s, <1>2, <2>1, <2>2, Zenon DEF PollInTouch
<1>3. CASE s # NoState /\ s.target # InitTarget
  <2>1. x.at = "DeleteSelected" /\ x.mac = r.mac /\ x.target = s.target /\ x.how = "manual"
    BY <1>s, <1>3, Zenon DEF PollChoice, PollRequest
  <2> QED BY <1>s, <1>3, <2>1, Zenon DEF PollInTouch
<1>4. CASE s # NoState /\ s.target = InitTarget /\ ~OutOfRetries(s)
  <2>1. x.at = "SaveRetry" /\ x.mac = r.mac /\ x.state = RetriedState(s)
    BY <1>s, <1>4, Zenon DEF PollChoice, PollRequest
  <2>2. s \in ServerState
    BY <1>1, <1>4, Zenon DEF StateOrNone
  <2>3. s.retry \in Nat /\ s.age \in Nat
    BY <2>2, ConstantsAssumption DEF ServerState, AgeCap
  <2>4. RetriedState(s) # NoState
    BY <1>4, <2>2, RetriedType, SentinelsAssumption, Zenon
  <2>5. RetriedState(s).retry = s.retry + 1 /\ RetriedState(s).age = 0
    BY <2>2, Zenon DEF RetriedState, ServerState
  <2>6. s.retry <= MaxRetry /\ 0 <= s.age
    BY <1>4, <2>3, ConstantsAssumption, SMTT(30) DEF OutOfRetries
  <2> QED BY <1>s, <1>4, <2>1, <2>4, <2>5, <2>6, Zenon DEF PollInTouch
<1>5. CASE s # NoState /\ s.target = InitTarget /\ OutOfRetries(s)
  <2>1. x.at = "DeleteTimedOut" /\ x.mac = r.mac
    BY <1>s, <1>5, Zenon DEF PollChoice, PollRequest
  <2>2. s.retry = MaxRetry + 1
    BY <1>1, <1>5, ConstantsAssumption, SMTT(30) DEF StateOrNone, ServerState, OutOfRetries
  <2> QED BY <1>s, <1>5, <2>1, <2>2, Zenon DEF PollInTouch
<1> QED BY <1>s, <1>1, <1>2, <1>3, <1>4, <1>5, Zenon

\* Two states that grow older together keep what a request compares.
LEMMA AgedTogether ==
  ASSUME NEW a \in StateOrNone, NEW b \in StateOrNone
  PROVE  /\ a # NoState => Aged(a).retry = a.retry
         /\ a # NoState /\ b # NoState /\ a.age <= b.age => Aged(a).age <= Aged(b).age
<1>1. ASSUME NEW c \in StateOrNone, c # NoState
      PROVE  /\ c \in ServerState /\ c.age \in Nat /\ c.retry \in Nat
             /\ Aged(c).retry = c.retry
             /\ Aged(c).age = IF c.age >= AgeCap THEN c.age ELSE c.age + 1
             /\ c.age <= AgeCap
  <2>1. c \in ServerState
    BY <1>1, Zenon DEF StateOrNone
  <2>2. c.age \in 0 .. AgeCap /\ c.retry \in 1 .. MaxRetry + 1
    BY <2>1, Zenon DEF ServerState
  <2>3. c.age \in Nat /\ c.retry \in Nat /\ c.age <= AgeCap
    BY <2>2, ConstantsAssumption DEF AgeCap
  <2>4. CASE c.age >= AgeCap
    BY <1>1, <2>1, <2>3, <2>4, Zenon DEF Aged
  <2>5. CASE ~(c.age >= AgeCap)
    <3>1. Aged(c) = [c EXCEPT !.age = c.age + 1]
      BY <1>1, <2>5, Zenon DEF Aged
    <3> QED BY <2>1, <2>3, <2>5, <3>1, Zenon DEF ServerState
  <2> QED BY <2>4, <2>5, Zenon
<1>2. AgeCap \in Nat
  BY ConstantsAssumption DEF AgeCap
<1> QED BY <1>1, <1>2

\* Time passing keeps every request in touch.
LEMMA TickTouch ==
  ASSUME InTouch, Serial', IndInv, Tick
  PROVE  InTouch'
<1>1. /\ store' = [m \in Mac |-> Aged(store[m])]
      /\ poll' = [p \in Poller |-> IF poll[p] = Idle THEN Idle
                    ELSE [poll[p] EXCEPT !.state = Aged(poll[p].state)]]
      /\ update' = [o \in Operator |-> IF update[o] = Idle THEN Idle
                    ELSE [update[o] EXCEPT !.state = Aged(update[o].state)]]
  BY Zenon DEF Tick
<1>2. ASSUME NEW p \in Poller, poll'[p] # Idle PROVE PollInTouch(poll[p])'
  <2>1. PICK r, s, x, a, b : /\ r = poll[p] /\ s = store[r.mac] /\ x = poll'[p]
                             /\ a = Aged(r.state) /\ b = Aged(s)
    BY Zenon
  <2>2. r # Idle
    BY <1>1, <1>2, <2>1, Zenon
  <2>3. /\ r \in PollRequest /\ r.mac \in Mac /\ r.state \in StateOrNone
        /\ s \in StateOrNone /\ PollInTouch(r)
    BY <2>1, <2>2, RequestTypes, Zenon DEF InTouch, IndInv, TypeOK
  <2>4. x = [r EXCEPT !.state = a]
    BY <1>1, <2>1, <2>2, Zenon
  <2>5. /\ x.at = r.at /\ x.mac = r.mac /\ x.state = a
        /\ x.how = r.how /\ x.target = r.target
    BY <2>3, <2>4, Zenon DEF PollRequest
  <2>6. store'[x.mac] = b
    BY <1>1, <2>1, <2>3, <2>5, Zenon
  <2>7. /\ a = NoState <=> r.state = NoState
        /\ b = NoState <=> s = NoState
        /\ s # NoState => b.target = s.target /\ b.retry = s.retry
        /\ r.state # NoState => a.retry = r.state.retry
        /\ r.state # NoState /\ s # NoState /\ r.state.age <= s.age => a.age <= b.age
    BY <2>1, <2>3, AgedType, AgedTogether, Zenon
  <2>8. PollInTouch(x)'
    BY <2>1, <2>3, <2>5, <2>6, <2>7, ZenonT(30) DEF PollInTouch
  <2> QED BY <2>1, <2>8, Zenon
<1>3. ASSUME NEW o \in Operator, update'[o] # Idle PROVE UpdateInTouch(update[o])'
  <2>1. PICK r, s, x, a, b : /\ r = update[o] /\ s = store[r.mac] /\ x = update'[o]
                             /\ a = Aged(r.state) /\ b = Aged(s)
    BY Zenon
  <2>2. r # Idle
    BY <1>1, <1>3, <2>1, Zenon
  <2>3. /\ r \in UpdateRequest /\ r.mac \in Mac /\ r.state \in StateOrNone
        /\ s \in StateOrNone /\ UpdateInTouch(r)
        /\ r.at # "GetState" => r.state # NoState
    BY <2>1, <2>2, RequestTypes, Zenon DEF InTouch, IndInv, TypeOK, TrailInv, UpdateKnows
  <2>4. x = [r EXCEPT !.state = a]
    BY <1>1, <2>1, <2>2, Zenon
  <2>5. x.at = r.at /\ x.mac = r.mac /\ x.state = a
    BY <2>3, <2>4, Zenon DEF UpdateRequest
  <2>6. store'[x.mac] = b
    BY <1>1, <2>1, <2>3, <2>5, Zenon
  <2>7. /\ b = NoState <=> s = NoState
        /\ s # NoState => b.retry = s.retry
        /\ r.state # NoState => a.retry = r.state.retry
        /\ r.state # NoState /\ s # NoState /\ r.state.age <= s.age => a.age <= b.age
    BY <2>1, <2>3, AgedType, AgedTogether, ZenonT(30)
  <2>8. UpdateInTouch(x)'
    BY <2>1, <2>3, <2>5, <2>6, <2>7, Zenon DEF UpdateInTouch
  <2> QED BY <2>1, <2>8, Zenon
<1> QED BY <1>2, <1>3, Zenon DEF InTouch

\* A poll's step keeps every request in touch.
LEMMA PollStepTouch ==
  ASSUME InTouch, Serial', IndInv, NEW p \in Poller, PollStepOf(p)
  PROVE  InTouch'
<1>1. PICK r : r = poll[p]
  BY Zenon
<1>2. /\ r # Idle /\ r \in PollRequest /\ r.mac \in Mac /\ PollKnows(r)
      /\ UNCHANGED update
  BY <1>1, RequestTypes, Zenon DEF IndInv, TrailInv, PollStepOf, PollGetState, PollQueueServer,
       PollHostPoll, PollSaveRetry, PollDeleteTimedOut, PollDeleteSelected, PollHostBoot,
       PollCreateSession, PollRender, PollFails
<1>3. CASE PollGetState(p)
  <2>1. PICK x : x = PollChoice(r, store[r.mac])
    BY ZenonT(30)
  <2>2. poll' = [poll EXCEPT ![p] = x] /\ store' = store /\ r.at = "GetState"
    BY <1>1, <1>3, <2>1, ZenonT(30) DEF PollGetState, persisted
  <2>3. PollInTouch(x)
    BY <1>2, <2>1, <2>2, ChoiceTouch, ZenonT(30) DEF PollKnows
  <2>4. PollInTouch(x)'
    BY <2>2, <2>3, Zenon DEF PollInTouch
  <2> QED BY <1>2, <2>2, <2>4, PollTouch, ZenonT(30)
<1>4. CASE ~PollGetState(p)
  <2>1. PICK x : /\ poll' = [poll EXCEPT ![p] = x]
                 /\ \/ x = Idle
                    \/ \E at \in {"HostPoll", "HostBoot", "CreateSession", "Render"} :
                         x = [r EXCEPT !.at = at]
    BY <1>1, <1>4, ZenonT(30) DEF PollStepOf, PollQueueServer,
       PollHostPoll, PollSaveRetry, PollDeleteTimedOut, PollDeleteSelected, PollHostBoot,
       PollCreateSession, PollRender, PollFails, PollAt, PollOver
  <2>2. PICK s : store' = store \/ store' = [store EXCEPT ![r.mac] = s]
    BY <1>1, <1>4, Zenon DEF PollStepOf, PollQueueServer, persisted,
       PollHostPoll, PollSaveRetry, PollDeleteTimedOut, PollDeleteSelected, PollHostBoot,
       PollCreateSession, PollRender, PollFails
  <2>3. x # Idle => PollInTouch(x)'
    BY <1>2, <2>1, Zenon DEF PollInTouch, PollRequest
  <2> QED BY <1>1, <1>2, <2>1, <2>2, <2>3, PollTouch, Zenon
<1> QED BY <1>3, <1>4, Zenon

\* An update's step keeps every request in touch.
LEMMA UpdateStepTouch ==
  ASSUME InTouch, Serial', IndInv, NEW o \in Operator, UpdateStepOf(o)
  PROVE  InTouch'
<1>1. PICK r, s : r = update[o] /\ s = store[r.mac]
  BY Zenon
<1>2. /\ r # Idle /\ r \in UpdateRequest /\ r.mac \in Mac /\ r.target \in Target
      /\ r.host \in Hostname /\ s \in StateOrNone /\ UpdateKnows(r) /\ UpdateInTouch(r)
      /\ UNCHANGED poll
  BY <1>1, RequestTypes, Zenon DEF InTouch, IndInv, TypeOK, TrailInv, UpdateStepOf,
       UpdateGetState, UpdateUserSelection, UpdateSaveState, UpdateFails
<1>3. CASE UpdateGetState(o)
  <2>1. PICK x : /\ update' = [update EXCEPT ![o] = x] /\ store' = store
                 /\ \/ x = Idle
                    \/ s # NoState /\ x = [r EXCEPT !.at = "UserSelection", !.state = s]
    <3>1. CASE UpdateAccepts(r, s)
      BY <1>1, <1>3, <3>1, Zenon DEF UpdateGetState, UpdateAccepts, persisted, IndInv, TypeOK
    <3>2. CASE ~UpdateAccepts(r, s)
      BY <1>1, <1>3, <3>2, Zenon DEF UpdateGetState, UpdateOver, persisted
    <3> QED BY <3>1, <3>2, Zenon
  <2>2. x # Idle => x.mac = r.mac /\ x.state = s /\ s # NoState
    BY <1>2, <2>1, ZenonT(30) DEF UpdateRequest
  <2>3. s # NoState => s.age <= s.age
    BY <1>2, ConstantsAssumption, SMTT(30) DEF StateOrNone, ServerState, AgeCap
  <2>4. x # Idle => UpdateInTouch(x)'
    BY <1>1, <2>1, <2>2, <2>3, Zenon DEF UpdateInTouch
  <2> QED BY <1>2, <2>1, <2>4, UpdateTouch, Zenon
<1>4. CASE UpdateUserSelection(o)
  <2>1. PICK t, x : /\ t = SelectedState(r.state, r.target, r.host)
                    /\ x = [r EXCEPT !.at = "SaveState", !.state = t]
    BY Zenon
  <2>2. update' = [update EXCEPT ![o] = x] /\ store' = store /\ r.at = "UserSelection"
    BY <1>1, <1>4, <2>1, Zenon DEF UpdateUserSelection, IndInv, TypeOK
  <2>3. r.state \in ServerState
    BY <1>2, <2>2, Zenon DEF UpdateKnows, UpdateRequest, StateOrNone
  <2>4. t.retry = r.state.retry /\ t.age = 0
    BY <2>1, <2>3, Zenon DEF SelectedState, ServerState
  <2>5. x.mac = r.mac /\ x.state = t
    BY <1>2, <2>1, Zenon DEF UpdateRequest
  <2>6. s # NoState /\ r.state.retry = s.retry
    BY <1>1, <1>2, <2>2, Zenon DEF UpdateInTouch
  <2>7. 0 <= s.age
    BY <1>2, <2>6, ConstantsAssumption DEF StateOrNone, ServerState, AgeCap
  <2>8. UpdateInTouch(x)'
    BY <1>1, <2>2, <2>4, <2>5, <2>6, <2>7, Zenon DEF UpdateInTouch
  <2> QED BY <1>2, <2>2, <2>8, UpdateTouch, Zenon
<1>5. CASE UpdateSaveState(o) \/ UpdateFails(o)
  <2>1. /\ update' = [update EXCEPT ![o] = Idle]
        /\ store' = store \/ store' = [store EXCEPT ![update[o].mac] = r.state]
    BY <1>1, <1>5, Zenon DEF UpdateSaveState, UpdateFails, UpdateOver, persisted
  <2> QED BY <1>1, <1>2, <2>1, UpdateTouch, ZenonT(30)
<1> QED BY <1>3, <1>4, <1>5, Zenon DEF UpdateStepOf

\* Without overlap every request stays in touch with the store.
LEMMA TouchStep ==
  ASSUME InTouch, IndInv, [Next /\ Serial']_vars
  PROVE  InTouch'
<1>1. CASE UNCHANGED vars
  BY <1>1, ZenonT(30) DEF vars, InTouch, Serial, Quiet, PollInTouch, UpdateInTouch
<1>2. ASSUME Serial', NEW p \in Poller, NEW m \in Mac, NEW h \in Hostname, PollStart(p, m, h)
      PROVE  InTouch'
  <2> DEFINE auto == Policy[<<m, h>>].auto
  <2>0. PICK x :
          x = [at |-> IF auto = InitTarget THEN "GetState" ELSE "HostBoot",
               mac |-> m, host |-> h, target |-> auto,
               how |-> IF auto = InitTarget THEN "manual" ELSE "auto", state |-> NoState]
    BY ZenonT(30)
  <2>1. poll' = [poll EXCEPT ![p] = x] /\ x.at \in {"GetState", "HostBoot"}
    BY <1>2, <2>0, ZenonT(30) DEF PollStart
  <2>2. PollInTouch(x)' /\ UNCHANGED <<store, update>>
    BY <1>2, <2>1, Zenon DEF PollInTouch, PollStart, persisted
  <2> QED BY <1>2, <2>1, <2>2, PollTouch, Zenon
<1>3. ASSUME Serial', NEW o \in Operator, NEW m \in Mac, NEW t \in Target, NEW h \in Hostname,
             UpdateStart(o, m, t, h)
      PROVE  InTouch'
  <2>0. PICK x : x = [at |-> "GetState", mac |-> m, target |-> t, host |-> h,
                      state |-> NoState]
    BY ZenonT(30)
  <2>1. update' = [update EXCEPT ![o] = x] /\ x.at = "GetState"
    BY <1>3, <2>0, Zenon DEF UpdateStart
  <2>2. UpdateInTouch(x)' /\ UNCHANGED <<store, poll>>
    BY <1>3, <2>1, Zenon DEF UpdateInTouch, UpdateStart, persisted
  <2> QED BY <1>3, <2>1, <2>2, UpdateTouch, Zenon
<1>4. ASSUME Serial', CleanStart \/ CleanDelete \/ CleanFails PROVE InTouch'
  <2>1. CASE CleanStart \/ CleanFails
    <3>1. UNCHANGED <<store, poll, update>>
      BY <2>1, Zenon DEF CleanStart, CleanFails, persisted
    <3>2. poll' = poll /\ update' = update /\ store' = store
      BY <3>1, Zenon
    <3> QED BY <1>4, <3>2, ZenonT(30) DEF InTouch, PollInTouch, UpdateInTouch
  <2>2. CASE CleanDelete
    <3>1. \A m \in Mac : Quiet(m)
      BY <2>2, ZenonT(30) DEF CleanDelete, InTouch, Serial
    <3>2. /\ \A p \in Poller : poll[p] = Idle
          /\ \A o \in Operator : update[o] = Idle
      BY <3>1, RequestTypes, Zenon DEF Quiet, IndInv
    <3> QED BY <1>4, <2>2, <3>2, ZenonT(30) DEF CleanDelete, InTouch
  <2> QED BY <1>4, <2>1, <2>2, Zenon
<1>5. ASSUME Serial', Restart PROVE InTouch'
  BY <1>5, Zenon DEF Restart, InTouch
<1>6. CASE Next /\ Serial'
  BY <1>2, <1>3, <1>4, <1>5, <1>6, PollStepTouch, UpdateStepTouch, TickTouch, Zenon DEF Next
<1> QED BY <1>1, <1>6, Zenon

\* Nothing is in flight at the start.
LEMMA TouchInit == Init => InTouch
BY Zenon DEF Init, InTouch, Serial

\* In every behaviour without overlap every request is in touch.
THEOREM SerialInvariance == SerialSpec => [](IndInv /\ InTouch)
<1>1. Init => IndInv /\ InTouch
  BY IndInvInit, TouchInit, Zenon
<1>2. IndInv /\ InTouch /\ [Next /\ Serial']_vars => (IndInv /\ InTouch)'
  <2>1. [Next /\ Serial']_vars => [Next]_vars
    BY Zenon
  <2> QED BY <2>1, IndInvStep, TouchStep, Zenon
<1> QED BY <1>1, <1>2, PTL DEF SerialSpec
-----------------------------------------------------------------------------
(* Without overlap the polling service implements ManualQueue. *)

\* A stored state is an entry of the queue.
LEMMA EntryType ==
  ASSUME NEW s \in ServerState
  PROVE  /\ QueueEntry(s) \in Queue!Entry /\ QueueEntry(s) # NoState
         /\ QueueEntry(s) = [selected |-> {s.target} \ {InitTarget},
                             polls |-> s.retry, idle |-> s.age]
         /\ QueueEntry(s).selected = {s.target} \ {InitTarget}
         /\ QueueEntry(s).polls = s.retry /\ QueueEntry(s).idle = s.age
         /\ s.retry \in 1 .. MaxRetry + 1 /\ s.age \in 0 .. AgeCap
<1>1. s # NoState
  BY SentinelsAssumption, Zenon
<1>2. QueueEntry(s) = [selected |-> {s.target} \ {InitTarget},
                       polls |-> s.retry, idle |-> s.age]
  BY <1>1, Zenon DEF QueueEntry
<1>3. /\ s.retry \in 1 .. MaxRetry + 1 /\ s.age \in 0 .. AgeCap
      /\ {s.target} \ {InitTarget} \in SUBSET Target
  BY Zenon DEF ServerState, TargetOrInit
<1>4. QueueEntry(s) \in Queue!Entry
  BY <1>2, <1>3 DEF Queue!Entry
<1>5. QueueEntry(s) # NoState
  BY <1>4, AbsentAssumption, Zenon
<1>6. /\ QueueEntry(s).selected = {s.target} \ {InitTarget}
      /\ QueueEntry(s).polls = s.retry /\ QueueEntry(s).idle = s.age
  BY <1>2, SMTT(30)
<1> QED BY <1>2, <1>3, <1>4, <1>5, <1>6, Zenon

\* The queue has an entry exactly for the hosts that have a state.
LEMMA EntryOf ==
  ASSUME TypeOK, NEW m \in Mac
  PROVE  /\ Entries[m] = QueueEntry(store[m])
         /\ Queue!Present(m) <=> store[m] # NoState
         /\ store[m] # NoState => store[m] \in ServerState
<1>1. store[m] \in StateOrNone /\ Entries[m] = QueueEntry(store[m])
  BY Zenon DEF TypeOK, Entries
<1>2. store[m] # NoState => store[m] \in ServerState
  BY <1>1, Zenon DEF StateOrNone
<1> QED BY <1>1, <1>2, EntryType, Zenon DEF Queue!Present, QueueEntry

\* Writing one state writes one entry.
LEMMA EntryWrite ==
  ASSUME TypeOK, NEW m \in Mac, NEW s, store' = [store EXCEPT ![m] = s]
  PROVE  /\ Entries' = [Entries EXCEPT ![m] = QueueEntry(s)]
         /\ s = NoState => Queue!Drop({m})
<1>1. Entries' = [Entries EXCEPT ![m] = QueueEntry(s)]
  BY Zenon DEF TypeOK, Entries
<1>2. ASSUME s = NoState PROVE Queue!Drop({m})
  BY <1>1, <1>2, Zenon DEF Queue!Drop, QueueEntry, Entries
<1> QED BY <1>1, <1>2, Zenon

\* Every step of a poll is one step of the queue or leaves it alone.
LEMMA PollQueueStep ==
  ASSUME InTouch, IndInv, NEW p \in Poller, PollStepOf(p)
  PROVE  [Queue!Next]_Entries
<1>1. PICK r, m, s : r = poll[p] /\ m = r.mac /\ s = store[m]
  BY Zenon
<1>2. /\ r # Idle /\ r \in PollRequest /\ m \in Mac /\ r.state \in StateOrNone
      /\ PollKnows(r) /\ PollInTouch(r) /\ TypeOK
  BY <1>1, RequestTypes, ZenonT(30) DEF InTouch, IndInv, TrailInv, PollStepOf, PollGetState,
       PollQueueServer, PollHostPoll, PollSaveRetry, PollDeleteTimedOut,
       PollDeleteSelected, PollHostBoot, PollCreateSession, PollRender, PollFails
<1>3. r.state # NoState => r.state \in ServerState /\ r.state.target = InitTarget
  BY <1>2, Zenon DEF StateOrNone, PollKnows
<1>4. s # NoState => s \in ServerState
  BY <1>1, <1>2, EntryOf, Zenon
<1>e. {InitTarget} \ {InitTarget} = {}
  BY Zenon
<1>5. CASE PollQueueServer(p)
  <2>1. /\ store' = [store EXCEPT ![m] = r.state] /\ s = NoState
        /\ r.state # NoState /\ r.state.retry = 1
    BY <1>1, <1>2, <1>5, Zenon DEF PollQueueServer, PollInTouch
  <2>2. Entries' = [Entries EXCEPT ![m] = [selected |-> {}, polls |-> 1, idle |-> r.state.age]]
    <3>1. QueueEntry(r.state) = [selected |-> {}, polls |-> 1, idle |-> r.state.age]
      BY <1>3, <1>e, <2>1, EntryType, Zenon
    <3> QED BY <1>2, <2>1, <3>1, EntryWrite, Zenon
  <2>3. r.state.age \in 0 .. AgeCap /\ ~Queue!Present(m)
    BY <1>1, <1>2, <1>3, <2>1, EntryOf, EntryType, ZenonT(30)
  <2> QED BY <1>2, <2>2, <2>3, ZenonT(30) DEF Queue!Next, Queue!Enqueue
<1>6. CASE PollSaveRetry(p)
  <2>1. /\ store' = [store EXCEPT ![m] = r.state] /\ s # NoState
        /\ s.target = InitTarget /\ s.retry <= MaxRetry
        /\ r.state # NoState /\ r.state.retry = s.retry + 1 /\ r.state.age <= s.age
    BY <1>1, <1>2, <1>6, Zenon DEF PollSaveRetry, PollInTouch
  <2>2. /\ Entries[m].selected = {} /\ Entries[m].polls = s.retry /\ Entries[m].idle = s.age
        /\ Queue!Present(m)
    BY <1>1, <1>2, <1>4, <2>1, EntryOf, EntryType, ZenonT(30)
  <2>3. Entries' = [Entries EXCEPT ![m] =
                      [selected |-> {}, polls |-> s.retry + 1, idle |-> r.state.age]]
    <3>1. QueueEntry(r.state) = [selected |-> {}, polls |-> s.retry + 1, idle |-> r.state.age]
      BY <1>3, <1>e, <2>1, EntryType, ZenonT(30)
    <3> QED BY <1>2, <2>1, <3>1, EntryWrite, Zenon
  <2>4. r.state.age \in 0 .. s.age
    BY <1>3, <1>4, <2>1, EntryType, ConstantsAssumption DEF AgeCap
  <2> QED BY <1>2, <2>1, <2>2, <2>3, <2>4, Zenon DEF Queue!Next, Queue!Retry, Queue!Waits
<1>7. CASE PollDeleteTimedOut(p)
  <2>1. /\ store' = [store EXCEPT ![m] = NoState] /\ s # NoState
        /\ s.target = InitTarget /\ s.retry = MaxRetry + 1
    BY <1>1, <1>2, <1>7, Zenon DEF PollDeleteTimedOut, PollInTouch
  <2>2. Entries[m].selected = {} /\ Entries[m].polls = s.retry /\ Queue!Present(m)
    BY <1>1, <1>2, <1>4, <2>1, EntryOf, EntryType, ZenonT(30)
  <2> QED BY <1>2, <2>1, <2>2, EntryWrite, ZenonT(30) DEF Queue!Next, Queue!GiveUp, Queue!Waits
<1>8. CASE PollDeleteSelected(p)
  <2>1. /\ store' = [store EXCEPT ![m] = NoState] /\ s # NoState
        /\ s.target = r.target /\ r.target \in Target
    BY <1>1, <1>2, <1>8, Zenon DEF PollDeleteSelected, PollInTouch, PollKnows
  <2>2. Entries[m].selected # {} /\ Queue!Present(m)
    <3>1. {s.target} \ {InitTarget} # {}
      BY <2>1, ConstantsAssumption, Zenon
    <3>2. Entries[m].selected = {s.target} \ {InitTarget} /\ Queue!Present(m)
      BY <1>1, <1>2, <1>4, <2>1, EntryOf, EntryType, Zenon
    <3> QED BY <3>1, <3>2, ZenonT(30)
  <2> QED BY <1>2, <2>1, <2>2, EntryWrite, ZenonT(30) DEF Queue!Next, Queue!Boot, Queue!Waits
<1>9. CASE \/ PollGetState(p) \/ PollHostPoll(p) \/ PollHostBoot(p)
           \/ PollCreateSession(p) \/ PollRender(p) \/ PollFails(p)
  BY <1>9, Zenon DEF PollGetState, PollHostPoll, PollHostBoot, PollCreateSession, PollRender,
       PollFails, persisted, Entries
<1> QED BY <1>5, <1>6, <1>7, <1>8, <1>9, Zenon DEF PollStepOf

\* Every step of an update is one step of the queue or leaves it alone.
LEMMA UpdateQueueStep ==
  ASSUME InTouch, IndInv, NEW o \in Operator, UpdateStepOf(o)
  PROVE  [Queue!Next]_Entries
<1>1. PICK r, m, s : r = update[o] /\ m = r.mac /\ s = store[m]
  BY Zenon
<1>2. CASE UpdateSaveState(o)
  <2>1. /\ r # Idle /\ r.at = "SaveState" /\ store' = [store EXCEPT ![m] = r.state]
    BY <1>1, <1>2, Zenon DEF UpdateSaveState
  <2>2. /\ m \in Mac /\ r.target \in Target /\ r.state \in StateOrNone /\ TypeOK
        /\ UpdateKnows(r) /\ UpdateInTouch(r)
    BY <1>1, <2>1, RequestTypes, Zenon DEF InTouch, IndInv, TrailInv
  <2>3. /\ r.state \in ServerState /\ r.state.target = r.target
        /\ s # NoState /\ r.state.retry = s.retry /\ r.state.age <= s.age
    BY <1>1, <2>1, <2>2, Zenon DEF UpdateKnows, UpdateInTouch, StateOrNone
  <2>4. s \in ServerState /\ Entries[m].polls = s.retry /\ Entries[m].idle = s.age
        /\ Queue!Present(m)
    BY <1>1, <2>2, <2>3, EntryOf, EntryType, ZenonT(30)
  <2>5. {r.target} \ {InitTarget} = {r.target}
    BY <2>2, ConstantsAssumption, Zenon
  <2>6. Entries' = [Entries EXCEPT ![m] =
                      [selected |-> {r.target}, polls |-> s.retry, idle |-> r.state.age]]
    <3>1. QueueEntry(r.state) = [selected |-> {r.target}, polls |-> s.retry, idle |-> r.state.age]
      <4>1. QueueEntry(r.state) = [selected |-> {r.state.target} \ {InitTarget},
                                   polls |-> r.state.retry, idle |-> r.state.age]
        BY <2>3, EntryType, Zenon
      <4> QED BY <2>3, <2>5, <4>1, Zenon
    <3> QED BY <2>1, <2>2, <3>1, EntryWrite, ZenonT(30)
  <2>7. r.state.age \in 0 .. s.age
    BY <2>3, <2>4, EntryType, ConstantsAssumption DEF AgeCap
  <2> QED BY <2>2, <2>4, <2>6, <2>7, ZenonT(30) DEF Queue!Next, Queue!Select
<1>3. CASE UpdateGetState(o) \/ UpdateUserSelection(o) \/ UpdateFails(o)
  BY <1>3, Zenon DEF UpdateGetState, UpdateUserSelection, UpdateFails, persisted, Entries
<1> QED BY <1>2, <1>3, Zenon DEF UpdateStepOf

\* A sweep drops hosts that were inactive for longer than ExpireAfter.
LEMMA SweepQueueStep ==
  ASSUME IndInv, CleanDelete
  PROVE  Queue!Next
<1>0. TypeOK
  BY Zenon DEF IndInv
<1> DEFINE ms == {m \in Mac : Expired(store[m])}
<1>1. ASSUME NEW m \in ms PROVE Queue!Present(m) /\ Entries[m].idle > ExpireAfter
  <2>1. m \in Mac /\ store[m] # NoState /\ store[m].age > ExpireAfter + sweep
    BY <1>1, Zenon DEF Expired
  <2>2. store[m] \in ServerState /\ Queue!Present(m) /\ Entries[m].idle = store[m].age
    BY <1>0, <2>1, EntryOf, EntryType, Zenon
  <2>3. sweep \in Nat
    BY <1>0, ConstantsAssumption, SMTT(30) DEF CleanDelete, TypeOK
  <2>4. store[m].age \in Nat
    BY <2>2, EntryType, ConstantsAssumption DEF AgeCap
  <2> QED BY <2>1, <2>2, <2>3, <2>4, ConstantsAssumption
<1>2. ASSUME NEW m \in Mac
      PROVE  Entries'[m] = IF m \in ms THEN NoState ELSE Entries[m]
  BY Zenon DEF CleanDelete, Entries, QueueEntry
<1>3. Queue!Drop(ms)
  <2> HIDE DEF ms
  <2>1. Entries' = [m \in Mac |-> Entries'[m]]
    BY Zenon DEF Entries
  <2> QED BY <1>2, <2>1, Zenon DEF Queue!Drop
<1>4. ms \in SUBSET Mac
  BY Zenon
<1> HIDE DEF ms
<1> QED BY <1>1, <1>3, <1>4, Zenon DEF Queue!Next, Queue!Expire

\* Growing older changes the idle time of an entry only.
LEMMA IdleGrows ==
  ASSUME NEW a, NEW b, NEW c, NEW d
  PROVE  [[selected |-> a, polls |-> b, idle |-> c] EXCEPT !.idle = d]
           = [selected |-> a, polls |-> b, idle |-> d]
OBVIOUS

\* Time passes for the queue too.
LEMMA TickQueueStep ==
  ASSUME IndInv, Tick
  PROVE  Queue!Tick
<1>0. TypeOK
  BY Zenon DEF IndInv
<1>1. ASSUME NEW m \in Mac
      PROVE  Entries'[m] = IF Queue!Present(m) /\ Entries[m].idle < AgeCap
                           THEN [Entries[m] EXCEPT !.idle = Entries[m].idle + 1]
                           ELSE Entries[m]
  <2>1. Entries'[m] = QueueEntry(Aged(store[m])) /\ Entries[m] = QueueEntry(store[m])
    BY Zenon DEF Tick, Entries, QueueEntry
  <2>2. CASE store[m] = NoState
    BY <1>0, <2>1, <2>2, EntryOf, Zenon DEF Aged
  <2>3. CASE store[m] # NoState
    <3>1. PICK s : s = store[m]
      BY Zenon
    <3>2. /\ s \in ServerState /\ Queue!Present(m)
          /\ Entries[m] = [selected |-> {s.target} \ {InitTarget},
                           polls |-> s.retry, idle |-> s.age]
          /\ s.age \in 0 .. AgeCap
      BY <1>0, <2>1, <2>3, <3>1, EntryOf, EntryType, Zenon
    <3>3. CASE s.age >= AgeCap
      <4>1. Aged(store[m]) = store[m] /\ ~(s.age < AgeCap)
        BY <3>1, <3>2, <3>3, ConstantsAssumption DEF Aged, AgeCap
      <4>2. Entries[m].idle = s.age
        BY <3>2
      <4> QED BY <2>1, <4>1, <4>2, Zenon
    <3>4. CASE ~(s.age >= AgeCap)
      <4>1. PICK a : a = Aged(s)
        BY Zenon
      <4>2. a = [s EXCEPT !.age = s.age + 1]
        BY <2>3, <3>1, <3>4, <4>1, Zenon DEF Aged
      <4>3. s.age < AgeCap /\ s.age + 1 \in 0 .. AgeCap
        BY <3>2, <3>4, ConstantsAssumption DEF AgeCap
      <4>4. a \in ServerState /\ a.target = s.target /\ a.retry = s.retry /\ a.age = s.age + 1
        BY <3>2, <4>2, <4>3, ZenonT(30) DEF ServerState
      <4>5. QueueEntry(a) = [selected |-> {s.target} \ {InitTarget},
                             polls |-> s.retry, idle |-> s.age + 1]
        BY <4>4, EntryType, Zenon
      <4>6. Entries[m].idle = s.age
        BY <3>2
      <4>7. [Entries[m] EXCEPT !.idle = s.age + 1] =
              [selected |-> {s.target} \ {InitTarget}, polls |-> s.retry, idle |-> s.age + 1]
        BY <3>2, IdleGrows
      <4> QED BY <2>1, <3>1, <3>2, <4>1, <4>3, <4>5, <4>6, <4>7, Zenon
    <3> QED BY <3>3, <3>4, Zenon
  <2> QED BY <2>2, <2>3, Zenon
<1>2. Entries' = [m \in Mac |-> Entries'[m]]
  BY Zenon DEF Entries
<1> QED BY <1>1, <1>2, Zenon DEF Queue!Tick

\* Without overlap the handlers implement the atomic queue (Poll,
\* manualAction, UpdateTarget, CleanExpiredStates): every poll is counted once,
\* the timeout comes exactly after maxRetry + 1 polls, a selection stays until
\* a poll takes it, and only an inactive host expires, whatever call fails and
\* wherever the process stops.
THEOREM QueueRefinement == SerialSpec => ImplementsQueue
<1>1. Init => Queue!Init
  BY Zenon DEF Init, Queue!Init, Entries, QueueEntry
<1>2. IndInv /\ InTouch /\ [Next /\ Serial']_vars => [Queue!Next]_Entries
  <2> SUFFICES ASSUME IndInv, InTouch, [Next /\ Serial']_vars PROVE [Queue!Next]_Entries
    BY Zenon
  <2>1. CASE UNCHANGED store
    BY <2>1, Zenon DEF Entries
  <2>2. CASE \/ UNCHANGED vars \/ CleanStart \/ CleanFails \/ Restart
             \/ \E p \in Poller, m \in Mac, h \in Hostname : PollStart(p, m, h)
             \/ \E o \in Operator, m \in Mac, t \in Target, h \in Hostname :
                  UpdateStart(o, m, t, h)
    BY <2>1, <2>2, Zenon DEF vars, CleanStart, CleanFails, Restart, PollStart, UpdateStart, persisted
  <2>3. CASE Tick
    BY <2>3, TickQueueStep, Zenon DEF Queue!Next
  <2> QED BY <2>2, <2>3, PollQueueStep, UpdateQueueStep, SweepQueueStep, Zenon DEF Next
<1> QED BY <1>1, <1>2, SerialInvariance, PTL DEF SerialSpec, ImplementsQueue, Queue!Spec
-----------------------------------------------------------------------------
(* An acknowledged selection is kept. *)

\* What is owed to the host of the poll p is in the store or in p's hands.
LEMMA OwedToPoll ==
  ASSUME OwedInHand, InTouch, IndInv, NEW p \in Poller, poll[p] # Idle,
         NEW m, m = poll[p].mac, owed[m] # InitTarget
  PROVE  \/ store[m] # NoState /\ store[m].target = owed[m]
         \/ Delivering(p, m)
<1>1. m \in Mac
  BY RequestTypes, Zenon DEF IndInv
<1>2. ASSUME NEW q \in Poller, Delivering(q, m) PROVE q = p
  BY <1>2, Zenon DEF Delivering, InTouch, Serial
<1> QED BY <1>1, <1>2, Zenon DEF OwedInHand

\* A poll touches what is owed to its own host only.
LEMMA PollKept ==
  ASSUME OwedInHand, IndInv, NEW p \in Poller, NEW m \in Mac, NEW x, NEW s,
         poll[p] # Idle, m = poll[p].mac, poll' = [poll EXCEPT ![p] = x],
         store' = store \/ store' = [store EXCEPT ![m] = s],
         owed' = owed \/ owed' = [owed EXCEPT ![m] = InitTarget],
         owed'[m] # InitTarget =>
           \/ store'[m] # NoState /\ store'[m].target = owed'[m]
           \/ Delivering(p, m)'
  PROVE  OwedInHand'
<1>1. ASSUME NEW k \in Mac, owed'[k] # InitTarget, k # m
      PROVE  \/ store'[k] # NoState /\ store'[k].target = owed'[k]
             \/ \E q \in Poller : Delivering(q, k)'
  <2>1. owed'[k] = owed[k] /\ store'[k] = store[k]
    BY <1>1, Zenon DEF IndInv, TypeOK
  <2>2. ASSUME NEW q \in Poller, Delivering(q, k) PROVE Delivering(q, k)'
    <3>1. q # p
      BY <1>1, <2>2, Zenon DEF Delivering
    <3>2. poll'[q] = poll[q]
      BY <3>1, Zenon DEF IndInv, TypeOK
    <3> QED BY <2>1, <2>2, <3>2, Zenon DEF Delivering
  <2> QED BY <1>1, <2>1, <2>2, Zenon DEF OwedInHand
<1> QED BY <1>1, Zenon DEF OwedInHand

\* A step that leaves the polls alone keeps what is in their hands.
LEMMA UpdateKept ==
  ASSUME OwedInHand, UNCHANGED poll,
         \A m \in Mac :
           \/ owed'[m] = owed[m] /\ store'[m] = store[m]
           \/ owed'[m] # InitTarget => store'[m] # NoState /\ store'[m].target = owed'[m]
  PROVE  OwedInHand'
BY DEF OwedInHand, Delivering

\* A poll keeps what is owed to its host until it has delivered it, if no call
\* fails once the selection is out of the store.
LEMMA PollStepKept ==
  ASSUME OwedInHand, InTouch, IndInv, NoLateFaults, NEW p \in Poller, PollStepOf(p)
  PROVE  OwedInHand'
<1>1. PICK r, m : r = poll[p] /\ m = r.mac
  BY Zenon
<1>2. /\ r # Idle /\ r \in PollRequest /\ m \in Mac /\ r.how \in {"auto", "manual"}
      /\ r.at \in PollStep /\ r.state \in StateOrNone /\ PollKnows(r) /\ PollInTouch(r)
      /\ store \in [Mac -> StateOrNone] /\ owed \in [Mac -> TargetOrInit]
      /\ poll \in [Poller -> PollRequest \cup {Idle}]
  BY <1>1, RequestTypes, ZenonT(30) DEF InTouch, IndInv, TypeOK, TrailInv, PollStepOf, PollGetState,
       PollQueueServer, PollHostPoll, PollSaveRetry, PollDeleteTimedOut,
       PollDeleteSelected, PollHostBoot, PollCreateSession, PollRender, PollFails
<1>3. owed[m] # InitTarget =>
        \/ store[m] # NoState /\ store[m].target = owed[m]
        \/ r.at \in {"HostBoot", "CreateSession", "Render"} /\ r.how = "manual"
           /\ r.target = owed[m]
  BY <1>1, <1>2, OwedToPoll, Zenon DEF Delivering
<1>4. CASE PollGetState(p)
  <2>1. PICK x : poll' = [poll EXCEPT ![p] = x]
    BY <1>4, ZenonT(30) DEF PollGetState
  <2>2. store' = store /\ owed' = owed /\ r.at = "GetState"
    BY <1>1, <1>4, Zenon DEF PollGetState, persisted, history
  <2> QED BY <1>1, <1>2, <1>3, <2>1, <2>2, PollKept, Zenon
<1>5. CASE PollQueueServer(p) \/ PollSaveRetry(p) \/ PollDeleteTimedOut(p)
  <2>1. PICK x : poll' = [poll EXCEPT ![p] = x]
    BY <1>5, Zenon DEF PollQueueServer, PollSaveRetry, PollDeleteTimedOut, PollAt, PollOver
  <2>2. PICK s : store' = [store EXCEPT ![m] = s]
    BY <1>1, <1>5, Zenon DEF PollQueueServer, PollSaveRetry, PollDeleteTimedOut
  <2>3. /\ r.at \in {"QueueServer", "SaveRetry", "DeleteTimedOut"} /\ owed' = owed
    BY <1>1, <1>5, Zenon DEF PollQueueServer, PollSaveRetry, PollDeleteTimedOut, history
  <2>4. owed[m] = InitTarget
    BY <1>1, <1>2, <1>3, <2>3, Zenon DEF PollInTouch
  <2> QED BY <1>1, <1>2, <2>1, <2>2, <2>3, <2>4, PollKept, Zenon
<1>6. CASE PollDeleteSelected(p)
  <2>1. PICK x : x = [r EXCEPT !.at = "HostBoot"]
    BY Zenon
  <2>2. /\ poll' = [poll EXCEPT ![p] = x] /\ r.at = "DeleteSelected"
        /\ store' = [store EXCEPT ![m] = NoState] /\ owed' = owed
    BY <1>1, <1>6, <2>1, Zenon DEF PollDeleteSelected, PollAt, history
  <2>3. /\ x.at = "HostBoot" /\ x.mac = m /\ x.how = "manual" /\ x.target = r.target
        /\ x \in PollRequest
    BY <1>1, <1>2, <2>1, <2>2, Zenon DEF PollRequest, PollStep, PollInTouch
  <2>4. store[m].target = r.target
    BY <1>1, <1>2, <2>2, Zenon DEF PollInTouch
  <2>5. owed'[m] # InitTarget => Delivering(p, m)'
    BY <1>2, <1>3, <2>2, <2>3, <2>4, SentinelsAssumption, Zenon DEF Delivering
  <2> QED BY <1>1, <1>2, <2>2, <2>5, PollKept, Zenon
<1>7. CASE PollHostBoot(p) \/ PollCreateSession(p)
  <2>1. PICK x : /\ poll' = [poll EXCEPT ![p] = x]
                 /\ x = [r EXCEPT !.at = "CreateSession"] \/ x = [r EXCEPT !.at = "Render"]
    BY <1>1, <1>7, ZenonT(30) DEF PollHostBoot, PollCreateSession, PollAt
  <2>2. store' = store /\ owed' = owed
    BY <1>7, Zenon DEF PollHostBoot, PollCreateSession, history
  <2>3. /\ x.at \in {"CreateSession", "Render"} /\ x.mac = m /\ x.how = r.how
        /\ x.target = r.target /\ x \in PollRequest
    BY <1>1, <1>2, <2>1, Zenon DEF PollRequest, PollStep
  <2>4. \/ owed[m] = InitTarget
        \/ store[m] # NoState /\ store[m].target = owed[m]
        \/ Delivering(p, m)'
    BY <1>2, <1>3, <2>1, <2>2, <2>3, SentinelsAssumption, Zenon DEF Delivering
  <2> QED BY <1>1, <1>2, <2>1, <2>2, <2>4, PollKept, Zenon
<1>8. CASE PollRender(p)
  <2>1. /\ poll' = [poll EXCEPT ![p] = Idle] /\ store' = store
        /\ owed' = IF r.how = "manual" /\ owed[m] = r.target
                     THEN [owed EXCEPT ![m] = InitTarget] ELSE owed
    BY <1>1, <1>8, Zenon DEF PollRender, PollOver, persisted
  <2>2. owed'[m] # InitTarget => owed'[m] = owed[m] /\ ~(r.how = "manual" /\ owed[m] = r.target)
    BY <1>2, <2>1, Zenon
  <2>3. owed'[m] # InitTarget => store'[m] # NoState /\ store'[m].target = owed'[m]
    BY <1>3, <2>1, <2>2, Zenon
  <2>4. owed' = owed \/ owed' = [owed EXCEPT ![m] = InitTarget]
    BY <2>1, Zenon
  <2> QED BY <1>1, <1>2, <2>1, <2>3, <2>4, PollKept, ZenonT(30)
<1>9. CASE PollHostPoll(p)
  <2>1. poll' = [poll EXCEPT ![p] = Idle] /\ store' = store /\ owed' = owed /\ r.at = "HostPoll"
    BY <1>1, <1>9, Zenon DEF PollHostPoll, PollOver, history
  <2> QED BY <1>1, <1>2, <1>3, <2>1, PollKept, ZenonT(30)
<1>10. CASE PollFails(p)
  <2>1. poll' = [poll EXCEPT ![p] = Idle] /\ store' = store /\ owed' = owed
        /\ FaultAt[r.at] \in Faults
    BY <1>1, <1>10, Zenon DEF PollFails, PollOver, persisted, history
  <2>2. r.at \notin {"HostBoot", "CreateSession", "Render"}
    BY <1>2, <2>1, Zenon DEF NoLateFaults, FaultAt
  <2> QED BY <1>1, <1>2, <1>3, <2>1, <2>2, PollKept, ZenonT(30)
<1> QED BY <1>4, <1>5, <1>6, <1>7, <1>8, <1>9, <1>10, Zenon DEF PollStepOf

\* A selection that is owed stays in the store or on its way.
LEMMA KeptStep ==
  ASSUME OwedInHand, InTouch, IndInv, NoLateFaults, [Next]_vars
  PROVE  OwedInHand'
<1>0. /\ store \in [Mac -> StateOrNone] /\ owed \in [Mac -> TargetOrInit]
      /\ poll \in [Poller -> PollRequest \cup {Idle}]
  BY Zenon DEF IndInv, TypeOK
<1>1. CASE \/ UNCHANGED vars \/ CleanStart \/ CleanFails
           \/ \E o \in Operator, m \in Mac, t \in Target, h \in Hostname :
                UpdateStart(o, m, t, h)
  <2>1. UNCHANGED <<poll, store, owed>>
    BY <1>1, ZenonT(30) DEF vars, CleanStart, CleanFails, UpdateStart, persisted, history
  <2> QED BY <2>1, UpdateKept, Zenon
<1>2. ASSUME NEW p \in Poller, NEW m \in Mac, NEW h \in Hostname, PollStart(p, m, h)
      PROVE  OwedInHand'
  <2>1. UNCHANGED <<store, owed>> /\ \A q \in Poller : poll[q] # Idle => poll'[q] = poll[q]
    BY <1>0, <1>2, Zenon DEF PollStart, persisted, history
  <2>2. \A q \in Poller, k \in Mac : Delivering(q, k) => Delivering(q, k)'
    BY <2>1, Zenon DEF Delivering
  <2> QED BY <2>1, <2>2, Zenon DEF OwedInHand
<1>3. ASSUME NEW o \in Operator, UpdateStepOf(o) PROVE OwedInHand'
  <2>1. CASE UpdateSaveState(o)
    <3>1. PICK r, m : r = update[o] /\ m = r.mac
      BY Zenon
    <3>2. /\ m \in Mac /\ r.state # NoState /\ r.state.target = r.target
          /\ store' = [store EXCEPT ![m] = r.state] /\ owed' = [owed EXCEPT ![m] = r.target]
          /\ UNCHANGED poll
      BY <2>1, <3>1, RequestTypes, ZenonT(30) DEF UpdateSaveState, IndInv, TrailInv, UpdateKnows
    <3>3. ASSUME NEW k \in Mac
          PROVE  \/ owed'[k] = owed[k] /\ store'[k] = store[k]
                 \/ owed'[k] # InitTarget => store'[k] # NoState /\ store'[k].target = owed'[k]
      BY <1>0, <3>2, Zenon
    <3> QED BY <3>2, <3>3, UpdateKept, Zenon
  <2>2. CASE UpdateGetState(o) \/ UpdateUserSelection(o) \/ UpdateFails(o)
    <3>1. UNCHANGED <<poll, store, owed>>
      BY <2>2, Zenon DEF UpdateGetState, UpdateUserSelection, UpdateFails, persisted, history
    <3> QED BY <3>1, UpdateKept, Zenon
  <2> QED BY <1>3, <2>1, <2>2, Zenon DEF UpdateStepOf
<1>4. CASE CleanDelete
  <2>1. ASSUME NEW k \in Mac
        PROVE  \/ owed'[k] = owed[k] /\ store'[k] = store[k]
               \/ owed'[k] # InitTarget => store'[k] # NoState /\ store'[k].target = owed'[k]
    BY <1>0, <1>4, Zenon DEF CleanDelete
  <2> QED BY <1>4, <2>1, UpdateKept, ZenonT(30) DEF CleanDelete
<1>5. CASE Tick
  <2>1. /\ store' = [m \in Mac |-> Aged(store[m])]
        /\ poll' = [p \in Poller |-> IF poll[p] = Idle THEN Idle
                      ELSE [poll[p] EXCEPT !.state = Aged(poll[p].state)]]
        /\ owed' = owed
    BY <1>5, Zenon DEF Tick, history
  <2>2. \A k \in Mac : /\ store'[k] = NoState <=> store[k] = NoState
                       /\ store[k] # NoState => store'[k].target = store[k].target
    BY <1>0, <2>1, AgedType, Zenon
  <2>3. ASSUME NEW q \in Poller, NEW k \in Mac, Delivering(q, k) PROVE Delivering(q, k)'
    <3>1. PICK r, a, x : r = poll[q] /\ a = Aged(r.state) /\ x = poll'[q]
      BY Zenon
    <3>2. r # Idle /\ r \in PollRequest /\ a \in StateOrNone
      BY <2>3, <3>1, RequestTypes, AgedType, Zenon DEF Delivering, IndInv
    <3>3. x = [r EXCEPT !.state = a]
      BY <2>1, <3>1, <3>2, Zenon
    <3>4. /\ x.at = r.at /\ x.mac = r.mac /\ x.how = r.how /\ x.target = r.target
          /\ x \in PollRequest
      BY <3>2, <3>3, Zenon DEF PollRequest
    <3> QED BY <2>1, <2>3, <3>1, <3>4, SentinelsAssumption, Zenon DEF Delivering
  <2> QED BY <2>1, <2>2, <2>3, Zenon DEF OwedInHand
<1>6. CASE Restart
  BY <1>6, Zenon DEF Restart, NoLateFaults
<1> QED BY <1>1, <1>2, <1>3, <1>4, <1>5, <1>6, PollStepKept, Zenon DEF Next

\* An acknowledged selection is kept (the comment of BootAction): while no
\* request for the host is served, the store holds what was selected and not
\* yet delivered or expired.  It takes that requests do not overlap and that
\* nothing fails between DeleteState and the delivery.
THEOREM SelectionIsKept == ASSUME NoLateFaults PROVE SerialSpec => []SelectionKept
<1>1. Init => OwedInHand
  BY Zenon DEF Init, OwedInHand
<1>2. IndInv /\ InTouch /\ OwedInHand /\ [Next /\ Serial']_vars => OwedInHand'
  BY KeptStep, Zenon
<1>3. OwedInHand => SelectionKept
  BY Zenon DEF OwedInHand, SelectionKept, Delivering, Quiet
<1> QED BY <1>1, <1>2, <1>3, SerialInvariance, PTL DEF SerialSpec
=============================================================================
