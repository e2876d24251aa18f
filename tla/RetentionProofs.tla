-------------------------- MODULE RetentionProofs --------------------------
(***************************************************************************)
(* Proofs about BootSessions, for any refs, snapshots, numbers of          *)
(* concurrent calls, retention, clock bound and failing calls; and about   *)
(* Lifecycle, the start and the end of the cleaners that delete what has   *)
(* expired, for any callers of Close and any choice of enabled cleaners.   *)
(***************************************************************************)
EXTENDS BootSessions, Lifecycle, TLAPS

\* One session per ref; only issued ones are stored; a session about to be
\* inserted shares its ref with no other.
RefsUnique ==
  /\ sessions \subseteq issued
  /\ \A s, u \in issued : s.ref = u.ref => s = u
  /\ \A c \in Creator : create[c] # Idle => \A s \in issued : s.ref # create[c].ref
  /\ \A c, d \in Creator : create[c] # Idle /\ create[d] # Idle /\ c # d
       => create[c].ref # create[d].ref

\* A lookup asked in the past, and a known ref was issued.
LookupKnows ==
  \A i \in Installer : lookup[i] # Idle
    => /\ lookup[i].asked <= now
       /\ lookup[i].known => \E s \in issued : s.ref = lookup[i].ref

IndInv == /\ TypeOK /\ RefsUnique /\ LookupKnows
          /\ UnexpiredKept /\ MissingMeansExpired /\ FoundMeansOwn

\* The invariant holds initially.
LEMMA SessionsInit == Init => IndInv
BY SessionConstants DEF Init, IndInv, TypeOK, Time, RefsUnique, LookupKnows,
     UnexpiredKept, MissingMeansExpired, FoundMeansOwn

\* Creations: the new session is stamped, inserted once and issued.
LEMMA CreateInv ==
  ASSUME IndInv, NEW c \in Creator,
         \/ \E r \in Ref, x \in Snapshot : CreateStart(c, r, x)
         \/ CreateInsert(c) \/ CreateFails(c)
  PROVE  IndInv'
<1> USE DEF IndInv
<1>1. CASE \E r \in Ref, x \in Snapshot : CreateStart(c, r, x)
  <2>1. PICK r \in Ref, x \in Snapshot : CreateStart(c, r, x)
    BY <1>1, Zenon
  <2>2. PICK s : s = NewSession(r, x)
    BY Zenon
  <2>3. s \in Session /\ s.ref = r
    BY <2>2, SessionConstants DEF NewSession, Session, TypeOK, Time
  <2>4. /\ create' = [create EXCEPT ![c] = s]
        /\ UNCHANGED <<now, sessions, lookup, cutoff, issued>>
    BY <2>1, <2>2, Zenon DEF CreateStart
  <2>5. TypeOK'
    BY <2>3, <2>4, Zenon DEF TypeOK
  <2>6. RefsUnique'
    BY <2>1, <2>3, <2>4 DEF RefsUnique, CreateStart, FreshRef, TypeOK
  <2>7. LookupKnows' /\ UnexpiredKept' /\ MissingMeansExpired' /\ FoundMeansOwn'
    BY <2>4, Zenon DEF LookupKnows, UnexpiredKept, MissingMeansExpired, FoundMeansOwn, Unexpired
  <2> QED BY <2>5, <2>6, <2>7, Zenon
<1>2. CASE CreateInsert(c)
  <2>1. PICK s : s = create[c]
    BY Zenon
  <2>2. /\ s \in Session /\ s # Idle
        /\ sessions' = sessions \cup {s} /\ issued' = issued \cup {s}
        /\ create' = [create EXCEPT ![c] = Idle]
        /\ UNCHANGED <<now, lookup, cutoff>>
    BY <1>2, <2>1, Zenon DEF CreateInsert, TypeOK
  <2>3. \A u \in issued : u.ref # s.ref
    BY <2>1, <2>2, Zenon DEF RefsUnique
  <2>4. TypeOK'
    BY <2>2, Zenon DEF TypeOK
  <2>5. RefsUnique'
    BY <2>1, <2>2, <2>3 DEF RefsUnique, TypeOK
  <2>6. LookupKnows' /\ UnexpiredKept'
    BY <2>2, Zenon DEF LookupKnows, UnexpiredKept, Unexpired
  <2>7. MissingMeansExpired'
    BY <2>2, <2>3, Zenon DEF MissingMeansExpired, LookupKnows, Unexpired
  <2>8. FoundMeansOwn'
    BY <2>2, Zenon DEF FoundMeansOwn
  <2> QED BY <2>4, <2>5, <2>6, <2>7, <2>8, Zenon
<1>3. CASE CreateFails(c)
  BY <1>3 DEF CreateFails, TypeOK, RefsUnique, LookupKnows, UnexpiredKept,
       MissingMeansExpired, FoundMeansOwn, Unexpired
<1> QED BY <1>1, <1>2, <1>3, Zenon

\* Lookups: the query finds the one live session of its ref, or none is live.
LEMMA LookupInv ==
  ASSUME IndInv, NEW i \in Installer,
         \/ \E r \in Ref : LookupStart(i, r)
         \/ LookupQuery(i) \/ LookupEnd(i)
  PROVE  IndInv'
<1> USE DEF IndInv
<1>1. UNCHANGED <<now, sessions, create, cutoff, issued>>
  BY Zenon DEF LookupStart, LookupQuery, LookupEnd
<1>2. RefsUnique' /\ UnexpiredKept'
  BY <1>1, Zenon DEF RefsUnique, UnexpiredKept, Unexpired
<1>3. PICK q : /\ lookup' = [lookup EXCEPT ![i] = q]
               /\ q \in Lookup \cup {Idle}
               /\ q # Idle =>
                    /\ q.asked <= now
                    /\ q.known => \E s \in issued : s.ref = q.ref
                    /\ q.answer = "missing" /\ q.known
                         => \A s \in issued : s.ref = q.ref => ~Unexpired(s, now)
                    /\ q.answer = "found"
                         => \E s \in issued : /\ s.ref = q.ref /\ q.snaps = {s.snap}
                                              /\ q.asked < s.expires
  <2>1. CASE \E r \in Ref : LookupStart(i, r)
    <3>1. PICK r \in Ref : LookupStart(i, r)
      BY <2>1, Zenon
    <3>2. PICK q : q = [ref |-> r, known |-> \E s \in issued : s.ref = r,
                        asked |-> now, answer |-> "none", snaps |-> {}]
      BY Zenon
    <3>3. q \in Lookup
      BY <3>2, Zenon DEF Lookup, Answer, TypeOK
    <3>4. lookup' = [lookup EXCEPT ![i] = q]
      BY <3>1, <3>2, Zenon DEF LookupStart
    <3>5. /\ q.asked = now /\ q.answer = "none" /\ q.ref = r
          /\ q.known => \E s \in issued : s.ref = r
      BY <3>2, Zenon
    <3>6. now <= now
      BY SessionConstants DEF TypeOK, Time
    <3>7. q.asked <= now /\ q.answer # "missing" /\ q.answer # "found"
      BY <3>5, <3>6, Zenon
    <3>8. q.known => \E s \in issued : s.ref = q.ref
      BY <3>5, Zenon
    <3> HIDE DEF IndInv
    <3> QED BY <3>3, <3>4, <3>7, <3>8, Zenon
  <2>2. CASE LookupEnd(i)
    BY <2>2, Zenon DEF LookupEnd
  <2>3. CASE LookupQuery(i)
    <3>1. PICK l : l = lookup[i]
      BY Zenon
    <3>2. l # Idle /\ l \in Lookup
      BY <2>3, <3>1, Zenon DEF LookupQuery, TypeOK
    <3>3. PICK hits : hits = {s \in sessions : s.ref = l.ref /\ Unexpired(s, l.asked)}
      BY Zenon
    <3>4. PICK q : q = [l EXCEPT !.answer = IF hits = {} THEN "missing" ELSE "found",
                                 !.snaps = {s.snap : s \in hits}]
      BY Zenon
    <3>5. lookup' = [lookup EXCEPT ![i] = q]
      BY <2>3, <3>1, <3>3, <3>4, Zenon DEF LookupQuery, TypeOK
    <3>6. {s.snap : s \in hits} \subseteq Snapshot
      BY <3>3, Zenon DEF TypeOK, Session
    <3>7. /\ q.ref = l.ref /\ q.known = l.known /\ q.asked = l.asked
          /\ q.answer = (IF hits = {} THEN "missing" ELSE "found")
          /\ q.snaps = {s.snap : s \in hits} /\ q \in Lookup
      BY <3>2, <3>4, <3>6, Zenon DEF Lookup, Answer
    <3>8. l.asked <= now /\ (l.known => \E s \in issued : s.ref = l.ref)
      BY <3>1, <3>2, Zenon DEF LookupKnows
    <3>9. ASSUME hits = {}, NEW s \in issued, s.ref = l.ref PROVE ~Unexpired(s, now)
      <4>1. Unexpired(s, now) => s \in sessions /\ Unexpired(s, l.asked)
        BY <3>2, <3>8 DEF UnexpiredKept, Unexpired, TypeOK, Session, Lookup, Time
      <4> QED BY <3>3, <3>9, <4>1, Zenon
    <3>10. ASSUME hits # {}
           PROVE  \E s \in issued : /\ s.ref = l.ref /\ q.snaps = {s.snap}
                                    /\ l.asked < s.expires
      <4>1. PICK s \in hits : TRUE
        BY <3>10, Zenon
      <4>2. hits = {s}
        BY <3>3, <4>1, Zenon DEF RefsUnique
      <4>3. s \in issued /\ s.ref = l.ref /\ s.expires > l.asked
        BY <3>3, <4>1, Zenon DEF RefsUnique, Unexpired
      <4>4. q.snaps = {s.snap}
        BY <3>7, <4>2, Zenon
      <4>5. l.asked < s.expires
        BY <3>2, <4>3, Zenon DEF TypeOK, Session, Lookup, Time
      <4> QED BY <4>3, <4>4, <4>5, Zenon
    <3> QED BY <3>5, <3>7, <3>8, <3>9, <3>10, Zenon
  <2> QED BY <2>1, <2>2, <2>3, Zenon
<1>4. TypeOK'
  BY <1>1, <1>3, Zenon DEF TypeOK
<1>5. LookupKnows' /\ MissingMeansExpired' /\ FoundMeansOwn'
  BY <1>1, <1>3, Zenon DEF LookupKnows, MissingMeansExpired, FoundMeansOwn, TypeOK, Unexpired
<1> QED BY <1>2, <1>4, <1>5, Zenon

\* Sweeps and restarts remove only what has expired.
LEMMA SweepInv ==
  ASSUME IndInv, SweepStart \/ SweepDelete \/ SweepFails \/ Restart
  PROVE  IndInv'
<1> USE DEF IndInv
<1>1. /\ sessions' \subseteq sessions
      /\ \A s \in sessions : Unexpired(s, now) => s \in sessions'
      /\ UNCHANGED <<now, issued>>
  BY SessionConstants DEF SweepStart, SweepDelete, SweepFails, Restart, Swept, Sweepable,
       Unexpired, TypeOK, Session, Time
<1>2. /\ create' = create \/ create' = [c \in Creator |-> Idle]
      /\ lookup' = lookup \/ lookup' = [i \in Installer |-> Idle]
      /\ cutoff' \in 0 .. now \cup {Idle}
  BY SessionConstants DEF SweepStart, SweepDelete, SweepFails, Restart, TypeOK, Time
<1>3. TypeOK'
  BY <1>1, <1>2, Zenon DEF TypeOK
<1>4. RefsUnique'
  BY <1>1, <1>2, Zenon DEF RefsUnique
<1>5. LookupKnows' /\ MissingMeansExpired' /\ FoundMeansOwn'
  BY <1>1, <1>2 DEF LookupKnows, MissingMeansExpired, FoundMeansOwn, Unexpired
<1>6. UnexpiredKept'
  BY <1>1, Zenon DEF UnexpiredKept, Unexpired
<1> QED BY <1>3, <1>4, <1>5, <1>6, Zenon

\* What has expired stays expired as the clock advances.
LEMMA ClockInv == ASSUME IndInv, Tick PROVE IndInv'
<1> USE DEF IndInv
<1>1. /\ now \in Int /\ now' = now + 1 /\ now' \in Time
      /\ UNCHANGED <<sessions, create, lookup, cutoff, issued>>
  BY SessionConstants DEF Tick, TypeOK, Time
<1>2. \A s \in issued : Unexpired(s, now') => Unexpired(s, now)
  BY <1>1 DEF Unexpired, TypeOK, Session
<1>3. TypeOK'
  BY <1>1, SessionConstants DEF TypeOK, Time
<1>4. RefsUnique' /\ FoundMeansOwn'
  BY <1>1, Zenon DEF RefsUnique, FoundMeansOwn
<1>5. \A i \in Installer : lookup[i] # Idle => lookup[i].asked \in Int
  BY DEF TypeOK, Lookup, Time
<1>6. LookupKnows'
  BY <1>1, <1>5 DEF LookupKnows
<1>7. UnexpiredKept' /\ MissingMeansExpired'
  BY <1>1, <1>2, Zenon DEF UnexpiredKept, MissingMeansExpired, Unexpired
<1> QED BY <1>3, <1>4, <1>6, <1>7, Zenon

\* The conjunction of the properties with unique refs is inductive.
THEOREM SessionsInvariance == Spec => []IndInv
<1>1. IndInv /\ [Next]_vars => IndInv'
  <2> SUFFICES ASSUME IndInv, [Next]_vars PROVE IndInv'
    BY Zenon
  <2>1. CASE UNCHANGED vars
    BY <2>1, Zenon DEF vars, IndInv, TypeOK, RefsUnique, LookupKnows, UnexpiredKept,
         MissingMeansExpired, FoundMeansOwn, Unexpired
  <2>2. CASE Next
    BY <2>2, CreateInv, LookupInv, SweepInv, ClockInv, Zenon DEF Next
  <2> QED BY <2>1, <2>2, Zenon
<1> QED BY <1>1, SessionsInit, PTL DEF Spec

\* Every reachable state is typed: in particular no sweep's cutoff is ahead of
\* the clock (cleanupBootSessionRetention).
THEOREM SessionsTyped == Spec => []TypeOK
BY SessionsInvariance, PTL DEF IndInv

\* A ref in a boot script resolves for its whole retention, whatever sweeps,
\* restarts, failures and other calls happen (bootsession.Store with
\* cleanupBootSessionRetention).
THEOREM RefsLive == Spec => []UnexpiredKept
BY SessionsInvariance, PTL DEF IndInv

\* "boot reference not found" for an issued ref means that it has expired.
THEOREM MissesHonest == Spec => []MissingMeansExpired
BY SessionsInvariance, PTL DEF IndInv

\* A ref resolves to the snapshot of its own creation and to no other, and
\* never after its expiry.
THEOREM HitsOwn == Spec => []FoundMeansOwn
BY SessionsInvariance, PTL DEF IndInv

-----------------------------------------------------------------------------
(* The life of the environment *)

Gone(k) == cleaner[k] \in {"off", "done"}

\* How far the body of closeOnce has come decides what may still run: it has
\* passed a cleaner only when that cleaner is gone, closes the store only past
\* both, and lets a caller return only at its end.
CloseOrder ==
  /\ env # "serving" => /\ once = "unused" /\ store # "closed"
                        /\ \A k \in Kind : cleaner[k] = "off"
                        /\ \A c \in Closer : close[c] = "out"
  /\ env = "serving" => /\ store = IF once = "done" THEN "closed" ELSE "open"
  /\ once \in {"bootSessions", "store", "done"} => Gone("events")
  /\ once \in {"store", "done"} => Gone("bootSessions")
  /\ \A c \in Closer : close[c] = "returned" => once = "done"

LifeInv == LifecycleTypeOK /\ CloseOrder

\* The order implies both safety properties.
LEMMA OrderSafe == LifeInv => SweepsOnOpenStore /\ ClosedMeansStopped
<1> SUFFICES ASSUME LifeInv PROVE SweepsOnOpenStore /\ ClosedMeansStopped
  BY Zenon
<1> USE DEF LifeInv, Kind, Started
<1>1. SweepsOnOpenStore
  BY Zenon DEF SweepsOnOpenStore, LifecycleTypeOK, CloseOrder, Gone
<1>2. ClosedMeansStopped
  BY Zenon DEF ClosedMeansStopped, LifecycleTypeOK, CloseOrder, Gone
<1> QED BY <1>1, <1>2, Zenon

\* Starting an environment, or failing to.
LEMMA StartStep ==
  ASSUME LifeInv, NewPanics \/ \E enabled \in SUBSET Kind : New(enabled)
  PROVE  LifeInv'
<1> USE DEF LifeInv, Kind, Started
<1>1. LifecycleTypeOK'
  BY Zenon DEF New, NewPanics, LifecycleTypeOK, CloseOrder
<1>2. CloseOrder'
  BY Zenon DEF New, NewPanics, LifecycleTypeOK, CloseOrder, Gone
<1> QED BY <1>1, <1>2, Zenon

\* The cleaners' own steps never bring one back.
LEMMA CleanerStep ==
  ASSUME LifeInv, NEW k \in Kind,
         TickerFires(k) \/ SweepBegins(k) \/ SweepEnds(k) \/ CleanerReturns(k)
  PROVE  LifeInv'
<1> USE DEF LifeInv, Started
<1>1. /\ UNCHANGED <<env, store, stop, states, close, once>>
      /\ cleaner[k] \in {"select", "sweep"}
      /\ \/ cleaner' = cleaner
         \/ \E v \in {"select", "sweep", "done"} : cleaner' = [cleaner EXCEPT ![k] = v]
  BY Zenon DEF TickerFires, SweepBegins, SweepEnds, CleanerReturns
<1>2. /\ \A j \in Kind : cleaner'[j] = "off" <=> cleaner[j] = "off"
      /\ \A j \in Kind : Gone(j) => cleaner'[j] = cleaner[j]
  BY <1>1, Zenon DEF LifecycleTypeOK, Gone
<1>3. Started' = Started
  BY <1>2, Zenon
<1>4. tick' \subseteq Started
  BY <1>1, Zenon DEF LifecycleTypeOK, TickerFires, SweepBegins, SweepEnds, CleanerReturns
<1>5. LifecycleTypeOK'
  <2> HIDE DEF Started
  <2> QED BY <1>1, <1>3, <1>4, Zenon DEF LifecycleTypeOK
<1>6. CloseOrder'
  BY <1>1, <1>2, Zenon DEF CloseOrder, Gone, Kind
<1> QED BY <1>5, <1>6, Zenon

\* Close passes a cleaner that is gone, the store last, then the callers.
LEMMA CloseStep ==
  ASSUME LifeInv,
         \/ \E k \in Kind : StopCleaner(k) \/ CleanerStopped(k)
         \/ CloseStore
         \/ \E c \in Closer : CloseCall(c) \/ CloseReturn(c)
  PROVE  LifeInv'
<1> USE DEF LifeInv, Started
<1>1. ASSUME NEW k \in Kind, StopCleaner(k) PROVE LifeInv'
  BY <1>1, Zenon DEF StopCleaner, LifecycleTypeOK, CloseOrder, Gone
<1>2. ASSUME NEW k \in Kind, CleanerStopped(k) PROVE LifeInv'
  <2>1. Gone(k) /\ env = "serving"
    BY <1>2, Zenon DEF CleanerStopped, LifecycleTypeOK, CloseOrder, Gone, Kind
  <2> QED BY <1>2, <2>1, Zenon DEF CleanerStopped, LifecycleTypeOK, CloseOrder, Gone, Kind, After
<1>3. CASE CloseStore
  <2>1. env = "serving"
    BY <1>3, Zenon DEF CloseStore, CloseOrder, LifecycleTypeOK
  <2> QED BY <1>3, <2>1, Zenon DEF CloseStore, LifecycleTypeOK, CloseOrder, Gone
<1>4. ASSUME NEW c \in Closer, CloseCall(c) PROVE LifeInv'
  <2>1. LifecycleTypeOK'
    BY <1>4, Zenon DEF CloseCall, LifecycleTypeOK
  <2>2. CloseOrder'
    BY <1>4, Zenon DEF CloseCall, LifecycleTypeOK, CloseOrder, Gone
  <2> QED BY <2>1, <2>2, Zenon
<1>5. ASSUME NEW c \in Closer, CloseReturn(c) PROVE LifeInv'
  <2>1. LifecycleTypeOK'
    BY <1>5, Zenon DEF CloseReturn, LifecycleTypeOK
  <2>2. CloseOrder'
    BY <1>5, Zenon DEF CloseReturn, LifecycleTypeOK, CloseOrder, Gone
  <2> QED BY <2>1, <2>2, Zenon
<1> QED BY <1>1, <1>2, <1>3, <1>4, <1>5, Zenon

\* The order in which an environment is taken down is kept by every step.
THEOREM OrderKept == LifecycleSpec => []LifeInv
<1>1. LifecycleInit => LifeInv
  BY Zenon DEF LifecycleInit, LifeInv, Started, LifecycleTypeOK, CloseOrder, Gone, Kind
<1>2. LifeInv /\ [LifecycleNext]_lifecycleVars => LifeInv'
  <2> SUFFICES ASSUME LifeInv, [LifecycleNext]_lifecycleVars PROVE LifeInv'
    BY Zenon
  <2>1. CASE UNCHANGED lifecycleVars
    BY <2>1, Zenon DEF lifecycleVars, LifeInv, Started, LifecycleTypeOK, CloseOrder, Gone
  <2>2. CASE StateCleaner
    BY <2>2, Zenon DEF StateCleaner, LifeInv, Started, LifecycleTypeOK, CloseOrder, Gone
  <2>3. CASE Stopped
    BY <2>1, <2>3, Zenon DEF Stopped
  <2> QED BY <2>1, <2>2, <2>3, StartStep, CleanerStep, CloseStep, Zenon DEF LifecycleNext
<1> QED BY <1>1, <1>2, PTL DEF LifecycleSpec

\* Every reachable state is typed: only a cleaner that was started is ever
\* told to stop (startRetentionCleaners).
THEOREM LifecycleTyped == LifecycleSpec => []LifecycleTypeOK
BY OrderKept, PTL DEF LifeInv

\* startRetentionCleaner and Close: no sweep of a retention cleaner ever runs
\* on a closed store.
THEOREM SweepsSafe == LifecycleSpec => []SweepsOnOpenStore
BY OrderKept, OrderSafe, PTL

\* Close: its return, to any caller, means that everything is stopped.
THEOREM CloseComplete == LifecycleSpec => []ClosedMeansStopped
BY OrderKept, OrderSafe, PTL
=============================================================================
