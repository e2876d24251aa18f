--------------------------- MODULE BootSessions ---------------------------
(***************************************************************************)
(* Boot sessions: the snapshots behind the opaque refs that boot scripts   *)
(* carry.  Polls create them, installers resolve them, the retention       *)
(* cleaner and every start of the server sweep the expired ones.  A call   *)
(* takes its time stamp first and reaches the store later, so creations,   *)
(* lookups, sweeps and the clock interleave between the two.               *)
(***************************************************************************)
EXTENDS Integers

CONSTANTS
  Ref,         \* refs (ULIDs): each creation draws a new one
  Snapshot,    \* what a session stores for the installer
  Creator,     \* goroutines inside Store.Create
  Installer,   \* goroutines inside Store.Get (/configs, /ajax, generated)
  Retention,   \* persistence.retention.bootSessions, in ticks
  MaxTime,     \* bound of the clock
  Faults,      \* calls that may fail; "Crash" if the process may stop
  Idle         \* no call, no sweep

ASSUME SessionConstants ==
  Retention \in Int /\ MaxTime \in Nat /\ Idle \notin Int

Time == 0 .. MaxTime

\* persistence.BootSessionRecord: the ref, its times and what it stands for.
Session == [ref : Ref, created : Time, expires : Int, snap : Snapshot]

Answer == {"none", "found", "missing"}
\* known (history): a boot script carried the ref when the request came.
Lookup == [ref : Ref, known : BOOLEAN, asked : Time, answer : Answer,
           snaps : SUBSET Snapshot]

ASSUME SessionSentinels == Idle \notin Session /\ Idle \notin Lookup

VARIABLES
  now,       \* the clock
  sessions,  \* the stored sessions
  create,    \* the session each creator is about to insert
  lookup,    \* the lookup each installer request performs
  cutoff,    \* the cutoff of the running sweep, or Idle
  issued     \* history: the sessions whose ref was returned to a poll

vars == <<now, sessions, create, lookup, cutoff, issued>>

Init ==
  /\ now = 0
  /\ sessions = {}
  /\ create = [c \in Creator |-> Idle]
  /\ lookup = [i \in Installer |-> Idle]
  /\ cutoff = Idle
  /\ issued = {}

-----------------------------------------------------------------------------
\* A ref nobody has: ULIDs do not repeat.
FreshRef(r) ==
  /\ \A s \in sessions \cup issued : s.ref # r
  /\ \A c \in Creator : create[c] # Idle => create[c].ref # r

\* Create stamps the snapshot: it expires Retention after its creation.
NewSession(r, x) == [ref |-> r, created |-> now, expires |-> now + Retention, snap |-> x]

CreateStart(c, r, x) ==
  /\ create[c] = Idle /\ FreshRef(r)
  /\ create' = [create EXCEPT ![c] = NewSession(r, x)]
  /\ UNCHANGED <<now, sessions, lookup, cutoff, issued>>

\* CreateBootSession inserts it; the ref is returned only if that succeeds.
CreateInsert(c) ==
  /\ create[c] # Idle
  /\ sessions' = sessions \cup {create[c]}
  /\ issued' = issued \cup {create[c]}
  /\ create' = [create EXCEPT ![c] = Idle]
  /\ UNCHANGED <<now, lookup, cutoff>>

CreateFails(c) ==
  /\ create[c] # Idle /\ "Create" \in Faults
  /\ create' = [create EXCEPT ![c] = Idle]
  /\ UNCHANGED <<now, sessions, lookup, cutoff, issued>>

\* Get notes the time, for a ref from a boot script or an unknown one.
LookupStart(i, r) ==
  /\ lookup[i] = Idle
  /\ lookup' = [lookup EXCEPT ![i] =
       [ref |-> r, known |-> \E s \in issued : s.ref = r, asked |-> now,
        answer |-> "none", snaps |-> {}]]
  /\ UNCHANGED <<now, sessions, create, cutoff, issued>>

\* Mutant: the query accepts a session that expires at this very time.
Unexpired_Inclusive(s, at) == s.expires >= at

\* GetBootSession's condition: expires_at > now.
Unexpired(s, at) == s.expires > at

LookupQuery(i) ==
  /\ lookup[i] # Idle /\ lookup[i].answer = "none"
  /\ LET hits == {s \in sessions : s.ref = lookup[i].ref /\ Unexpired(s, lookup[i].asked)}
     IN  lookup' = [lookup EXCEPT
           ![i].answer = IF hits = {} THEN "missing" ELSE "found",
           ![i].snaps = {s.snap : s \in hits}]
  /\ UNCHANGED <<now, sessions, create, cutoff, issued>>

\* The response is written (or the query failed: 500).
LookupEnd(i) ==
  /\ lookup[i] # Idle
  /\ lookup[i].answer # "none" \/ "Lookup" \in Faults
  /\ lookup' = [lookup EXCEPT ![i] = Idle]
  /\ UNCHANGED <<now, sessions, create, cutoff, issued>>

-----------------------------------------------------------------------------
\* Mutant: the age of the session is compared, not its expiry.
Sweepable_ByCreation(s, at) == s.created < at

\* DeleteBootSessionsBefore's condition: expires_at < cutoff.
Sweepable(s, at) == s.expires < at

Swept(at) == {s \in sessions : ~Sweepable(s, at)}

\* Mutant: the cutoff lies one retention ahead.
SweepStart_Ahead ==
  /\ cutoff = Idle /\ Retention > 0
  /\ cutoff' = now + Retention
  /\ UNCHANGED <<now, sessions, create, lookup, issued>>

\* Mutant: the early return for a retention that is not positive is inverted.
SweepStart_Inverted ==
  /\ cutoff = Idle /\ Retention <= 0
  /\ cutoff' = now
  /\ UNCHANGED <<now, sessions, create, lookup, issued>>

\* cleanupBootSessionRetention does nothing unless the retention is positive.
SweepStart ==
  /\ cutoff = Idle /\ Retention > 0
  /\ cutoff' = now
  /\ UNCHANGED <<now, sessions, create, lookup, issued>>

SweepDelete ==
  /\ cutoff # Idle
  /\ sessions' = Swept(cutoff)
  /\ cutoff' = Idle
  /\ UNCHANGED <<now, create, lookup, issued>>

SweepFails ==
  /\ cutoff # Idle /\ "Sweep" \in Faults
  /\ cutoff' = Idle
  /\ UNCHANGED <<now, sessions, create, lookup, issued>>

Tick ==
  /\ now < MaxTime
  /\ now' = now + 1
  /\ UNCHANGED <<sessions, create, lookup, cutoff, issued>>

\* A restart drops what is in flight and sweeps before it serves requests.
Restart ==
  /\ "Crash" \in Faults
  /\ create' = [c \in Creator |-> Idle]
  /\ lookup' = [i \in Installer |-> Idle]
  /\ cutoff' = Idle
  /\ \/ Retention > 0 /\ sessions' = Swept(now)
     \/ (Retention <= 0 \/ "Sweep" \in Faults) /\ sessions' = sessions
  /\ UNCHANGED <<now, issued>>

Next ==
  \/ \E c \in Creator, r \in Ref, x \in Snapshot : CreateStart(c, r, x)
  \/ \E c \in Creator : CreateInsert(c) \/ CreateFails(c)
  \/ \E i \in Installer, r \in Ref : LookupStart(i, r)
  \/ \E i \in Installer : LookupQuery(i) \/ LookupEnd(i)
  \/ SweepStart \/ SweepDelete \/ SweepFails
  \/ Tick
  \/ Restart

Spec == Init /\ [][Next]_vars

\* The cleaner's ticker fires again and again, a sweep runs to its end, and the
\* deletion does not fail (nor the process stop in it) every single time.
FairSpec == Spec /\ WF_vars(SweepStart) /\ SF_vars(SweepDelete)

-----------------------------------------------------------------------------
(* Properties *)

\* Type correctness; a cutoff, a question or a creation is never in the future.
TypeOK ==
  /\ now \in Time
  /\ sessions \subseteq Session
  /\ create \in [Creator -> Session \cup {Idle}]
  /\ lookup \in [Installer -> Lookup \cup {Idle}]
  /\ cutoff \in 0 .. now \cup {Idle}
  /\ issued \subseteq Session

\* A ref in a boot script stays good for its whole retention: no sweep, start
\* or lookup removes a session that has not expired (docs/persistence.md: refs
\* expire according to persistence.retention.bootSessions).
UnexpiredKept == \A s \in issued : Unexpired(s, now) => s \in sessions

\* No lookup misses a live ref, although it uses an old time stamp and may
\* race a sweep with a later cutoff: "not found" means expired by now.
MissingMeansExpired ==
  \A i \in Installer :
    lookup[i] # Idle /\ lookup[i].answer = "missing" /\ lookup[i].known
      => \A s \in issued : s.ref = lookup[i].ref => ~Unexpired(s, now)

\* A ref resolves to the one snapshot it was created with, and never when it
\* had expired at the time of the request.
FoundMeansOwn ==
  \A i \in Installer : lookup[i] # Idle /\ lookup[i].answer = "found"
    => \E s \in issued : /\ s.ref = lookup[i].ref
                         /\ lookup[i].snaps = {s.snap}
                         /\ lookup[i].asked < s.expires

\* Expired sessions do not pile up: each one is removed in the end, by the
\* sweeper and without a restart (docs/persistence.md).
ExpiredRemoved ==
  \A r \in Ref :
    (\E s \in sessions : s.ref = r /\ s.expires < now)
      ~> ~(\E s \in sessions : s.ref = r)
=============================================================================
