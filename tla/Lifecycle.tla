----------------------------- MODULE Lifecycle -----------------------------
(***************************************************************************)
(* The life of an Environment: New opens the runtime store and starts the  *)
(* cleaners; each retention cleaner waits in a select for a tick or for    *)
(* its stop channel; Close, which several goroutines may call, stops one   *)
(* retention cleaner after the other and then closes the store.            *)
(***************************************************************************)
EXTENDS Naturals

CONSTANT Closer   \* goroutines that call Close

Kind == {"events", "bootSessions"}

VARIABLES
  env,      \* the environment: "new", "serving", or "failed" (New panicked)
  store,    \* the runtime store: "none", "open" or "closed"
  cleaner,  \* the retention cleaners: "off", "select", "sweep" or "done"
  tick,     \* the tickers whose channel holds a tick (its capacity is one)
  stop,     \* the cleaners whose stop channel is closed
  states,   \* the server-state cleaner: "off", "sleep" or "sweep"
  close,    \* the callers of Close: "out", "in" or "returned"
  once      \* closeOnce: "unused", the cleaner being stopped, "store" or "done"

lifecycleVars == <<env, store, cleaner, tick, stop, states, close, once>>

LifecycleInit ==
  /\ env = "new" /\ store = "none"
  /\ cleaner = [k \in Kind |-> "off"]
  /\ tick = {} /\ stop = {}
  /\ states = "off"
  /\ close = [c \in Closer |-> "out"]
  /\ once = "unused"

Started == {k \in Kind : cleaner[k] # "off"}

-----------------------------------------------------------------------------
\* New opens the store, runs the startup cleanups in its own goroutine and,
\* once the mappings are loaded, starts the cleaners: of the retention cleaners
\* the ones in enabled, whose sweep interval is positive.
New(enabled) ==
  /\ env = "new"
  /\ env' = "serving" /\ store' = "open" /\ states' = "sleep"
  /\ cleaner' = [k \in Kind |-> IF k \in enabled THEN "select" ELSE "off"]
  /\ UNCHANGED <<tick, stop, close, once>>

\* New panics: the store could not be opened or, with the store open and no
\* cleaner running yet, the mappings could not be loaded.
NewPanics ==
  /\ env = "new"
  /\ env' = "failed" /\ store' \in {"none", "open"}
  /\ UNCHANGED <<cleaner, tick, stop, states, close, once>>

-----------------------------------------------------------------------------
\* The ticker drops a tick that its channel has no room for.
TickerFires(k) ==
  /\ cleaner[k] \in {"select", "sweep"}
  /\ tick' = tick \cup {k}
  /\ UNCHANGED <<env, store, cleaner, stop, states, close, once>>

\* case <-ticker.C: the sweep reaches the store until SweepEnds.
SweepBegins(k) ==
  /\ cleaner[k] = "select" /\ k \in tick
  /\ cleaner' = [cleaner EXCEPT ![k] = "sweep"]
  /\ tick' = tick \ {k}
  /\ UNCHANGED <<env, store, stop, states, close, once>>

SweepEnds(k) ==
  /\ cleaner[k] = "sweep"
  /\ cleaner' = [cleaner EXCEPT ![k] = "select"]
  /\ UNCHANGED <<env, store, tick, stop, states, close, once>>

\* case <-stop: the deferred calls stop the ticker and close done.
CleanerReturns(k) ==
  /\ cleaner[k] = "select" /\ k \in stop
  /\ cleaner' = [cleaner EXCEPT ![k] = "done"]
  /\ UNCHANGED <<env, store, tick, stop, states, close, once>>

\* StartStateStoreCleaner's goroutine sleeps and sweeps for ever.
StateCleaner ==
  /\ states # "off"
  /\ states' = IF states = "sleep" THEN "sweep" ELSE "sleep"
  /\ UNCHANGED <<env, store, cleaner, tick, stop, close, once>>

-----------------------------------------------------------------------------
\* The first caller of Close runs the body of closeOnce.
CloseCall(c) ==
  /\ env = "serving" /\ close[c] = "out"
  /\ close' = [close EXCEPT ![c] = "in"]
  /\ once' = IF once = "unused" THEN "events" ELSE once
  /\ UNCHANGED <<env, store, cleaner, tick, stop, states>>

\* stopEvents runs before stopBootSessions, and the store is closed last.
After(k) == IF k = "events" THEN "bootSessions" ELSE "store"

\* Mutant: a stop channel is closed although no cleaner was started.
StopCleaner_Always(k) ==
  /\ once = k /\ k \notin stop
  /\ stop' = stop \cup {k}
  /\ UNCHANGED <<env, store, cleaner, tick, states, close, once>>

\* Mutant: the stop function returns before it closed the stop channel.
StopCleaner_Lost(k) ==
  /\ once = k /\ k \in Started \ stop
  /\ UNCHANGED lifecycleVars

\* close(stop)
StopCleaner(k) ==
  /\ once = k /\ k \in Started \ stop
  /\ stop' = stop \cup {k}
  /\ UNCHANGED <<env, store, cleaner, tick, states, close, once>>

\* Mutant: the stop function does not wait for the cleaner.
CleanerStopped_NoWait(k) ==
  /\ once = k /\ (k \notin Started \/ k \in stop)
  /\ once' = After(k)
  /\ UNCHANGED <<env, store, cleaner, tick, stop, states, close>>

\* <-done; the stop function of a cleaner that was never started does nothing.
CleanerStopped(k) ==
  /\ once = k /\ (k \notin Started \/ cleaner[k] = "done")
  /\ once' = After(k)
  /\ UNCHANGED <<env, store, cleaner, tick, stop, states, close>>

\* RuntimeStore.Close; its error, if any, is what every Close returns.
CloseStore ==
  /\ once = "store"
  /\ store' = "closed" /\ once' = "done"
  /\ UNCHANGED <<env, cleaner, tick, stop, states, close>>

\* Mutant: a plain flag in place of sync.Once lets a second caller through.
CloseReturn_Flag(c) ==
  /\ close[c] = "in" /\ (once = "done" \/ \E d \in Closer \ {c} : close[d] = "in")
  /\ close' = [close EXCEPT ![c] = "returned"]
  /\ UNCHANGED <<env, store, cleaner, tick, stop, states, once>>

\* closeOnce.Do returns, to every caller, only when its body has returned.
CloseReturn(c) ==
  /\ close[c] = "in" /\ once = "done"
  /\ close' = [close EXCEPT ![c] = "returned"]
  /\ UNCHANGED <<env, store, cleaner, tick, stop, states, once>>

-----------------------------------------------------------------------------
\* A New that panicked ends the process.
Stopped == env = "failed" /\ UNCHANGED lifecycleVars

LifecycleNext ==
  \/ NewPanics
  \/ \E enabled \in SUBSET Kind : New(enabled)
  \/ \E k \in Kind :
       \/ TickerFires(k) \/ SweepBegins(k) \/ SweepEnds(k) \/ CleanerReturns(k)
       \/ StopCleaner(k) \/ CleanerStopped(k)
  \/ StateCleaner
  \/ CloseStore
  \/ \E c \in Closer : CloseCall(c) \/ CloseReturn(c)
  \/ Stopped

LifecycleSpec == LifecycleInit /\ [][LifecycleNext]_lifecycleVars

\* Runnable goroutines run.  A select with a tick and a closed stop channel
\* picks at random, so a cleaner that comes back to it for ever with its stop
\* channel closed takes that case in the end: strong fairness.
Fairness ==
  /\ \A k \in Kind : /\ WF_lifecycleVars(SweepEnds(k)) /\ SF_lifecycleVars(CleanerReturns(k))
                     /\ WF_lifecycleVars(StopCleaner(k)) /\ WF_lifecycleVars(CleanerStopped(k))
  /\ WF_lifecycleVars(CloseStore)
  /\ \A c \in Closer : WF_lifecycleVars(CloseReturn(c))

LifecycleFairSpec == LifecycleSpec /\ Fairness

-----------------------------------------------------------------------------
(* Properties *)

\* Type correctness; only a cleaner that was started has a stop channel.
LifecycleTypeOK ==
  /\ env \in {"new", "serving", "failed"}
  /\ store \in {"none", "open", "closed"}
  /\ cleaner \in [Kind -> {"off", "select", "sweep", "done"}]
  /\ tick \subseteq Started /\ stop \subseteq Started
  /\ states \in {"off", "sleep", "sweep"}
  /\ close \in [Closer -> {"out", "in", "returned"}]
  /\ once \in {"unused", "events", "bootSessions", "store", "done"}

\* A retention sweep never meets a closed store, whenever its tick comes and
\* whoever calls Close (TestEnvironmentCloseStopsRetentionCleanersBeforeClosingStore
\* tries one order only).
SweepsOnOpenStore == \A k \in Kind : cleaner[k] = "sweep" => store = "open"

\* Whichever call of Close returns, and not only the one that did the work,
\* no retention cleaner is left and the store is closed.
ClosedMeansStopped ==
  \A c \in Closer : close[c] = "returned"
    => store = "closed" /\ \A k \in Started : cleaner[k] = "done"

\* Every call of Close returns: it does not wait for ever for a cleaner whose
\* ticker keeps firing, nor on another caller.
CloseEnds == \A c \in Closer : close[c] = "in" ~> close[c] = "returned"
=============================================================================
