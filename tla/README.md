# A TLA+ model of Shoelaces

Shoelaces answers network-booting hosts. A host polls over iPXE; a mapping rule
either selects a boot target for it, or the host is queued until an operator
selects one; the boot script it gets carries the ref of a boot session, from
which installer configuration is rendered later. This directory models the
parts of the server that keep state, and the computations that decide what a
host boots and what its installer is served. The modules are translated from the Go code; `PROJECT.json` maps
each definition to its lines.

## The system and its parts

| Part | Code | Module | State |
|---|---|---|---|
| Polling service, handlers | `polling/polling.go`, `handlers/polling.go` | `Polling`, `SerialPolling` | modelled |
| Server-state store, state cleaner | `server/` | `Polling`; its JSON in `BootTarget`, `Provisioning` | partly |
| Boot sessions | `bootsession/session.go` | `BootSessions` | modelled |
| Event log | `event/event.go` | `EventLog` | modelled |
| Start, retention cleaners, Close | `environment/environment.go` | `Lifecycle` | partly |
| Stores (SQLite, memory) | `persistence/` | as the store steps of the above | partly |
| Mapping resolver, two-pass boot resolution | `mappings/resolver.go`, `polling/polling.go` | `BootTarget` | partly |
| Mapping validation | `mappings/parse.go` | `BootTarget` (targets of rules), `Provisioning` (structured sections) | partly |
| Users, structured provisioning | `mappings/users.go`, `mappings/provisioning.go` | `Provisioning` | modelled |
| Template index and rendering | `templates/templates.go` | `Templates`; Debian's checks in `Provisioning` | modelled |
| `/configs/` endpoints | `handlers/templates.go`, `handlers/generated.go` | `ConfigServer` | modelled |
| Static files and overlays | `handlers/static.go` | `ConfigServer` | modelled |
| TFTP, CLI, router, logging, redaction | `tftpserver/`, `cmd/`, `router/`, `log/`, `utils/` | | left out |

How they interact. `/poll` and `/update/target` run on goroutines of their own
and share only the stores. A poll resolves the host's identity against the
mappings; an automatic target is booted at once, otherwise the server state of
the MAC address decides: queue, retry, time out, or boot the selection. A boot
appends an event, creates a boot session and renders. The state cleaner drops
inactive hosts, two retention cleaners delete old events and expired sessions,
and `Close` stops these two before it closes the store. The installer comes
back with the ref: its session names the environment, the template index or the
static directories of that environment answer, and the base ones after them.

## Modules

`Polling` has one action per store call of a handler, because nothing is locked
across two calls. `poll[p]` and `update[o]` hold what a request has read and
where it is (`at`); `store` is the table of server states, `log` the events,
`sessions` the boot sessions. `delivered` and `owed` are history: what reached
a host, and the selection that was acknowledged and not yet delivered. Any call
named in `Faults` may fail, and `Restart` drops the requests in flight. The age
of a state replaces its time stamp, so time needs no bound. A target stands for
all that it resolves to; `Policy` gives the resolver's answers.

`SerialPolling` restricts `Polling` to behaviours in which the requests of one
host do not overlap (`Serial`), as with one iPXE client that waits for each
answer. The server does not enforce it; it is the hypothesis of `SelectionKept`
and `ImplementsQueue`, and `lost_selection` shows why the first one needs it.

`ManualQueue` and `BootLedger` are what `SerialPolling` and `Polling` are shown
to implement.
`ManualQueue` is the queue with one atomic step per request: maxRetry + 1
polls, then dropped; a selection replaces the wait; only an inactive host
expires. `BootLedger` says in which order records may appear: a manual boot
only after the selection of the same target, a session only after its boot, a
script only when all of them are on record.

`BootTarget` is the decision itself, with requests one after the other: the
validation of the rules' targets, the precedence of the rules, the merge of
parameters and structured fields, the two passes of `resolveBootTarget` around
the generated host name, the trial at the selection, the JSON of the stored
state, and the boot of the stored selection. Targets of a rule are a set: their
order only matters on the operator's page. `Over` is the merge of two maps.
`MCBootTarget` gives it small mappings files.

`Provisioning` follows structured policy from the three layers of a mappings
file to the installer: validation of a layer, the copy made by `NewResolver`,
the merge, the references to the environment, validation of the result, the
JSON of a stored selection and of a boot session, and the projection to flat
parameters, done once for the boot script (from memory) and once for the
installer (from JSON, with the parameters of its query over it), which is
refused if the checks of Debian's preseed fail. Fields are grouped by how they
merge and are projected: `Scalars` are the strings and pointers, with `Flags`
among them, and `Lists` the lists. A value has a type and a text, a sequence of
words. The projection is a chain of `Over`, as the code fills each parameter
only where an earlier stage left a gap: `Stated` is what the caller, the
structured fields and the installer's parameters give, `Filled` adds what
follows from it and the built-in values. `BootTarget` covers the parameters
of the resolver in depth and keeps three structured fields; here the merged
parameters are the constant `LegacyParams`.

`Templates` is the index. `ParseTemplates` loads the shipped templates, the
data directory and then the overrides of each environment, a file per step
(`ParseEmbedded`, `ParseDisk`, `ParseOverride`); a file that does not parse ends
the start. The index has two halves, which an empty definition tells apart: the
`tree` is executed, and `text/template` does not replace it by an empty one
(`AddParseTree`); the `body` is what the variables, the references and the
shipped flag (`embedded`) are taken from, and it always is the last definition.
`loaded` records which file was added in which walk. A body is a sequence of
nodes: a text mark, a variable (`{{.x}}`, or `{{$.x}}`, which the listing does
not see), a call.
`Execute` prints a body, `ListVariables` lists its variables, and rendering checks
the list, then encryption, executes in the environment and falls back to the
base. Both follow calls, and templates may call each other in cycles: each is a
recursive function of the position of a walk, whose `depth` is the number of
calls it may still follow. An execution that is deeper than there are templates
is in a cycle and fails; a listing stops at a template that it has visited, as
the code does, and its depth never runs out (`CollectedThorough`). `ConfigServer` extends it with the requests: a template request is one
step, since the index does not change any more; a static request is one action
per path that `StaticConfigFileHandler` opens, because an operator edits the
directories meanwhile (`Edit`). `seen` is history: what each layer had at the
path since the request began.

`BootSessions` lets a creation, a lookup and a sweep take its time stamp in one
step and reach the store in a later one. `EventLog` does the same for appends,
with the unlocked map `Events` as a read step and a write step, and with either
backend (chosen in `Init`). The table is a set of numbered rows, and
`ListedBefore` is the order in which a backend lists them. `Lifecycle` has the cleaner goroutines with their
select, the stop and done channels, and any number of callers of `Close`
around one `sync.Once`.

Definitions whose names have a suffix (`OutOfRetries_Late`) are mutants:
plausible bugs, used to see that a property can fail. Nothing else uses them.

## Runs

| Run | Checks | Result |
|---|---|---|
| `overlap` | two polls and a selection of one host, every call may fail, restarts: `AuditTrail`, `DeliveredAllowed`, `ImplementsLedger` | holds |
| `serial` | requests of a host do not overlap; two identities, one matched by a rule: `SelectionKept`, `ImplementsQueue` | holds |
| `waiting` | three overlapping polls, nobody selects: `WaitingEnds` | holds |
| `boot_target` | every order of requests on some 740 files: `ValidatedResolves`, `ListedIffAccepted`, `TriedIsBooted` | holds |
| `provisioning` | some 3,900 policies of three layers, booted at once or after a selection, and queries: `LayoutComplete`, `BootedIsAnswered`, `WipesOnlyNamed`, `ConfigMatchesScript`, `LastLayerWins` | holds |
| `configs` | some 110 data directories, every request, one edit during a static request: `LaterLayerWins`, `ShippedMeansUnchanged`, `MissingNamed`, `ListingExact`, `EncryptionRespected`, `StaticOrder`, `StaticPrecedence` | holds |
| `sessions` | `UnexpiredKept`, `MissingMeansExpired`, `FoundMeansOwn`, `ExpiredRemoved` | holds |
| `lifecycle` | `SweepsOnOpenStore`, `ClosedMeansStopped`, `CloseEnds` | holds |
| `events` | `EventsRetained`, `HistoryInOrder`, `OldEventsDeleted` | holds |
| `lost_selection` | `SelectionKept` with one poll and one selection overlapping | violated |
| `swap_absent` | `SwapSuppressed` | violated |
| `base_fallback` | `FallsBackToBase` | violated |

What the properties of files, policies and templates say. `ValidatedResolves`:
a poll of a validated file fails only if a parameter that it merges refers to a
variable of the environment that is not set, or is a malformed reference; it
never fails for a missing target. `BootedIsAnswered`: a policy that resolution
let boot is not refused later by the preseed, except for the cases of `Unchecked`.
`WipesOnlyNamed`: once the policy, its installer parameters, the legacy
parameters or the query name a disk, no other disk is wiped; if all that is named
are RAID members in flat parameters, the built-in list is wiped, and the property
says so. `LayoutComplete` holds of everything that was not set by hand (`ByHand`:
a legacy parameter, a query or `installer.configParams`), and in Debian's preseed
of that too. `LaterLayerWins`: an environment has, for each template, the indexed
body of the last file that defines it and the tree of the last one whose
definition is not empty. A file of `env_overrides/default/` counts for the other
environments only if it was read before their own first file (`Inherits`).
`ShippedMeansUnchanged`: the flag that allows or refuses encryption is set exactly
while no file changed the template. `EncryptionRespected`: what an encrypted host
gets from a template that cannot encrypt is an operator's text, which differs
from the shipped one; excepted are a fallback to the base and an empty last
definition, in which the code gives it the shipped template. `MissingNamed`: every
request that is refused for missing variables is told each one that the answering
template would have printed as absent, in partials too, except a parameter that
is there and is null, a variable read as `{{$.x}}`, and those below a template
whose last definition is empty. Without any one of these exceptions, TLC finds a
counterexample.
`ListingExact`: the variables listed for a template,
which the web page asks for, are those of all templates it reaches. `StaticPrecedence`: however
the directories change during a request, no layer that was there all the time
is passed over; `StaticOrder` is the documented order when nothing changes.

Bounds. Nothing in the code relates two MAC addresses, so one host is enough in
`Polling`; two pollers and an operator give every pair of overlapping handlers,
and three pollers give `waiting` the case in which a count is lost while
another poll drops the state. `MaxRetry` is 1 or 2 instead of 10: the count
matters only in the comparison with the limit. `MaxLag` bounds the ticks
between a sweep's cutoff and its deletion. `waiting` has no operator because a
selection ends the wait. In `BootSessions` and `EventLog`, `MaxTime` exceeds
the retention, so a record can expire, be swept and be asked for afterwards;
`MaxEvents` is enough for a race of two appends and a later event. The files of
`BootTarget` have up to two rules of different kinds, parameters of every type
on every layer, and names that are not configured. Each layer of `Provisioning`
sets the parts of one section: a layout that is complete or inconsistent needs
two, and the third overrides, suppresses or restores. No action reads
`config`, so states with a configuration are checked and not explored further
(`Unfetched`). The data directories of
`configs` have up to three files beside the shipped one, enough for a base
template, an override of it and a partial that either calls; among them are
copies of the shipped template, empty definitions, and overrides of the default
environment that come before or after those of another one (environments are
walked in the order of their names, here canary, default, testing). That gives
about 421,000 states. Every content of
the three static layers is tried, and one edit (`MaxEdits`) suffices to change
any layer between any two lookups; the proof covers any number. The pollers of `overlap` are
a symmetry set; that run has no liveness property.

Fairness. In `Polling` a started handler keeps running, the cleaner wakes up
again and again and time passes (weak fairness: goroutines are scheduled). No
host is assumed to poll and no operator to select. The sweepers of `BootSessions` and
`EventLog` have weak fairness for the ticker and strong fairness for the
deletion: it may fail any number of times, not every time. In `Lifecycle`,
`CleanerReturns` has strong fairness because Go's select picks at random among
the ready cases, so a cleaner whose ticker keeps firing still sees its closed
stop channel in the end; the rest is weak.

## Proofs

TLAPS proves these for every value of the constants that satisfies the named
assumptions: sentinels are not records or names, limits are natural numbers,
and files, layers and parameters have the shape that parsing gives them
(`FileConstants`, `TemplateConstants`, `StaticConstants`, `LayersAssumption`,
`ParamsAssumption`, `WordsAssumption`).
Most leaves name Zenon, which needs far less preparation of an obligation than
SMT does; the others need arithmetic, records or sequences.

* `PollingProofs`, first part: `TypeCorrect`, `TrailComplete` (`AuditTrail`),
  `OnlyApprovedBoots` (`DeliveredAllowed`) and `LedgerRefinement`, for any
  number of hosts, requests and faults. `AuditTrail` is not inductive: it says
  nothing of a request that is about to render. `TrailInv` adds what each
  request in flight knows at its step, and that a stored selection is recorded
  and approved. The key fact is `KnowledgeGrows`: records are only added, so
  what one request knows survives the steps of all others, however stale its
  copy of the state. The refinement follows from the same invariant, a lemma
  per action mapping it to a ledger step or a stutter.
* `PollingProofs`, second part, about `SerialPolling`: `QueueRefinement`
  (`ImplementsQueue`), for any hosts, retry limit, faults and restarts. The
  invariant `InTouch` says that what a request read is still what the store
  holds, except that both grew older; then every store call is a queue step or
  a stutter. `SelectionIsKept` (`SelectionKept`) has one more hypothesis,
  `NoLateFaults`: no call fails, and the process does not stop, between
  `DeleteState` and the delivery. Without it the property is false, because the
  code deletes the selection first. The run `serial` makes the same choice of
  faults. `OwedInHand` is the invariant: what is owed to a host is in the store
  or in the hands of the poll that is about to deliver it.
* `BootTargetProofs`: `TargetsTyped`, `ValidatedFileResolves`
  (`ValidatedResolves`), `ListIsExact` (`ListedIffAccepted`) and
  `BootsWhatWasTried` (`TriedIsBooted`), for every mappings file, identity and
  form. `BootTargetAnswers` says what the two passes can answer; `IndInv` adds
  that a serving server has valid rules, that a waiting host's list is the one
  of the rule its identity matches, and that a stored selection agrees with
  what was tried, key by key.
* `EventLogProofs`: `EventsTyped`, `NoEventLost` (`EventsRetained`) and
  `HistoriesOrdered` (`HistoryInOrder`), for any number of events, sweeps and
  restarts. The strengthening says that every row holds an acknowledged event,
  that an event's stamp is in the past and not before the stamps of the events
  it follows, and that an event being appended has an id of its own.
* `ConfigServerProofs`: `LastDefinitionWins` (`LaterLayerWins`),
  `ShippedFlagExact` (`ShippedMeansUnchanged`), `NoLayerSkipped`
  (`StaticPrecedence`), `TypeCorrect`, `EncryptionIsRespected`
  (`EncryptionRespected`) and `StaticOrderKept` (`StaticOrder`), for any files
  and any number of edits. The loading invariants describe the index after a
  prefix of the files: `Layered` says that every environment but the default one is
  there for a file of its own, found after the shipped files and the data
  directory were complete; so every environment has what is shipped
  (`InheritsShipped`).
  `StaticInv` says of a static request that every layer it
  has left behind was missing at some moment since it began. `RenderedNow` says
  that an answer is what the index renders still, so encryption comes down to
  the shipped flag, and `LastIsOperators` says whose file cleared it. `Ordered` says what the lookups of an unedited disk have
  shown at each stage.
* `ProvisioningProofs`: `TypeCorrect`, `LastLayerDecides` (`LastLayerWins`) and
  `OnlyNamedDisksAreWiped` (`WipesOnlyNamed`); `InstallerProofs`:
  `BootedHostIsAnswered` (`BootedIsAnswered`), `LayoutsAreComplete`
  (`LayoutComplete`) and `ConfigurationMatchesScript` (`ConfigMatchesScript`);
  for any layers, parameters, queries and environment. The invariant `IInv`
  says that only valid layers are served and that the stored selection, the
  session, the script and the configuration are each one function of the
  layers; that a second pass through JSON changes nothing (`ReloadedTwice`)
  makes it inductive. The rest is about that function: `ThreefoldAt` reads a
  field of the merge, `StatedAt`, `StructuredAt` and `FilledAt` a parameter of
  the projection, and `OverAgree` carries agreement of two maps through every
  stage of it. `ScalarTyped` and `ScalarValid` carry what the validation of a
  layer establishes through the merge.
* `TemplateProofs`: `ListingIsExact` (`ListingExact`) and `MissingAreNamed`
  (`MissingNamed`), for any templates, however they call each other. Both
  concern recursive functions, so the module first brings induction into a form
  the provers can use: `LeastNatural` (a set of naturals has a least element)
  gives `PositionInduction` for sets of positions, and `Recursion` shows that a
  rule that looks only at lower positions has a solution, so that `Collect` and
  `Executed` are what their definitions say at every position (`CollectedIs`,
  `ExecutionIs`). For the listing, `CollectedWithin` shows that nothing outside
  the reachable templates is listed. `CollectedThorough` shows the converse:
  when a call returns, every template it added to the shared visited set has
  been listed, and all its calls are visited too. It needs that the depth left
  is at least the number of templates not yet visited. For the execution,
  `LostIsRead` shows that what any node loses is absent and is read by the tree
  of a template that the execution reaches, and `ListedAsRead` that a variable
  read there as `{{.x}}` is listed for the template where it began, unless a
  template on the way has a tree that is not its body. `IndexIsWellFormed` is the invariant that
  carries this to every reachable index.
* `RetentionProofs`, about `BootSessions`: `SessionsTyped`, `RefsLive`
  (`UnexpiredKept`), `MissesHonest` (`MissingMeansExpired`) and `HitsOwn`
  (`FoundMeansOwn`), for any retention, clock bound and number of requests. The
  strengthening says that refs are unique among stored, issued and pending
  sessions and that a lookup's time stamp is not in the future and its answer
  was right when it was given.
* `RetentionProofs`, about `Lifecycle`, the start and the end of the cleaners
  that delete what has expired: `LifecycleTyped`, `SweepsSafe` (`SweepsOnOpenStore`) and `CloseComplete`
  (`ClosedMeansStopped`), for any number of callers. `CloseOrder` ties the
  progress of the once-body to the cleaners that are gone and to the store.

Only model-checked: `WaitingEnds`, `ExpiredRemoved`, `CloseEnds` and
`OldEventsDeleted`, because liveness is out of the prover's reach. Every other
property that a passing run checks is a theorem.

## Where the code and its documents disagree

* A poll that read the waiting state before a selection saves it, counted once
  more, over the acknowledged selection (`lost_selection`).
* `absent: true` on a file system of a target or rule is remembered in an
  unexported field, which JSON drops. The boot script is rendered without swap
  and the installer's configuration, rendered from the session, with it
  (`swap_absent`). `ConfigMatchesScript` excepts this case and large numbers.
* A request in an environment without a template of its own panics in
  `RenderTemplate` instead of falling back to the base; where the environment's
  template fails half way, the base's is appended to its first half
  (`base_fallback`). The base's is executed without a second check, so an
  encrypted host whose environment overrides a shipped template by one that
  fails gets the shipped, unencrypted install, while
  `docs/provisioning-overrides.md` says that such "installer templates fail
  clearly when it is enabled so they do not silently render an unencrypted
  install". An override that is empty has the same effect: it clears the shipped
  flag and leaves the shipped tree. `EncryptionRespected` excepts both.

Seen while modelling, without a run. Polling and stores: `manualAction` asserts
that the host name parameter is a string, and a number passes validation and
panics in the poll, after the state was deleted (`polling.go:250`; `BootTarget`
has it as the answer "panic"); `Log.Events` is a map written without a lock, so
an event is lost from it or the runtime stops the process (`event.go:153`;
`MirrorRead`, `MirrorWrite` and `Crash` of `EventLog`); the selected state is deleted before the
boot script is answered, so a restart in between loses the selection, against
`docs/persistence.md:3`; structured policy wins over a legacy parameter for
`release` only, while `docs/mappings-and-environments.md:111` calls it
canonical; the resolver's copy of a layer turns an empty list into an unset
one, so it does not replace an inherited list
(`docs/provisioning-overrides.md:375`); the members of a RAID are the disks to
wipe even when the mode is not `raid`, and come before `wipeDiskPatterns`;
`absent` in the defaults is kept as a flag of the entry, so a later layer that
configures the entry does not bring it back, while after `absent` in a target
it does; a large number in a session's parameters is printed as a float; an
event that a host booted is appended
before its session and script exist, so it also stays when one of these fails;
an automatic rule that matches the name of a later poll wins over a stored
selection; a second selection is judged by the host name that the first one
stored; a whole float among stored parameters comes back from JSON as an
integer, and from a million on Go prints the two differently; the in-memory
backend lists events by insertion and SQLite by time; retention does not shrink
the map `Events`; nothing stops the state cleaner at `Close`.

Provisioning: `wipeDiskPatterns` is ignored when RAID devices are listed, in
another mode too (`docs/provisioning-overrides.md:381`); a query that overrides
`storage_raid_devices` leaves the two `storage_raid_device_` parameters of the
policy; RAID members that only flat parameters name are accepted by the preseed,
and the disks to wipe are then those of the built-in list; a query that enables encryption the policy disabled uses a passphrase
whose reference was never looked up; TPM with LVM, and a blank cipher, hash or
device, pass resolution and are refused by the preseed (`Unchecked`).

Mappings: validation does not look at references to the environment, so a
malformed one (an `env` beside other keys, empty or not a string) is found when a
host polls.

Templates and static files: "the later definition wins"
(`docs/provisioning-overrides.md`) does not hold of an empty definition, nor, in
an environment whose files were read first, of a file in
`env_overrides/default/`; missing variables are not named if they are read as
`{{$.x}}`, if the template that reads them has an empty last definition, or if
an environment's template printed them before it failed; `HasTemplateOverride` compares bodies, so an
identical copy in an environment is no override; the shipped flag stays lost
when a later file restores the shipped body; an absent value printed by an
extra template is reported without a variable, and a dotted variable is always
listed as missing; a directory whose name starts with the overrides directory's
is skipped, and a file directly in the latter makes an environment of its name;
a static file deleted between the status and the serving is answered 404
although a lower layer has it, and an entry removed while its directory is
listed gives 500.

## Not modelled

The wording of scripts, messages and logs, the middleware, the iPXE menu, HTTP
routing and parsing, redaction and the command line's tables keep no state of
their own: they are functions of one request or one record. TFTP is a library
serving one directory. The in-memory `States` map of `server.go` is not used by
the server. Opening and migrating a database is one step that succeeds or
fails, and the configuration of persistence, the shape of paths, URLs and
addresses in the mappings file and records damaged from outside are left out.
Parameters that only repeat another one under a second name, and two of
Debian's three layouts, which are computed like the third, are left out.
