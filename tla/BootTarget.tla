---------------------------- MODULE BootTarget -----------------------------
(***************************************************************************)
(* How one host gets its target, its host name and its parameters: the     *)
(* mappings file is validated and loaded, a poll is resolved against its   *)
(* rules, an operator's selection is resolved, tried and stored, and the   *)
(* next poll boots what was stored.  The requests of the host come one     *)
(* after the other here; module Polling interleaves them.                  *)
(*                                                                         *)
(* Data: a parameter map is a function on the keys it sets.  A value has   *)
(* the type YAML gave it and a text, a sequence of words: a prefix is put  *)
(* before a name with \o.  Of the structured sections the fields that have *)
(* a legacy parameter of their own are kept: release, hostname, linuxargs. *)
(* The field "tried" of a state is history: no code reads it.              *)
(***************************************************************************)
EXTENDS Naturals, Sequences, FiniteSetsExt, Functions

CONSTANTS
  MappingsFiles,  \* mappings files: defaults, targets and rules
  Name,           \* target names an operator may post
  Identity,       \* what a poll may report: [ip, name]
  Form,           \* parameters an operator may post with a target
  Environ,        \* the environment variables that are set, with their texts
  MacName,        \* the MAC address with dashes, as a text
  Decimal,        \* the text of a whole float, as Go prints it -> its digits
  None            \* no target, no state

\* The parts of a file that may hold structured fields, which are strings.
Layers(f) ==
  {f.defaults} \cup {f.targets[t] : t \in DOMAIN f.targets} \cup Range(f.rules)

ASSUME FileConstants ==
  /\ None \notin Name
  /\ \A f \in MappingsFiles :
       /\ DOMAIN f.rules \subseteq Nat /\ None \notin DOMAIN f.targets
       /\ \A r \in Range(f.rules) : r.kind \in {"mac", "ip", "hostname", "network"}
       /\ \A l \in Layers(f) : \A k \in DOMAIN l.structured : l.structured[k].type = "string"

VARIABLES
  mappings,  \* the file being served
  phase,     \* "starting", "serving" or "failed"
  state,     \* the host's server state, or None
  answer     \* what the last request was answered

vars == <<mappings, phase, state, answer>>

NoAnswer == [kind |-> "none"]

Init ==
  /\ mappings \in MappingsFiles
  /\ phase = "starting" /\ state = None /\ answer = NoAnswer

\* A map, and over it one whose entries win.
Over(override, base) ==
  [k \in DOMAIN override \cup DOMAIN base |->
     IF k \in DOMAIN override THEN override[k] ELSE base[k]]
With(key, value) == [k \in {key} |-> value]

-----------------------------------------------------------------------------
(* Validation *)

Configured == DOMAIN mappings.targets

\* Mutant: the default target of a rule is not looked up.
ValidPolicy_DefaultUnchecked(rule) ==
  rule.targets # {} /\ rule.targets \subseteq Configured

\* validateTargetPolicy
ValidPolicy(rule) ==
  /\ rule.targets # {}
  /\ rule.targets \subseteq Configured
  /\ rule.default # None => rule.default \in Configured \cap rule.targets

\* The server starts only with a file that validates.
Load ==
  /\ phase = "starting"
  /\ phase' = IF \A r \in Range(mappings.rules) : ValidPolicy(r)
                THEN "serving" ELSE "failed"
  /\ UNCHANGED <<mappings, state, answer>>

-----------------------------------------------------------------------------
(* The resolver *)

Matches(rule, id) ==
  CASE rule.kind = "mac" -> TRUE
    [] rule.kind \in {"ip", "network"} -> id.ip \in rule.of
    [] rule.kind = "hostname" -> id.name \in rule.of

\* The rules of one kind that match, as positions in the file.
Matching(kind, id) ==
  {i \in DOMAIN mappings.rules : mappings.rules[i].kind = kind /\ Matches(mappings.rules[i], id)}

NoLayer == [params |-> <<>>, structured |-> <<>>]

\* An unmatched host may get every configured target.
Unmatched ==
  [kind |-> "unmatched", default |-> None, targets |-> Configured,
   params |-> <<>>, structured |-> <<>>]

\* findPolicy: the first kind that has a matching rule, and its first such rule.
Precedence == <<"mac", "ip", "hostname", "network">>
FindPolicy(id) ==
  LET kinds == {k \in DOMAIN Precedence : Matching(Precedence[k], id) # {}}
  IN  IF kinds = {} THEN Unmatched
      ELSE mappings.rules[Min(Matching(Precedence[Min(kinds)], id))]

\* targetsByName leaves out what is not configured.
AllowedTargets(policy) == policy.targets \cap Configured

\* resolveParamValue: a reference is replaced by the variable's text.
ParamValue(v) ==
  IF v.type = "env" THEN [type |-> "string", text |-> Environ[v.text]] ELSE v

\* Its errors, envReference's among them: a map with the key env that has other
\* keys too, or no string or an empty one there, is malformed.
Unresolvable(v) ==
  \/ v.type = "malformed"
  \/ v.type = "env" /\ v.text \notin DOMAIN Environ
BadReference(params) == \E k \in DOMAIN params : Unresolvable(params[k])

\* The later layer wins: defaults, target, rule, posted, generated.
MergedParams(target, policy, form, generated) ==
  LET file == Over(mappings.targets[target].params, mappings.defaults.params)
  IN  Over(generated, Over(form, Over(policy.params, file)))

\* mergeProvisioningConfig, field by field.
MergedStructured(target, policy) ==
  Over(policy.structured,
       Over(mappings.targets[target].structured, mappings.defaults.structured))

\* applyStructuredLegacyParams: the structured release replaces a legacy one
\* that was neither posted nor generated.
WithRelease(params, structured, form) ==
  IF "release" \in DOMAIN structured /\ "release" \notin DOMAIN form
    THEN Over(With("release", structured["release"]), params) ELSE params

Refused(why) == [ok |-> FALSE, why |-> why]
NoTarget(policy) == [ok |-> TRUE, target |-> None, allowed |-> AllowedTargets(policy)]

\* What Resolve and resolveManual do once the target is known.
ResolveTarget(match, target, policy, form, generated) ==
  LET merged == MergedParams(target, policy, form, generated)
      structured == MergedStructured(target, policy)
  IN  IF target \notin Configured THEN Refused("missing target")
      ELSE IF BadReference(merged) THEN Refused("reference")
      ELSE [ok |-> TRUE, match |-> match, target |-> target,
            allowed |-> AllowedTargets(policy), structured |-> structured,
            params |-> WithRelease([k \in DOMAIN merged |-> ParamValue(merged[k])],
                                   structured, form)]

\* Mutant: the rule's list is not consulted for a manual target.
Resolve_NoList(id, manual, form, generated) ==
  LET policy == FindPolicy(id)
  IN  IF manual # None THEN ResolveTarget("manual", manual, policy, form, generated)
      ELSE IF policy.default = None THEN NoTarget(policy)
      ELSE ResolveTarget(policy.kind, policy.default, policy, form, generated)

Resolve(id, manual, form, generated) ==
  LET policy == FindPolicy(id)
  IN  IF manual # None
        THEN IF policy.kind # "unmatched" /\ manual \notin policy.targets
             THEN Refused("not allowed")
             ELSE ResolveTarget("manual", manual, policy, form, generated)
      ELSE IF policy.default = None THEN NoTarget(policy)
      ELSE ResolveTarget(policy.kind, policy.default, policy, form, generated)

-----------------------------------------------------------------------------
(* The host name, and the two passes *)

Prefix(params) ==
  IF "hostnamePrefix" \in DOMAIN params /\ params["hostnamePrefix"].type = "string"
    THEN params["hostnamePrefix"].text ELSE <<>>

GeneratedName(params) ==
  [type |-> "string", text |-> Prefix(params) \o MacName]

\* Mutants: a name is generated over an existing one; only with a prefix.
SetHostName_Always(params) == Over(With("hostname", GeneratedName(params)), params)
SetHostName_PrefixOnly(params) ==
  IF "hostnamePrefix" \in DOMAIN params
    THEN Over(params, With("hostname", GeneratedName(params))) ELSE params

\* setHostName: prefix and MAC address, unless the parameter exists.
SetHostName(params) == Over(params, With("hostname", GeneratedName(params)))

\* generatedBootParams, without the base URL.
GeneratedParams(first, id) ==
  IF "hostname" \notin DOMAIN first.params /\ "hostname" \in DOMAIN first.structured
    THEN With("hostname", first.structured["hostname"])
  ELSE IF first.match = "hostname" /\ id.name # <<>>
    THEN With("hostname", [type |-> "string", text |-> id.name])
  ELSE LET named == SetHostName(first.params)
       IN  [k \in {"hostname"} \cap DOMAIN named |-> named[k]]

\* resolveBootTarget: resolve, generate the name, resolve again with it.
ResolveBootTarget(id, manual, form) ==
  LET first == Resolve(id, manual, form, <<>>)
  IN  IF ~first.ok \/ first.target = None THEN first
      ELSE Resolve(id, manual, form, GeneratedParams(first, id))

ResolvedName(id, params) ==
  IF "hostname" \in DOMAIN params /\ params["hostname"].type = "string"
    THEN params["hostname"].text ELSE id.name

\* The parameters as they are read back from the JSON text of a stored state:
\* a whole float comes back as an integer.
Stored(params) ==
  [k \in DOMAIN params |->
     IF params[k].type = "float" /\ params[k].text \in DOMAIN Decimal
       THEN [type |-> "number", text |-> Decimal[params[k].text]] ELSE params[k]]

\* projectProvisioningParams: a structured field fills a parameter that is
\* missing.
Rendered(params, structured) == Over(params, structured)

-----------------------------------------------------------------------------
(* Requests *)

Boot(how, target, name, params, structured) ==
  [kind |-> "boot", how |-> how, target |-> target, name |-> name, params |-> params,
   structured |-> structured, rendered |-> Rendered(params, structured)]

\* manualAction for a stored selection: the state is gone, the host name is
\* set where it is missing and asserted to be a string.
BootSelected ==
  LET params == SetHostName(state.params)
  IN  IF params["hostname"].type = "string"
        THEN Boot("manual", state.target, params["hostname"].text, params, state.structured)
        ELSE [kind |-> "panic"]

\* Poll: boot what a rule selects, else look at the host's state.  A waiting
\* host retries until its retries (counted in Polling) are used up.
Poll(id) ==
  /\ phase = "serving"
  /\ LET r == ResolveBootTarget(id, None, <<>>)
     IN  \/ /\ ~r.ok
            /\ answer' = [kind |-> "error", why |-> r.why]
            /\ UNCHANGED state
         \/ /\ r.ok /\ r.target # None
            /\ answer' = Boot("auto", r.target, ResolvedName(id, r.params),
                              r.params, r.structured)
            /\ UNCHANGED state
         \/ /\ r.ok /\ r.target = None /\ state = None
            /\ state' = [server |-> id, allowed |-> r.allowed, target |-> None,
                         params |-> <<>>, structured |-> <<>>, tried |-> <<>>]
            /\ answer' = [kind |-> "retry"]
         \/ /\ r.ok /\ r.target = None /\ state # None /\ state.target = None
            /\ \/ answer' = [kind |-> "retry"] /\ UNCHANGED state
               \/ answer' = [kind |-> "timeout"] /\ state' = None
         \/ /\ r.ok /\ r.target = None /\ state # None /\ state.target # None
            /\ answer' = BootSelected
            /\ state' = None
  /\ UNCHANGED <<mappings, phase>>

\* UpdateTarget: the stored identity decides; a template that does not render
\* (fails) refuses the selection.  The allowed list stays as it was queued.
UpdateTarget(target, form, fails) ==
  /\ phase = "serving" /\ state # None
  /\ LET r == ResolveBootTarget(state.server, target, form)
     IN  IF r.ok /\ ~fails
           THEN /\ state' = [server |-> [ip |-> state.server.ip,
                                         name |-> ResolvedName(state.server, r.params)],
                              allowed |-> state.allowed, target |-> target,
                              params |-> Stored(r.params), structured |-> r.structured,
                              tried |-> Rendered(r.params, r.structured)]
                /\ answer' = [kind |-> "selected"]
           ELSE answer' = [kind |-> "refused"] /\ UNCHANGED state
  /\ UNCHANGED <<mappings, phase>>

\* The cleaner drops an inactive host.
Expire ==
  /\ state # None
  /\ state' = None /\ answer' = NoAnswer
  /\ UNCHANGED <<mappings, phase>>

Failed == phase = "failed" /\ UNCHANGED vars

Next ==
  \/ Load
  \/ \E id \in Identity : Poll(id)
  \/ \E t \in Name, form \in Form, fails \in BOOLEAN : UpdateTarget(t, form, fails)
  \/ Expire
  \/ Failed

Spec == Init /\ [][Next]_vars

-----------------------------------------------------------------------------
(* Properties *)

\* Type correctness; every boot and every selection has a host name parameter,
\* and no reference to the environment is left in its parameters.
TypeOK ==
  /\ mappings \in MappingsFiles
  /\ phase \in {"starting", "serving", "failed"}
  /\ state # None => /\ state.target # None => "hostname" \in DOMAIN state.params
                     /\ state.target \in Configured \cup {None}
  /\ answer.kind = "boot" =>
       /\ "hostname" \in DOMAIN answer.params
       /\ \A k \in DOMAIN answer.params : answer.params[k].type \notin {"env", "malformed"}

\* As far as targets and parameters go, a file that passed validation always
\* resolves, but for the references to the environment, which validation does not
\* look at: a poll fails only if one of the parameters it merges is a reference
\* to a variable that is not set or a malformed one, never for a rule that names
\* a missing target (that error branch of Resolve is unreachable).
ValidatedResolves ==
  answer.kind = "error" =>
    /\ answer.why = "reference"
    /\ \E layer \in Layers(mappings) : BadReference(layer.params)

\* An operator sees exactly what may be chosen: for a waiting host, whatever
\* it is, UpdateTarget accepts a target of the stored list and no other one,
\* as long as the references to the environment resolve.
ListedIffAccepted ==
  phase = "serving" /\ state # None /\ state.target = None =>
    \A t \in Name, form \in Form :
      LET r == ResolveBootTarget(state.server, t, form)
      IN  r.ok \/ r.why = "reference" <=> t \in state.allowed

\* What was tried is what boots: the boot script of a selected host is
\* rendered with the parameters that UpdateTarget tried the template with
\* before it stored the selection, although they went through a generated name
\* and through JSON (a float apart, which may come back with another text), and
\* under the name that the selection was recorded with.
TriedIsBooted ==
  [][answer'.kind = "boot" /\ answer'.how = "manual" =>
       /\ answer'.target = state.target
       /\ answer'.name = state.server.name
       /\ DOMAIN answer'.rendered = DOMAIN state.tried
       /\ \A k \in DOMAIN state.tried :
            state.tried[k].type # "float" => answer'.rendered[k] = state.tried[k]]_vars
=============================================================================
