------------------------- MODULE BootTargetProofs --------------------------
(***************************************************************************)
(* The properties of BootTarget, for every mappings file, identity and     *)
(* form.  IndInv adds what they rest on: a serving server has valid rules, *)
(* a waiting host's list is that of the rule its stored identity matches,  *)
(* and what was stored of a selection agrees with what was tried.          *)
(***************************************************************************)
EXTENDS BootTarget, WellFoundedInduction, TLAPS

Policies == Range(mappings.rules) \cup {Unmatched}

\* A value that is no reference to the environment.
IsFinal(v) == v.type \notin {"env", "malformed"}

\* The stored parameters against the ones the template was tried with.
AsTried(s) ==
  /\ "hostname" \in DOMAIN s.params
  /\ DOMAIN s.tried = DOMAIN s.params \cup DOMAIN s.structured
  /\ \A k \in DOMAIN s.params :
       /\ IsFinal(s.params[k])
       /\ s.tried[k].type # "float" => s.params[k] = s.tried[k]
  /\ \A k \in DOMAIN s.structured \ DOMAIN s.params : s.tried[k] = s.structured[k]
  /\ s.params["hostname"].type = "string" => s.server.name = s.params["hostname"].text

RulesValid == phase = "serving" => \A r \in Range(mappings.rules) : ValidPolicy(r)
WaitingListed ==
  state # None /\ state.target = None => state.allowed = AllowedTargets(FindPolicy(state.server))
SelectedTried ==
  state # None /\ state.target # None => state.target \in Configured /\ AsTried(state)
BootComplete ==
  answer.kind = "boot" => /\ "hostname" \in DOMAIN answer.params
                          /\ \A k \in DOMAIN answer.params : IsFinal(answer.params[k])

IndInv ==
  /\ mappings \in MappingsFiles
  /\ phase \in {"starting", "serving", "failed"}
  /\ phase = "starting" => answer = NoAnswer
  /\ RulesValid /\ WaitingListed /\ SelectedTried /\ BootComplete /\ ValidatedResolves

-----------------------------------------------------------------------------
(* The resolver *)

\* A nonempty set of naturals has a least element, which Min returns.
LEMMA MinIn == ASSUME NEW S, S \subseteq Nat, S # {} PROVE Min(S) \in S
  <1> DEFINE Less == {p \in Nat \X Nat : p[1] < p[2]}
  <1>1. IsWellFoundedOn(Less, Nat)
    BY NatLessThanWellFounded, Zenon DEF OpToRel
  <1>2. PICK x \in S : \A y \in S : <<y, x>> \notin Less
    BY <1>1, WFMin, Zenon
  <1>3. ASSUME NEW y \in S PROVE x <= y
    <2>1. <<y, x>> \notin Less
      BY <1>2, Zenon
    <2>2. x \in Nat /\ y \in Nat
      BY Zenon
    <2> QED
      BY <2>1, <2>2
  <1> QED
    BY <1>3, Zenon DEF Min

\* findPolicy returns a rule of the file, or the policy of an unmatched host.
LEMMA PolicyFound ==
  ASSUME mappings \in MappingsFiles, NEW id PROVE FindPolicy(id) \in Policies
  <1> DEFINE kinds == {k \in DOMAIN Precedence : Matching(Precedence[k], id) # {}}
  <1>1. CASE kinds = {}
    BY <1>1, Zenon DEF FindPolicy, Policies
  <1>2. CASE kinds # {}
    <2>1. kinds \subseteq Nat
      BY DEF Precedence
    <2>2. PICK k : k = Min(kinds)
      BY Zenon
    <2>3. Matching(Precedence[k], id) # {}
      BY <1>2, <2>1, <2>2, MinIn, Zenon
    <2>4. Matching(Precedence[k], id) \subseteq Nat
      BY FileConstants, Zenon DEF Matching
    <2>5. Min(Matching(Precedence[k], id)) \in Matching(Precedence[k], id)
      BY <2>3, <2>4, MinIn, Zenon
    <2>6. mappings.rules[Min(Matching(Precedence[k], id))] \in Range(mappings.rules)
      BY <2>5, Zenon DEF Matching, Range
    <2> QED
      BY <1>2, <2>2, <2>6, Zenon DEF FindPolicy, Policies
  <1> QED
    BY <1>1, <1>2, Zenon

\* The fields a layer of the file sets in a structured section are strings.
LEMMA StructuredStrings ==
  ASSUME mappings \in MappingsFiles, NEW policy \in Policies, NEW target \in Configured,
         NEW k \in DOMAIN MergedStructured(target, policy)
  PROVE  MergedStructured(target, policy)[k].type = "string"
  <1> DEFINE Strings(l) == \A j \in DOMAIN l.structured : l.structured[j].type = "string"
  <1>1. Strings(mappings.defaults) /\ Strings(mappings.targets[target])
    BY FileConstants, Zenon DEF Layers, Configured
  <1>2. Strings(policy)
    <2>1. CASE policy \in Range(mappings.rules)
      BY <2>1, FileConstants, Zenon DEF Layers
    <2>2. CASE policy = Unmatched
      BY <2>2 DEF Unmatched
    <2> QED
      BY <2>1, <2>2, Zenon DEF Policies
  <1> QED
    BY <1>1, <1>2, Zenon DEF MergedStructured, Over

\* A reference that can be looked up is replaced by a text.
LEMMA ParamValueFinal ==
  ASSUME NEW v, ~Unresolvable(v) PROVE IsFinal(ParamValue(v))
  BY DEF ParamValue, Unresolvable, IsFinal

\* A resolution that succeeded with target t: it has a host name if one was
\* generated, and no reference is left in its parameters.
Resolved(r, t) ==
  /\ r.ok = TRUE /\ r.target = t
  /\ \A k \in DOMAIN r.params : IsFinal(r.params[k])
  /\ \A k \in DOMAIN r.structured : IsFinal(r.structured[k])

\* Once the target is known it resolves, unless it is not configured or a
\* reference does not; what was generated is among the parameters.
LEMMA TargetResolves ==
  ASSUME mappings \in MappingsFiles, NEW policy \in Policies, NEW match, NEW target,
         NEW form, NEW generated, NEW r,
         r = ResolveTarget(match, target, policy, form, generated)
  PROVE  /\ target \notin Configured => r = Refused("missing target")
         /\ target \in Configured =>
              \/ /\ r = Refused("reference")
                 /\ BadReference(MergedParams(target, policy, form, generated))
              \/ Resolved(r, target) /\ DOMAIN generated \subseteq DOMAIN r.params
  <1>1. CASE target \notin Configured
    BY <1>1, Zenon DEF ResolveTarget
  <1>2. CASE target \in Configured
    <2>1. PICK merged : merged = MergedParams(target, policy, form, generated)
      BY Zenon
    <2>2. PICK structured : structured = MergedStructured(target, policy)
      BY Zenon
    <2>3. PICK values : values = [k \in DOMAIN merged |-> ParamValue(merged[k])]
      BY Zenon
    <2>4. DOMAIN generated \subseteq DOMAIN values
      BY <2>1, <2>3, Zenon DEF MergedParams, Over
    <2>5. ~BadReference(merged) => \A k \in DOMAIN values : IsFinal(values[k])
      BY <2>3, ParamValueFinal, Zenon DEF BadReference
    <2>6. \A k \in DOMAIN structured : IsFinal(structured[k])
      <3>1. \A k \in DOMAIN structured : structured[k].type = "string"
        BY <1>2, <2>2, StructuredStrings, Zenon
      <3> QED
        BY <3>1 DEF IsFinal
    <2>7. PICK params : params = WithRelease(values, structured, form)
      BY Zenon
    <2>8. /\ DOMAIN generated \subseteq DOMAIN params
          /\ ~BadReference(merged) => \A k \in DOMAIN params : IsFinal(params[k])
      BY <2>4, <2>5, <2>6, <2>7, Zenon DEF WithRelease, Over, With
    <2>9. CASE BadReference(merged)
      BY <1>2, <2>1, <2>9, Zenon DEF ResolveTarget
    <2>10. CASE ~BadReference(merged)
      <3>1. r = [ok |-> TRUE, match |-> match, target |-> target,
                 allowed |-> AllowedTargets(policy), structured |-> structured,
                 params |-> params]
        BY <1>2, <2>1, <2>2, <2>3, <2>7, <2>10, Zenon DEF ResolveTarget
      <3>2. /\ r.ok = TRUE /\ r.target = target
            /\ r.params = params /\ r.structured = structured
        BY <3>1
      <3> QED
        BY <1>2, <2>6, <2>8, <2>10, <3>2, Zenon DEF Resolved
    <2> QED
      BY <2>9, <2>10, Zenon
  <1> QED
    BY <1>1, <1>2, Zenon

\* What Resolve answers to a host with this identity.
Outcome(r, id, manual, generated) ==
  LET policy == FindPolicy(id)
      target == IF manual # None THEN manual ELSE policy.default
  IN  /\ manual # None /\ manual \notin policy.targets =>
           r = Refused("not allowed") \/ r = Refused("missing target")
      /\ manual = None /\ policy.default = None => r = NoTarget(policy)
      /\ target # None /\ (manual # None => manual \in policy.targets) =>
           /\ target \notin Configured => r = Refused("missing target")
           /\ target \in Configured =>
                \/ r = Refused("reference")
                \/ Resolved(r, target) /\ DOMAIN generated \subseteq DOMAIN r.params

LEMMA ResolveAnswers ==
  ASSUME mappings \in MappingsFiles, NEW id, NEW manual, NEW form, NEW generated,
         NEW r, r = Resolve(id, manual, form, generated)
  PROVE  Outcome(r, id, manual, generated)
  <1>1. PICK policy : policy = FindPolicy(id)
    BY Zenon
  <1>2. policy \in Policies
    BY <1>1, PolicyFound, Zenon
  <1>3. CASE manual # None
    <2>1. CASE manual \notin policy.targets
      <3>1. CASE policy.kind # "unmatched"
        BY <1>1, <1>3, <2>1, <3>1, Zenon DEF Resolve, Outcome
      <3>2. CASE policy = Unmatched
        <4>1. manual \notin Configured /\ policy.kind = "unmatched"
          BY <2>1, <3>2, Zenon DEF Unmatched
        <4>2. r = ResolveTarget("manual", manual, policy, form, generated)
          BY <1>1, <1>3, <4>1, Zenon DEF Resolve
        <4>3. r = Refused("missing target")
          BY <1>2, <4>1, <4>2, TargetResolves, Zenon
        <4> QED
          BY <1>1, <1>3, <2>1, <4>3, Zenon DEF Outcome
      <3>3. CASE policy \in Range(mappings.rules) /\ policy.kind = "unmatched"
        BY <3>3, FileConstants, Zenon DEF Range
      <3> QED
        BY <1>2, <3>1, <3>2, <3>3, Zenon DEF Policies
    <2>2. CASE manual \in policy.targets
      <3>1. r = ResolveTarget("manual", manual, policy, form, generated)
        BY <1>1, <1>3, <2>2, Zenon DEF Resolve
      <3>2. /\ manual \notin Configured => r = Refused("missing target")
            /\ manual \in Configured =>
                 \/ r = Refused("reference")
                 \/ Resolved(r, manual) /\ DOMAIN generated \subseteq DOMAIN r.params
        BY <1>2, <3>1, TargetResolves, Zenon
      <3> QED
        BY <1>1, <1>3, <2>2, <3>2, Zenon DEF Outcome
    <2> QED
      BY <2>1, <2>2, Zenon
  <1>4. CASE manual = None
    <2>1. CASE policy.default = None
      BY <1>1, <1>4, <2>1, Zenon DEF Resolve, Outcome
    <2>2. CASE policy.default # None
      <3>1. r = ResolveTarget(policy.kind, policy.default, policy, form, generated)
        BY <1>1, <1>4, <2>2, Zenon DEF Resolve
      <3>2. /\ policy.default \notin Configured => r = Refused("missing target")
            /\ policy.default \in Configured =>
                 \/ r = Refused("reference")
                 \/ Resolved(r, policy.default) /\ DOMAIN generated \subseteq DOMAIN r.params
        BY <1>2, <3>1, TargetResolves, Zenon
      <3> QED
        BY <1>1, <1>4, <2>2, <3>2, Zenon DEF Outcome
    <2> QED
      BY <2>1, <2>2, Zenon
  <1> QED
    BY <1>3, <1>4, Zenon

\* resolveBootTarget answers as Resolve does, and always with a host name.
LEMMA BootTargetAnswers ==
  ASSUME mappings \in MappingsFiles, NEW id, NEW manual, NEW form, NEW r,
         r = ResolveBootTarget(id, manual, form)
  PROVE  Outcome(r, id, manual, With("hostname", None))
  <1>1. PICK first : first = Resolve(id, manual, form, <<>>)
    BY Zenon
  <1>2. Outcome(first, id, manual, <<>>)
    BY <1>1, ResolveAnswers, Zenon
  <1>3. CASE ~first.ok \/ first.target = None
    <2>1. r = first
      BY <1>1, <1>3, Zenon DEF ResolveBootTarget
    <2>2. ~ \E t : t # None /\ Resolved(first, t)
      BY <1>3, Zenon DEF Resolved
    <2> QED
      BY <1>2, <2>1, <2>2, Zenon DEF Outcome
  <1>4. CASE ~(~first.ok \/ first.target = None)
    <2>1. PICK generated : generated = GeneratedParams(first, id)
      BY Zenon
    <2>2. DOMAIN generated = {"hostname"}
      BY <2>1, Zenon DEF GeneratedParams, With, SetHostName, Over
    <2>3. r = Resolve(id, manual, form, generated)
      BY <1>1, <1>4, <2>1, Zenon DEF ResolveBootTarget
    <2>4. Outcome(r, id, manual, generated)
      BY <2>3, ResolveAnswers, Zenon
    <2>5. DOMAIN With("hostname", None) = {"hostname"}
      BY Zenon DEF With
    <2> QED
      BY <2>2, <2>4, <2>5, Zenon DEF Outcome
  <1> QED
    BY <1>3, <1>4, Zenon

\* A poll that merges only final values with what the file says fails for a
\* reference of the file.
LEMMA ResolveFails ==
  ASSUME mappings \in MappingsFiles, NEW id, NEW generated,
         \A k \in DOMAIN generated : IsFinal(generated[k]),
         Resolve(id, None, <<>>, generated) = Refused("reference")
  PROVE  \E layer \in Layers(mappings) : BadReference(layer.params)
  <1>1. PICK policy : policy = FindPolicy(id)
    BY Zenon
  <1>2. policy \in Policies
    BY <1>1, PolicyFound, Zenon
  <1>3. policy.default # None
    <2>1. SUFFICES ASSUME policy.default = None PROVE FALSE
      BY Zenon
    <2>2. Refused("reference") = NoTarget(policy)
      BY <1>1, <2>1, Zenon DEF Resolve
    <2> QED
      BY <2>2 DEF Refused, NoTarget
  <1>4. PICK target : target = policy.default
    BY Zenon
  <1>5. Refused("reference") = ResolveTarget(policy.kind, target, policy, <<>>, generated)
    BY <1>1, <1>3, <1>4, Zenon DEF Resolve
  <1>6. PICK merged : merged = MergedParams(target, policy, <<>>, generated)
    BY Zenon
  <1>7. target \in Configured /\ BadReference(merged)
    <2>1. Refused("reference") # Refused("missing target")
      BY DEF Refused
    <2>2. ~Resolved(Refused("reference"), target)
      BY DEF Refused, Resolved
    <2> QED
      BY <1>2, <1>5, <1>6, <2>1, <2>2, TargetResolves, Zenon
  <1>8. PICK k \in DOMAIN merged : Unresolvable(merged[k])
    BY <1>7, Zenon DEF BadReference
  <1>9. \A v : IsFinal(v) => ~Unresolvable(v)
    BY DEF IsFinal, Unresolvable
  <1>10. DOMAIN <<>> = {}
    OBVIOUS
  <1>11. \E p \in {mappings.defaults.params, mappings.targets[target].params, policy.params} :
           k \in DOMAIN p /\ merged[k] = p[k]
    BY <1>6, <1>8, <1>9, <1>10, Zenon DEF MergedParams, Over
  <1>12. mappings.defaults \in Layers(mappings) /\ mappings.targets[target] \in Layers(mappings)
    BY <1>7, Zenon DEF Layers, Configured
  <1>13. DOMAIN policy.params # {} => policy \in Layers(mappings)
    <2>1. CASE policy \in Range(mappings.rules)
      BY <2>1, Zenon DEF Layers
    <2>2. CASE policy = Unmatched
      BY <2>2 DEF Unmatched
    <2> QED
      BY <1>2, <2>1, <2>2, Zenon DEF Policies
  <1> QED
    BY <1>8, <1>11, <1>12, <1>13, Zenon DEF BadReference

\* The name that the first pass generates is no reference.
LEMMA GeneratedFinal ==
  ASSUME NEW first, NEW t, Resolved(first, t), NEW id, NEW k \in DOMAIN GeneratedParams(first, id)
  PROVE  IsFinal(GeneratedParams(first, id)[k])
  <1>1. PICK named : named = SetHostName(first.params)
    BY Zenon
  <1>2. \A text : IsFinal([type |-> "string", text |-> text])
    BY DEF IsFinal
  <1>3. \A j \in DOMAIN named : IsFinal(named[j])
    BY <1>1, <1>2, Zenon DEF SetHostName, GeneratedName, Over, With, Resolved
  <1>4. CASE "hostname" \notin DOMAIN first.params /\ "hostname" \in DOMAIN first.structured
    BY <1>4, Zenon DEF GeneratedParams, With, Resolved
  <1>5. CASE ~("hostname" \notin DOMAIN first.params /\ "hostname" \in DOMAIN first.structured)
    BY <1>1, <1>2, <1>3, <1>5, Zenon DEF GeneratedParams, With
  <1> QED
    BY <1>4, <1>5, Zenon

LEMMA PollFails ==
  ASSUME mappings \in MappingsFiles, NEW id,
         ResolveBootTarget(id, None, <<>>) = Refused("reference")
  PROVE  \E layer \in Layers(mappings) : BadReference(layer.params)
  <1>1. PICK first : first = Resolve(id, None, <<>>, <<>>)
    BY Zenon
  <1>2. CASE ~first.ok \/ first.target = None
    <2>1. first = Refused("reference")
      BY <1>1, <1>2, Zenon DEF ResolveBootTarget
    <2>2. \A k \in DOMAIN <<>> : IsFinal(<<>>[k])
      OBVIOUS
    <2> QED
      BY <1>1, <2>1, <2>2, ResolveFails, Zenon
  <1>3. CASE first.ok /\ first.target # None
    <2>1. Outcome(first, id, None, <<>>)
      BY <1>1, ResolveAnswers, Zenon
    <2>2. \A why : first # Refused(why)
      BY <1>3 DEF Refused
    <2>3. \A policy : first # NoTarget(policy)
      BY <1>3 DEF NoTarget
    <2>4. \E t : Resolved(first, t)
      BY <2>1, <2>2, <2>3, Zenon DEF Outcome
    <2>5. PICK generated : generated = GeneratedParams(first, id)
      BY Zenon
    <2>6. \A k \in DOMAIN generated : IsFinal(generated[k])
      BY <2>4, <2>5, GeneratedFinal, Zenon
    <2>7. Resolve(id, None, <<>>, generated) = Refused("reference")
      BY <1>1, <1>3, <2>5, Zenon DEF ResolveBootTarget
    <2> QED
      BY <2>6, <2>7, ResolveFails, Zenon
  <1> QED
    BY <1>2, <1>3, Zenon

-----------------------------------------------------------------------------
(* The steps *)

\* A policy found under a validated file lists configured targets only, and
\* its default, if it has one, is among them.
LEMMA PolicyValid ==
  ASSUME IndInv, phase = "serving", NEW id
  PROVE  /\ FindPolicy(id).targets \subseteq Configured
         /\ FindPolicy(id).default # None => FindPolicy(id).default \in Configured
  <1>1. FindPolicy(id) \in Policies
    BY PolicyFound, Zenon DEF IndInv
  <1>2. CASE FindPolicy(id) \in Range(mappings.rules)
    BY <1>2, Zenon DEF IndInv, RulesValid, ValidPolicy
  <1>3. CASE FindPolicy(id) = Unmatched
    BY <1>3 DEF Unmatched
  <1> QED
    BY <1>1, <1>2, <1>3, Zenon DEF Policies

\* A selection is stored as it was tried.
LEMMA SelectionStored ==
  ASSUME NEW r, NEW t, Resolved(r, t), "hostname" \in DOMAIN r.params, NEW id, NEW s,
         s.params = Stored(r.params), s.structured = r.structured,
         s.tried = Rendered(r.params, r.structured),
         s.server.name = ResolvedName(id, r.params)
  PROVE  AsTried(s)
  <1>1. PICK p : p = r.params
    BY Zenon
  <1>2. \A k \in DOMAIN p : IsFinal(p[k])
    BY <1>1, Zenon DEF Resolved
  <1>3. DOMAIN s.params = DOMAIN p /\ "hostname" \in DOMAIN s.params
    BY <1>1, Zenon DEF Stored
  <1>4. \A k \in DOMAIN p :
          /\ IsFinal(s.params[k])
          /\ p[k].type # "float" => s.params[k] = p[k]
          /\ s.params[k].type = "string" => s.params[k] = p[k]
    BY <1>1, <1>2 DEF Stored, IsFinal
  <1>5. /\ DOMAIN s.tried = DOMAIN p \cup DOMAIN s.structured
        /\ \A k \in DOMAIN p : s.tried[k] = p[k]
        /\ \A k \in DOMAIN s.structured \ DOMAIN p : s.tried[k] = s.structured[k]
    BY <1>1, Zenon DEF Rendered, Over
  <1>6. s.params["hostname"].type = "string" => s.server.name = s.params["hostname"].text
    <2>1. SUFFICES ASSUME s.params["hostname"].type = "string"
                   PROVE  s.server.name = s.params["hostname"].text
      BY Zenon
    <2>2. "hostname" \in DOMAIN p /\ s.params["hostname"] = p["hostname"]
      BY <1>1, <1>4, <2>1, Zenon
    <2>3. ResolvedName(id, p) = p["hostname"].text
      BY <2>1, <2>2, Zenon DEF ResolvedName
    <2> QED
      BY <1>1, <2>2, <2>3, Zenon
  <1>7. \A k \in DOMAIN s.params :
          /\ IsFinal(s.params[k])
          /\ s.tried[k].type # "float" => s.params[k] = s.tried[k]
    BY <1>3, <1>4, <1>5, Zenon
  <1>8. /\ DOMAIN s.tried = DOMAIN s.params \cup DOMAIN s.structured
        /\ \A k \in DOMAIN s.structured \ DOMAIN s.params : s.tried[k] = s.structured[k]
    BY <1>3, <1>5, Zenon
  <1> QED
    BY <1>3, <1>6, <1>7, <1>8, Zenon DEF AsTried

\* Booting a selection keeps its parameters: the host name is among them.
LEMMA SelectedBoots ==
  ASSUME AsTried(state), NEW a, a = BootSelected, a.kind = "boot"
  PROVE  /\ "hostname" \in DOMAIN a.params
         /\ \A k \in DOMAIN a.params : IsFinal(a.params[k])
         /\ a.target = state.target /\ a.name = state.server.name
         /\ DOMAIN a.rendered = DOMAIN state.tried
         /\ \A k \in DOMAIN state.tried :
              state.tried[k].type # "float" => a.rendered[k] = state.tried[k]
  <1>1. PICK params : params = SetHostName(state.params)
    BY Zenon
  <1>2. /\ DOMAIN params = DOMAIN state.params
        /\ \A k \in DOMAIN params : params[k] = state.params[k]
    BY <1>1, Zenon DEF SetHostName, Over, With, AsTried
  <1>3. params["hostname"].type = "string"
    <2>1. SUFFICES ASSUME params["hostname"].type # "string" PROVE FALSE
      BY Zenon
    <2>2. a = [kind |-> "panic"]
      BY <1>1, <2>1, Zenon DEF BootSelected
    <2> QED
      BY <2>2
  <1>4. a = Boot("manual", state.target, params["hostname"].text, params, state.structured)
    BY <1>1, <1>3, Zenon DEF BootSelected
  <1>5. /\ a.target = state.target /\ a.name = params["hostname"].text
        /\ a.params = params /\ a.rendered = Rendered(params, state.structured)
    BY <1>4 DEF Boot
  <1>6. a.name = state.server.name
    BY <1>2, <1>3, <1>5, Zenon DEF AsTried
  <1>7. /\ "hostname" \in DOMAIN a.params
        /\ \A k \in DOMAIN a.params : IsFinal(a.params[k])
    BY <1>2, <1>5 DEF AsTried
  <1>8. /\ DOMAIN a.rendered = DOMAIN state.tried
        /\ \A k \in DOMAIN state.tried :
             state.tried[k].type # "float" => a.rendered[k] = state.tried[k]
    BY <1>2, <1>5 DEF AsTried, Rendered, Over
  <1> QED
    BY <1>5, <1>6, <1>7, <1>8, Zenon

\* While the file stays, a host is resolved the same way.
LEMMA SameRules ==
  ASSUME UNCHANGED mappings, NEW id
  PROVE  AllowedTargets(FindPolicy(id))' = AllowedTargets(FindPolicy(id))
  BY DEF AllowedTargets, FindPolicy, Unmatched, Matching, Matches, Configured

LEMMA SameState ==
  ASSUME IndInv, UNCHANGED <<mappings, state>> PROVE WaitingListed' /\ SelectedTried'
  <1>1. WaitingListed'
    <2>1. PICK id : id = state.server
      BY Zenon
    <2>2. AllowedTargets(FindPolicy(id))' = AllowedTargets(FindPolicy(id))
      BY SameRules, Zenon
    <2> QED
      BY <2>1, <2>2, Zenon DEF IndInv, WaitingListed
  <1>2. SelectedTried'
    BY Zenon DEF IndInv, SelectedTried, AsTried, Configured
  <1> QED
    BY <1>1, <1>2, Zenon

LEMMA IndInit == Init => IndInv
  BY DEF Init, IndInv, RulesValid, WaitingListed, SelectedTried, BootComplete,
         ValidatedResolves, NoAnswer

LEMMA PollStep ==
  ASSUME IndInv, NEW id \in Identity, Poll(id) PROVE IndInv'
  <1>1. PICK r : r = ResolveBootTarget(id, None, <<>>)
    BY Zenon
  <1>2. PICK policy : policy = FindPolicy(id)
    BY Zenon
  <1>3. /\ policy.default = None => r = NoTarget(policy)
        /\ policy.default # None =>
             \/ r = Refused("reference")
             \/ Resolved(r, policy.default) /\ "hostname" \in DOMAIN r.params
    <2>1. Outcome(r, id, None, With("hostname", None))
      BY <1>1, BootTargetAnswers, Zenon DEF IndInv
    <2>2. "hostname" \in DOMAIN With("hostname", None)
      BY Zenon DEF With
    <2>3. policy.default # None => policy.default \in Configured
      BY <1>2, PolicyValid, Zenon DEF Poll
    <2> QED
      BY <1>2, <2>1, <2>2, <2>3, Zenon DEF Outcome
  <1>4. UNCHANGED <<mappings, phase>>
    BY Zenon DEF Poll
  <1>5. mappings' \in MappingsFiles /\ phase' = "serving" /\ RulesValid'
    BY <1>4, Zenon DEF Poll, IndInv, RulesValid, ValidPolicy, Configured
  <1>6. CASE ~r.ok /\ answer' = [kind |-> "error", why |-> r.why] /\ UNCHANGED state
    <2>1. r = Refused("reference")
      BY <1>3, <1>6 DEF NoTarget, Resolved
    <2>2. answer'.kind = "error" /\ answer'.why = "reference"
      BY <1>6, <2>1 DEF Refused
    <2>3. \E layer \in Layers(mappings') : BadReference(layer.params)
      BY <1>1, <1>4, <2>1, PollFails, Zenon DEF IndInv
    <2>4. BootComplete' /\ ValidatedResolves'
      BY <1>4, <2>2, <2>3, Zenon DEF BootComplete, ValidatedResolves, Layers
    <2> QED
      BY <1>4, <1>5, <1>6, <2>4, SameState, Zenon DEF IndInv
  <1>7. CASE /\ r.ok /\ r.target # None /\ UNCHANGED state
             /\ answer' = Boot("auto", r.target, ResolvedName(id, r.params), r.params, r.structured)
    <2>1. Resolved(r, policy.default) /\ "hostname" \in DOMAIN r.params
      BY <1>3, <1>7 DEF NoTarget, Refused
    <2>2. answer'.kind = "boot" /\ answer'.params = r.params
      BY <1>7, Zenon DEF Boot
    <2>3. BootComplete' /\ ValidatedResolves'
      BY <2>1, <2>2, Zenon DEF BootComplete, ValidatedResolves, Resolved
    <2> QED
      BY <1>4, <1>5, <1>7, <2>3, SameState, Zenon DEF IndInv
  <1>8. CASE /\ r.ok /\ r.target = None /\ state = None
             /\ state' = [server |-> id, allowed |-> r.allowed, target |-> None,
                          params |-> <<>>, structured |-> <<>>, tried |-> <<>>]
             /\ answer' = [kind |-> "retry"]
    <2>1. r = NoTarget(policy)
      BY <1>3, <1>8 DEF Resolved, Refused
    <2>2. /\ state'.allowed = AllowedTargets(FindPolicy(id))
          /\ state'.server = id /\ state'.target = None
      BY <1>2, <1>8, <2>1 DEF NoTarget
    <2>3. WaitingListed'
      BY <1>4, <2>2, SameRules, Zenon DEF WaitingListed
    <2>4. SelectedTried' /\ BootComplete' /\ ValidatedResolves'
      BY <1>8, <2>2, Zenon DEF SelectedTried, BootComplete, ValidatedResolves
    <2> QED
      BY <1>5, <2>3, <2>4, Zenon DEF IndInv
  <1>9. CASE answer' = [kind |-> "retry"] /\ UNCHANGED state
    <2>1. BootComplete' /\ ValidatedResolves'
      BY <1>9, Zenon DEF BootComplete, ValidatedResolves
    <2> QED
      BY <1>4, <1>5, <1>9, <2>1, SameState, Zenon DEF IndInv
  <1>10. CASE answer' = [kind |-> "timeout"] /\ state' = None
    BY <1>5, <1>10, Zenon DEF IndInv, WaitingListed, SelectedTried, BootComplete, ValidatedResolves
  <1>11. CASE state # None /\ state.target # None /\ answer' = BootSelected /\ state' = None
    <2>1. AsTried(state)
      BY <1>11, Zenon DEF IndInv, SelectedTried
    <2>2. BootComplete'
      BY <1>11, <2>1, SelectedBoots, Zenon DEF BootComplete
    <2>3. answer'.kind # "error"
      <3>1. \/ answer' = [kind |-> "panic"]
            \/ \E t, n, p, st : answer' = Boot("manual", t, n, p, st)
        BY <1>11, Zenon DEF BootSelected
      <3> QED
        BY <3>1 DEF Boot
    <2> QED
      BY <1>5, <1>11, <2>2, <2>3, Zenon DEF IndInv, WaitingListed, SelectedTried, ValidatedResolves
  <1> QED
    BY <1>1, <1>6, <1>7, <1>8, <1>9, <1>10, <1>11, Zenon DEF Poll

LEMMA UpdateStep ==
  ASSUME IndInv, NEW t \in Name, NEW form, NEW fails \in BOOLEAN, UpdateTarget(t, form, fails)
  PROVE  IndInv'
  <1>1. PICK r : r = ResolveBootTarget(state.server, t, form)
    BY Zenon
  <1>2. UNCHANGED <<mappings, phase>>
    BY Zenon DEF UpdateTarget
  <1>3. mappings' \in MappingsFiles /\ phase' = "serving" /\ RulesValid'
    BY <1>2, Zenon DEF UpdateTarget, IndInv, RulesValid, ValidPolicy, Configured
  <1>4. CASE r.ok /\ ~fails
    <2>1. t # None
      BY FileConstants, Zenon
    <2>2. Resolved(r, t) /\ t \in Configured /\ "hostname" \in DOMAIN r.params
      <3>1. Outcome(r, state.server, t, With("hostname", None))
        BY <1>1, BootTargetAnswers, Zenon DEF IndInv
      <3>2. "hostname" \in DOMAIN With("hostname", None)
        BY Zenon DEF With
      <3>3. \A why : r # Refused(why)
        BY <1>4 DEF Refused
      <3> QED
        BY <2>1, <3>1, <3>2, <3>3, Zenon DEF Outcome
    <2>3. /\ state' = [server |-> [ip |-> state.server.ip,
                                   name |-> ResolvedName(state.server, r.params)],
                       allowed |-> state.allowed, target |-> t,
                       params |-> Stored(r.params), structured |-> r.structured,
                       tried |-> Rendered(r.params, r.structured)]
          /\ answer' = [kind |-> "selected"]
      BY <1>1, <1>4, Zenon DEF UpdateTarget
    <2>4. /\ state'.params = Stored(r.params) /\ state'.structured = r.structured
          /\ state'.tried = Rendered(r.params, r.structured) /\ state'.target = t
          /\ state'.server.name = ResolvedName(state.server, r.params)
      BY <2>3, Zenon
    <2>5. AsTried(state')
      BY <2>2, <2>4, SelectionStored, Zenon
    <2>6. SelectedTried'
      BY <1>2, <2>2, <2>4, <2>5, Zenon DEF SelectedTried, Configured, AsTried
    <2>7. WaitingListed' /\ BootComplete' /\ ValidatedResolves'
      BY <2>1, <2>3, <2>4, Zenon DEF WaitingListed, BootComplete, ValidatedResolves
    <2> QED
      BY <1>3, <2>6, <2>7, Zenon DEF IndInv
  <1>5. CASE ~(r.ok /\ ~fails)
    <2>1. answer' = [kind |-> "refused"] /\ UNCHANGED state
      BY <1>1, <1>5, Zenon DEF UpdateTarget
    <2>2. BootComplete' /\ ValidatedResolves'
      BY <2>1, Zenon DEF BootComplete, ValidatedResolves
    <2> QED
      BY <1>2, <1>3, <2>1, <2>2, SameState, Zenon DEF IndInv
  <1> QED
    BY <1>4, <1>5, Zenon

LEMMA IndStep == IndInv /\ [Next]_vars => IndInv'
  <1> SUFFICES ASSUME IndInv, [Next]_vars PROVE IndInv'
    BY Zenon
  <1>1. CASE Load
    <2>1. mappings' \in MappingsFiles /\ phase' \in {"serving", "failed"} /\ RulesValid'
      BY <1>1, Zenon DEF Load, IndInv, RulesValid, ValidPolicy, Configured
    <2>2. BootComplete' /\ ValidatedResolves'
      BY <1>1, Zenon DEF Load, IndInv, BootComplete, ValidatedResolves
    <2>3. UNCHANGED <<mappings, state>>
      BY <1>1, Zenon DEF Load
    <2> QED
      BY <2>1, <2>2, <2>3, SameState, Zenon DEF IndInv
  <1>2. CASE \E id \in Identity : Poll(id)
    BY <1>2, PollStep, Zenon
  <1>3. CASE \E t \in Name, form \in Form, fails \in BOOLEAN : UpdateTarget(t, form, fails)
    BY <1>3, UpdateStep, Zenon
  <1>4. CASE Expire
    BY <1>4, Zenon DEF Expire, IndInv, RulesValid, ValidPolicy, Configured, WaitingListed,
                SelectedTried, BootComplete, ValidatedResolves, NoAnswer
  <1>5. CASE UNCHANGED vars
    <2>1. UNCHANGED <<mappings, state>>
      BY <1>5, Zenon DEF vars
    <2> QED
      BY <1>5, <2>1, SameState, Zenon DEF vars, IndInv, RulesValid, ValidPolicy, Configured,
                                   BootComplete, ValidatedResolves
  <1> QED
    BY <1>1, <1>2, <1>3, <1>4, <1>5, Zenon DEF Next, Failed

\* The invariant holds at every moment, for every file and order of requests.
THEOREM TargetInvariance == Spec => []IndInv
  BY IndInit, IndStep, PTL DEF Spec

-----------------------------------------------------------------------------
(* The theorems *)

\* Every boot and every stored selection has a host name parameter, and no
\* reference to the environment is left in what a boot is rendered with: the
\* second pass of resolveBootTarget always has the generated name.
THEOREM TargetsTyped == Spec => []TypeOK
  <1>1. IndInv => TypeOK
    BY Zenon DEF IndInv, SelectedTried, AsTried, BootComplete, TypeOK, IsFinal
  <1> QED
    BY <1>1, TargetInvariance, PTL

\* Under a validated file a poll fails only if one of the file's parameters is a
\* reference to the environment that is malformed or to a variable that is not
\* set: the resolver's "missing target" branch is not reached.
THEOREM ValidatedFileResolves == Spec => []ValidatedResolves
  <1>1. IndInv => ValidatedResolves
    BY Zenon DEF IndInv
  <1> QED
    BY <1>1, TargetInvariance, PTL

\* The list that a waiting host is shown with is the set of targets that
\* UpdateTarget accepts for it, if every reference resolves.
THEOREM ListIsExact == Spec => []ListedIffAccepted
  <1>1. ASSUME IndInv PROVE ListedIffAccepted
    <2>1. SUFFICES ASSUME phase = "serving", state # None, state.target = None,
                          NEW t \in Name, NEW form \in Form, NEW r,
                          r = ResolveBootTarget(state.server, t, form)
                   PROVE  r.ok \/ r.why = "reference" <=> t \in state.allowed
      BY Zenon DEF ListedIffAccepted
    <2>2. PICK policy : policy = FindPolicy(state.server)
      BY Zenon
    <2>3. state.allowed = policy.targets /\ policy.targets \subseteq Configured
      <3>1. state.allowed = AllowedTargets(policy)
        BY <1>1, <2>1, <2>2, Zenon DEF IndInv, WaitingListed
      <3>2. policy.targets \subseteq Configured
        BY <1>1, <2>1, <2>2, PolicyValid, Zenon
      <3> QED
        BY <3>1, <3>2, Zenon DEF AllowedTargets
    <2>4. t # None
      BY <2>1, FileConstants, Zenon
    <2>5. Outcome(r, state.server, t, With("hostname", None))
      BY <1>1, <2>1, BootTargetAnswers, Zenon DEF IndInv
    <2>6. CASE t \notin policy.targets
      <3>1. r = Refused("not allowed") \/ r = Refused("missing target")
        BY <2>2, <2>4, <2>5, <2>6, Zenon DEF Outcome
      <3>2. r.ok = FALSE /\ r.why # "reference"
        <4>1. CASE r = Refused("not allowed")
          BY <4>1, Zenon DEF Refused
        <4>2. CASE r = Refused("missing target")
          BY <4>2, Zenon DEF Refused
        <4> QED
          BY <3>1, <4>1, <4>2, Zenon
      <3> QED
        BY <2>3, <2>6, <3>2, Zenon
    <2>7. CASE t \in policy.targets
      <3>1. r = Refused("reference") \/ Resolved(r, t)
        BY <2>2, <2>3, <2>4, <2>5, <2>7, Zenon DEF Outcome
      <3> QED
        BY <2>3, <2>7, <3>1 DEF Refused, Resolved
    <2> QED
      BY <2>6, <2>7, Zenon
  <1> QED
    BY <1>1, TargetInvariance, PTL

\* A selected host boots with the target, the name and the parameters that its
\* template was tried with when the selection was stored.
THEOREM BootsWhatWasTried == Spec => TriedIsBooted
  <1> DEFINE Kept ==
        answer'.kind = "boot" /\ answer'.how = "manual" =>
          /\ answer'.target = state.target
          /\ answer'.name = state.server.name
          /\ DOMAIN answer'.rendered = DOMAIN state.tried
          /\ \A k \in DOMAIN state.tried :
               state.tried[k].type # "float" => answer'.rendered[k] = state.tried[k]
  <1>1. IndInv /\ [Next]_vars => [Kept]_vars
    <2> SUFFICES ASSUME IndInv, Next, vars' # vars, answer'.kind = "boot", answer'.how = "manual"
                 PROVE  Kept
      BY Zenon DEF vars
    <2>1. CASE Load
      BY <2>1 DEF Load, IndInv, NoAnswer
    <2>2. ASSUME NEW id \in Identity, Poll(id) PROVE Kept
      <3>1. \/ \E why : answer' = [kind |-> "error", why |-> why]
            \/ \E t, n, p, st : answer' = Boot("auto", t, n, p, st)
            \/ answer' \in {[kind |-> "retry"], [kind |-> "timeout"]}
            \/ state # None /\ state.target # None /\ answer' = BootSelected
        BY <2>2, Zenon DEF Poll
      <3>2. state # None /\ state.target # None /\ answer' = BootSelected
        BY <3>1 DEF Boot
      <3>3. AsTried(state)
        BY <3>2, Zenon DEF IndInv, SelectedTried
      <3> QED
        BY <3>2, <3>3, SelectedBoots, Zenon
    <2>3. ASSUME NEW t \in Name, NEW form \in Form, NEW fails \in BOOLEAN,
                 UpdateTarget(t, form, fails)
          PROVE  Kept
      <3>1. answer' = [kind |-> "selected"] \/ answer' = [kind |-> "refused"]
        BY <2>3, Zenon DEF UpdateTarget
      <3> QED
        BY <3>1
    <2>4. CASE Expire
      BY <2>4, Zenon DEF Expire, NoAnswer
    <2>5. ~Failed
      BY Zenon DEF Failed
    <2> QED
      BY <2>1, <2>2, <2>3, <2>4, <2>5, Zenon DEF Next
  <1> QED
    BY <1>1, TargetInvariance, PTL DEF Spec, TriedIsBooted
=============================================================================
