------------------------------ MODULE Templates ------------------------------
(***************************************************************************)
(* The template index: ParseTemplates loads the shipped templates, then    *)
(* those of the data directory, then the overrides of each environment;    *)
(* RenderTemplate executes one of them for an environment and falls back   *)
(* to the default environment when that fails.                             *)
(*                                                                         *)
(* Data: a template's body is a sequence of nodes; of its text only a mark *)
(* is kept, and none of white space and comments.  A variable is the       *)
(* sequence of its identifiers, so that {{.users.admin}} reads             *)
(* <<"users", "admin">>.                                                   *)
(***************************************************************************)
EXTENDS Naturals, Sequences, FiniteSets, Functions

CONSTANTS
  DataDirs,     \* the template files that a server may start with
  Names,        \* template names
  DebianNames,  \* preseed/debian and the scripts generated for it
  Unsupported,  \* installer templates without structured encryption
  Default,      \* defaultEnvironment
  NoName,       \* the empty name of a template or of an environment
  NoValue       \* the text that an absent variable is printed as

\* The nodes that read a variable, and those that call a template.  A "root"
\* node is {{$.x}}: it prints as {{.x}} does, but is not a field node.
Reading == {"print", "root", "apply", "when"}
Calling == {"call", "when"}
IsBody(b) ==
  /\ Len(b) \in Nat /\ DOMAIN b = 1 .. Len(b)
  /\ \A i \in DOMAIN b :
       b[i].op \in {"text"} \cup Reading \cup Calling /\ (b[i].op \in Calling => b[i].name \in Names)

\* A file defines templates or does not parse; an override has an environment.
IsFile(f) ==
  /\ DOMAIN f = {"parses", "defs"} /\ DOMAIN f.defs \subseteq Names
  /\ \A n \in DOMAIN f.defs : IsBody(f.defs[n])

ASSUME TemplateConstants ==
  /\ IsFiniteSet(Names) /\ NoName \notin Names /\ NoName # Default
  /\ \A d \in DataDirs :
       /\ \A i \in DOMAIN d.embedded : IsFile(d.embedded[i])
       /\ \A i \in DOMAIN d.disk : IsFile(d.disk[i])
       /\ \A i \in DOMAIN d.overrides :
            IsFile(d.overrides[i].file) /\ d.overrides[i].env # NoName

VARIABLES
  dir,     \* what is on the disk: the files of the three walks
  phase,   \* "embedded", "disk", "overrides", then "serving", or "failed"
  next,    \* the next file of the walk
  envs,    \* envTemplates: environment -> name -> what is executed (tree), what is
           \* indexed (body) and the embedded flag
  loaded   \* history: the files parsed so far

templateVars == <<dir, phase, next, envs, loaded>>

TemplatesInit ==
  /\ dir \in DataDirs
  /\ phase = "embedded" /\ next = 1
  /\ envs = [e \in {Default} |-> <<>>]
  /\ loaded = <<>>

-----------------------------------------------------------------------------
(* Loading *)

\* Mutant: a new environment starts empty.
checkAddEnvironment_Empty(env) ==
  IF env \in DOMAIN envs THEN envs[env] ELSE <<>>

\* A new environment inherits the index of the default one.
checkAddEnvironment(env) ==
  IF env \in DOMAIN envs THEN envs[env] ELSE envs[Default]

\* Mutant: a template keeps its flag when a file replaces it.
EmbeddedFlag_Kept(ns, n, body, embedded) == embedded \/ (n \in DOMAIN ns /\ ns[n].embedded)

\* A shipped template stays one as long as it is replaced by copies of itself.
EmbeddedFlag(ns, n, body, embedded) ==
  embedded \/ (n \in DOMAIN ns /\ ns[n].embedded /\ ns[n].body = body)

\* AddParseTree of text/template does not replace a template by an empty one.
AddParseTree(ns, n, body) ==
  IF body = <<>> /\ n \in DOMAIN ns THEN ns[n].tree ELSE body

\* What addTemplateContent makes of an index: the body is indexed in any case.
Added(ns, defs, embedded) ==
  [n \in DOMAIN ns \cup DOMAIN defs |->
     IF n \in DOMAIN defs
       THEN [tree |-> AddParseTree(ns, n, defs[n]), body |-> defs[n],
             embedded |-> EmbeddedFlag(ns, n, defs[n], embedded)]
       ELSE ns[n]]

Record(env, file, embedded, walk) ==
  [env |-> env, defs |-> file.defs, embedded |-> embedded, walk |-> walk]

addTemplateContent(env, file, embedded) ==
  IF file.parses
    THEN /\ envs' = [e \in DOMAIN envs \cup {env} |->
                       IF e = env THEN Added(checkAddEnvironment(env), file.defs, embedded)
                                  ELSE envs[e]]
         /\ loaded' = Append(loaded, Record(env, file, embedded, phase))
         /\ next' = next + 1
         /\ UNCHANGED <<dir, phase>>
    ELSE phase' = "failed" /\ UNCHANGED <<dir, next, envs, loaded>>

ParseEmbedded ==
  /\ phase = "embedded" /\ next \in DOMAIN dir.embedded
  /\ addTemplateContent(Default, dir.embedded[next], TRUE)

ParseDisk ==
  /\ phase = "disk" /\ next \in DOMAIN dir.disk
  /\ addTemplateContent(Default, dir.disk[next], FALSE)

ParseOverride ==
  /\ phase = "overrides" /\ next \in DOMAIN dir.overrides
  /\ addTemplateContent(dir.overrides[next].env, dir.overrides[next].file, FALSE)

\* Mutant: the overrides are walked before the data directory.
NextWalk_OverridesFirst ==
  CASE phase = "embedded" -> "overrides"
    [] phase = "overrides" -> "disk"
    [] OTHER -> "serving"

\* The order of the walks in ParseTemplates.
NextWalk ==
  CASE phase = "embedded" -> "disk"
    [] phase = "disk" -> "overrides"
    [] OTHER -> "serving"

WalkEnds ==
  /\ \/ phase = "embedded" /\ next = Len(dir.embedded) + 1
     \/ phase = "disk" /\ next = Len(dir.disk) + 1
     \/ phase = "overrides" /\ next = Len(dir.overrides) + 1
  /\ phase' = NextWalk /\ next' = 1
  /\ UNCHANGED <<dir, envs, loaded>>

ParseTemplates == ParseEmbedded \/ ParseDisk \/ ParseOverride \/ WalkEnds

-----------------------------------------------------------------------------
(* Lookup *)

EnvOf(env) == IF env = NoName THEN Default ELSE env
Index(env) == IF env \in DOMAIN envs THEN envs[env] ELSE <<>>

HasTemplate(name, env) ==
  name \in DOMAIN Index(EnvOf(env)) \cup DOMAIN envs[Default]

HasTemplateOverride(name, env) ==
  IF EnvOf(env) = Default THEN HasTemplate(name, Default)
  ELSE /\ name \in DOMAIN Index(env)
       /\ \/ name \notin DOMAIN envs[Default]
          \/ envs[env][name].body # envs[Default][name].body

isEmbeddedTemplate(name, env) ==
  name \in DOMAIN Index(EnvOf(env)) /\ envs[EnvOf(env)][name].embedded

\* extractTemplateInfo: the variables that the indexed body of a template reads
\* as fields, and the templates that it calls.
Variables(ns, n) ==
  IF n \in DOMAIN ns
    THEN {m.ident : m \in {k \in Range(ns[n].body) : k.op \in Reading \ {"root"}}} ELSE {}
Calls(ns, n) ==
  IF n \in DOMAIN ns THEN {m.name : m \in {k \in Range(ns[n].body) : k.op \in Calling}} ELSE {}

\* A walk of the templates that call each other is at node pos of one of them;
\* depth bounds the calls it may still follow.
BodyLen(ns, n) == IF n \in DOMAIN ns THEN Len(ns[n].body) ELSE 0
TreeLen(ns, n) == IF n \in DOMAIN ns THEN Len(ns[n].tree) ELSE 0
Depth == 0 .. Cardinality(Names)

\* Mutant: the variables of a called template are dropped.
collectVariables_Dropped(ns, collect, c) ==
  IF c.name \in c.visited \/ c.depth = 0 THEN [vars |-> {}, visited |-> c.visited]
  ELSE IF c.pos = 0
    THEN [vars |-> Variables(ns, c.name), visited |-> c.visited \cup {c.name}]
  ELSE collect[[c EXCEPT !.pos = @ - 1]]

\* collectVariables after pos nodes of a template: depth first, each template
\* once.  The refs are followed in the order of the body; visited is shared by
\* the whole traversal.
Visits(ns) ==
  {c \in [depth : Depth, name : Names, pos : Nat, visited : SUBSET Names] :
     c.pos <= BodyLen(ns, c.name)}
collectVariables(ns, collect, c) ==
  IF c.name \in c.visited \/ c.depth = 0 THEN [vars |-> {}, visited |-> c.visited]
  ELSE IF c.pos = 0
    THEN [vars |-> Variables(ns, c.name), visited |-> c.visited \cup {c.name}]
  ELSE LET acc == collect[[c EXCEPT !.pos = @ - 1]]
           node == ns[c.name].body[c.pos]
           sub == collect[[depth |-> c.depth - 1, name |-> node.name,
                           pos |-> BodyLen(ns, node.name), visited |-> acc.visited]]
       IN  IF node.op \notin Calling THEN acc
           ELSE [vars |-> acc.vars \cup sub.vars, visited |-> sub.visited]

Collect(ns, name) ==
  LET collect[c \in Visits(ns)] == collectVariables(ns, collect, c)
  IN  collect[[depth |-> Cardinality(Names), name |-> name, pos |-> BodyLen(ns, name),
               visited |-> {}]].vars

\* Mutant: the variables of the template itself only.
ListVariables_Direct(name, env) ==
  Variables(Index(EnvOf(env)), name)

ListVariables(name, env) == Collect(Index(EnvOf(env)), name)

-----------------------------------------------------------------------------
(* Rendering *)

\* A value has a type, "text", "empty" or "map", and the marks it prints.  An
\* absent one is what a parameter that is not there, or that is null, gives.
Absent == [type |-> "absent", out |-> {NoValue}]

\* text/template with its default option: a field of an absent value is absent,
\* a field of a text is an error.
Eval(params, ident) ==
  IF Head(ident) \notin DOMAIN params THEN Absent
  ELSE LET v == params[Head(ident)]
       IN  IF Len(ident) = 1 \/ v = Absent THEN v
           ELSE [type |-> IF v.type = "map" THEN "text" ELSE "error", out |-> {}]

\* The state of an execution: its output so far, the variables it printed
\* although they are absent, and whether it failed.
Started == [out |-> {}, lost |-> {}, failed |-> FALSE]
Failing(acc) == [acc EXCEPT !.failed = TRUE]
Then(acc, sub) ==
  [out |-> acc.out \cup sub.out, lost |-> acc.lost \cup sub.lost, failed |-> sub.failed]

\* One node of a template, after acc: sub is the execution of the template that
\* it calls.
Walk(node, params, acc, sub) ==
  LET v == Eval(params, node.ident)
  IN  IF acc.failed THEN acc
      ELSE IF node.op \in Reading /\ v.type = "error" THEN Failing(acc)
      ELSE CASE node.op = "text" -> [acc EXCEPT !.out = @ \cup {node.text}]
             [] node.op = "call" -> Then(acc, sub)
             [] node.op \in {"print", "root"} ->
                  [acc EXCEPT !.out = @ \cup v.out,
                              !.lost = @ \cup {w \in {node.ident} : v = Absent}]
             \* a function such as index, len or gt
             [] node.op = "apply" -> IF v = Absent THEN Failing(acc) ELSE acc
             [] node.op = "when" ->
                  IF v.type \in {"absent", "empty"} THEN acc ELSE Then(acc, sub)

\* The execution of a template and of those it calls, after pos of its nodes.
\* Output written before a failure stays in the buffer.  A template that is not
\* there, or that calls itself, fails.
Frames(ns) ==
  {c \in [depth : Depth, name : Names, pos : Nat] : c.pos <= TreeLen(ns, c.name)}
ExecutedTo(ns, params, exec, c) ==
  IF c.depth = 0 \/ c.name \notin DOMAIN ns THEN Failing(Started)
  ELSE IF c.pos = 0 THEN Started
  ELSE LET node == ns[c.name].tree[c.pos]
       IN  Walk(node, params, exec[[c EXCEPT !.pos = @ - 1]],
                exec[[depth |-> c.depth - 1, name |-> node.name, pos |-> TreeLen(ns, node.name)]])

Executed(ns, name, params) ==
  LET exec[c \in Frames(ns)] == ExecutedTo(ns, params, exec, c)
  IN  exec[[depth |-> Cardinality(Names), name |-> name, pos |-> TreeLen(ns, name)]]

\* ExecuteTemplate of a set of templates.
Execute(ns, name, params) ==
  IF name \in DOMAIN ns THEN Executed(ns, name, params) ELSE Failing(Started)

\* installer.extraTemplate, unless it is the template itself.
HasExtra(q) == q.extra \notin {NoName, q.name}

\* Mutant: any template may be rendered for an encrypted host.
validateRenderParams_NoGuard(q, embedded) == q.name \in DebianNames => q.layout

\* q.layout: what validateDebianPreseedParams says (module Provisioning).
validateRenderParams(q, embedded) ==
  IF q.name \in DebianNames THEN q.layout
  ELSE ~(q.encrypted /\ q.name \in Unsupported /\ embedded /\ ~HasExtra(q))

KeyInMap(variable, params) == Len(variable) = 1 /\ Head(variable) \in DOMAIN params

\* A map with the entries of another one laid over it.
Over(f, g) == [k \in DOMAIN f \cup DOMAIN g |-> IF k \in DOMAIN f THEN f[k] ELSE g[k]]
Extra(v) == [installerExtra |-> v]
NoExtra == [type |-> "empty", out |-> {}]

\* withInstallerExtra: the buffer is reset before the fallback.
ExtraOutput(q, env) ==
  LET params == Over(Extra(NoExtra), q.params)
      own == Execute(envs[env], q.extra, params)
  IN  IF own.failed /\ env # Default THEN Execute(envs[Default], q.extra, params) ELSE own

WithExtra(q, out) ==
  Over(Extra(IF out = {} THEN NoExtra ELSE [type |-> "text", out |-> out]), q.params)

Answer(kind) == [kind |-> kind, out |-> {}, lost |-> {}, missing |-> {}]

\* The end of RenderTemplate: output with an absent variable is an error.
Checked(r, required, params) ==
  IF r.failed THEN Answer("error")
  ELSE IF NoValue \in r.out
    THEN [Answer("missing") EXCEPT !.lost = r.lost,
                                   !.missing = {v \in required : ~KeyInMap(v, params)}]
    ELSE [Answer("ok") EXCEPT !.out = r.out]

\* The execution and its fallback, which writes to the same buffer.  lost is what
\* the template that is answered with lost.
Rendered(q, env, params) ==
  LET own == Execute(envs[env], q.name, params)
      base == Execute(envs[Default], q.name, params)
  IN  IF own.failed /\ env # Default
        THEN Checked([out |-> own.out \cup base.out, lost |-> base.lost, failed |-> base.failed],
                     ListVariables(q.name, Default), params)
        ELSE Checked(own, ListVariables(q.name, env), params)

\* RenderTemplate.  An environment without any template is not in envTemplates
\* and its nil template set panics when it is executed.
RenderTemplate(q) ==
  LET env == EnvOf(q.env)
      known == env \in DOMAIN envs
      extra == IF HasExtra(q) THEN ExtraOutput(q, env) ELSE Started
  IN  IF ~known /\ HasExtra(q) THEN Answer("panic")
      ELSE IF extra.failed THEN Answer("error")
      ELSE IF ~validateRenderParams(q, isEmbeddedTemplate(q.name, q.env)) THEN Answer("refused")
      ELSE IF ~known THEN Answer("panic")
      ELSE Rendered(q, env, WithExtra(q, extra.out))

-----------------------------------------------------------------------------
(* Properties of the index *)

\* The templates that the references of the indexed bodies lead to from n.
Reachable(ns, n) ==
  {m \in Names : \A R \in SUBSET Names :
     n \in R /\ (\A k \in R : Calls(ns, k) \subseteq R) => m \in R}

\* File i is one that environment e is made of, and it defines n.  All inherit the
\* shipped files and the data directory.  A file that is found in
\* env_overrides/default/ is added to the default environment: it comes too late
\* for the environments that are there by then.
Inherits(i, e) ==
  /\ loaded[i].env = Default
  /\ loaded[i].walk = "overrides" => \A j \in DOMAIN loaded : loaded[j].env = e => j > i
Defines(i, e, n) == (loaded[i].env = e \/ Inherits(i, e)) /\ n \in DOMAIN loaded[i].defs

\* It is the last one that does; it is the last one that has a body for n.
DefinesLast(i, e, n) ==
  Defines(i, e, n) /\ \A j \in DOMAIN loaded : j > i => ~Defines(j, e, n)
FillsLast(i, e, n) ==
  /\ Defines(i, e, n)
  /\ \A j \in DOMAIN loaded :
       Defines(j, e, n) /\ (j > i \/ loaded[i].defs[n] = <<>>) => loaded[j].defs[n] = <<>>

\* "If a later layer defines the same template name as an earlier layer, the
\* later definition wins" (docs/provisioning-overrides.md): an environment has
\* exactly the templates that its own files, the data directory or the shipped
\* files define.  The variables and references that are indexed are those of the
\* last such file.  What is executed is its body too, unless that is empty: an
\* empty definition does not win over one that is not (AddParseTree).
LaterLayerWins ==
  \A e \in DOMAIN envs : \A n \in Names :
    /\ n \in DOMAIN envs[e] => \E i, j \in DOMAIN loaded :
         /\ DefinesLast(i, e, n) /\ envs[e][n].body = loaded[i].defs[n]
         /\ FillsLast(j, e, n) /\ envs[e][n].tree = loaded[j].defs[n]
    /\ n \notin DOMAIN envs[e] => \A i \in DOMAIN loaded : ~Defines(i, e, n)

\* A template counts as shipped, and is refused to an encrypted host, exactly
\* while every file that defines it has the body of the last shipped one.
ShippedMeansUnchanged ==
  \A e \in DOMAIN envs : \A n \in DOMAIN envs[e] :
    LET all == {i \in DOMAIN loaded : Defines(i, e, n)}
        shipped == {i \in all : loaded[i].embedded}
    IN  envs[e][n].embedded <=>
          \E s \in shipped : \A i \in all : i > s => loaded[i].defs[n] = loaded[s].defs[n]
=============================================================================
