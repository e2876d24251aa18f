---------------------------- MODULE ConfigServer -----------------------------
(***************************************************************************)
(* The /configs/ endpoints.  TemplateHandler and GeneratedConfigHandler    *)
(* render a template for a request; StaticConfigFileHandler looks for a    *)
(* path in the static directory of the environment, in the base one, in    *)
(* the shipped files, and among the templates.  It opens the path again    *)
(* for every question it asks, while an operator edits the directories.    *)
(***************************************************************************)
EXTENDS Templates

CONSTANTS
  Requests,    \* template requests: name, env, params, extra, encrypted, layout
  StaticName,  \* the template name of the one static path
  RefEnvs,     \* the environments of the stored boot sessions
  Contents,    \* what a path can be: some of "missing", "file", "dir", "error"
  MaxEdits,    \* bound of the operator's edits
  None

Layer == {"env", "base", "shipped"}

ASSUME StaticConstants ==
  /\ StaticName \in Names /\ MaxEdits \in Nat /\ None \notin Layer
  /\ "missing" \in Contents /\ Contents \subseteq {"missing", "file", "dir", "error"}

VARIABLES
  disk,    \* what each layer has at the path of the request
  edits,   \* edits made during the request
  job,     \* the static request being served, or None
  answer,  \* the last answer, with the request it is for
  seen     \* history: what each layer had at the path during the request

staticVars == <<disk, edits, job, answer, seen>>
vars == <<templateVars, staticVars>>

\* No request: what the directories hold does not matter.
NoDisk == [l \in Layer |-> "missing"]
NothingSeen == [l \in Layer |-> {}]

Init ==
  /\ TemplatesInit
  /\ disk = NoDisk /\ seen = NothingSeen /\ edits = 0
  /\ job = None /\ answer = None

Load == ParseTemplates /\ UNCHANGED staticVars

-----------------------------------------------------------------------------
(* Requests for a template *)

Ready == phase = "serving" /\ job = None /\ answer = None

\* A ref is absent, unknown, unreadable or names a session and its environment.
Refs == {"none", "unknown", "unreadable"} \cup RefEnvs

\* resolveTemplateRequest refuses a ref it cannot resolve, and GeneratedConfig-
\* Handler a request without one.
RefuseRequest(ref, requireRef) ==
  /\ ref \in {"unknown", "unreadable"} \/ (requireRef /\ ref = "none")
  /\ UNCHANGED vars

\* The session's environment replaces the request's.  Only a session has an
\* extra template.
Resolves(q, ref) == ref \in RefEnvs \/ (ref = "none" /\ q.extra = NoName)
Resolved(q, ref) == IF ref \in RefEnvs \ {NoName} THEN [q EXCEPT !.env = ref] ELSE q

Reply(q) ==
  answer' = [request |-> q, static |-> FALSE, source |-> "template",
             result |-> RenderTemplate(q)]

\* genBootScript and UpdateTarget render a target's script in its environment.
RenderScript(q) ==
  /\ Reply(q)
  /\ UNCHANGED <<templateVars, disk, edits, job, seen>>

\* TemplateHandler, and GeneratedConfigHandler once it has a ref.
ServeTemplate(q, ref) ==
  /\ Resolves(q, ref)
  /\ Reply(Resolved(q, ref))
  /\ UNCHANGED <<templateVars, disk, edits, job, seen>>

-----------------------------------------------------------------------------
(* Requests for a static file *)

\* Of the two disk layers, the first one only in an environment.
EnvLayers(env) == IF env = NoName THEN <<>> ELSE <<"env">>
AllLayers(env) == EnvLayers(env) \o <<"base", "shipped">>

\* A question asked of layers: their status, or to serve what they have.
Ask(j, stage, mode, layers) ==
  [j EXCEPT !.stage = stage, !.mode = mode, !.todo = layers, !.dirs = {}, !.file = None]

\* A path with the extension of templates is refused.
RefuseTemplateSource == UNCHANGED vars

\* Otherwise the ref is resolved.  The request finds anything in the
\* directories; the shipped file is readable.
StartStatic(q, ref, found) ==
  /\ Resolves(q, ref) /\ found["shipped"] # "error"
  /\ disk' = found /\ seen' = [l \in Layer |-> {found[l]}]
  /\ LET r == Resolved(q, ref)
     IN  job' = [request |-> r, stage |-> "all", mode |-> "status",
                 todo |-> AllLayers(r.env), dirs |-> {}, file |-> None]
  /\ UNCHANGED <<templateVars, edits, answer>>

\* Each of the following ends the request with an answer.
Done(source, result) ==
  /\ job' = None
  /\ answer' = [request |-> job.request, static |-> TRUE, source |-> source,
                result |-> result]
Continue(j) == job' = j /\ UNCHANGED answer

Serve(stage, layers) == Continue(Ask(job, stage, "serve", layers))

\* Mutant: the base directory is asked before the environment's templates.
AfterEnv_BaseFirst == Continue(Ask(job, "base", "status", <<"base">>))

\* No literal file in the environment: its template, then the base directory.
AfterEnv ==
  IF job.request.env # NoName /\ HasTemplateOverride(StaticName, job.request.env)
    THEN Done("template", RenderTemplate(job.request))
    ELSE Continue(Ask(job, "base", "status", <<"base">>))

\* No literal file in the base directory: its template, then the shipped file.
AfterBase ==
  IF HasTemplate(StaticName, NoName)
    THEN Done("template", RenderTemplate(job.request))
    ELSE Continue(Ask(job, "shipped", "status", <<"shipped">>))

\* The answer of overlayPathStatus for the stage.
StatusKnown(content) ==
  IF content = "error" THEN Done("error", "error")
  ELSE IF job.stage = "all" THEN
    IF content = "dir" THEN Serve("all", AllLayers(job.request.env))
    ELSE IF EnvLayers(job.request.env) = <<>> THEN AfterEnv
    ELSE Continue(Ask(job, "env", "status", EnvLayers(job.request.env)))
  ELSE IF content # "missing" THEN Serve(job.stage, <<job.stage>>)
  ELSE \/ job.stage = "env" /\ AfterEnv
       \/ job.stage = "base" /\ AfterBase
       \/ job.stage = "shipped" /\ Done("none", "not found")

\* overlayPathStatus opens the next layer.
OpenForStatus ==
  /\ job # None /\ job.mode = "status"
  /\ LET content == disk[Head(job.todo)]
     IN  IF content = "missing" /\ Len(job.todo) > 1
           THEN Continue([job EXCEPT !.todo = Tail(@)])
           ELSE StatusKnown(content)
  /\ UNCHANGED <<templateVars, disk, edits, seen>>

\* Mutant: only the first directory is listed.
Opened_FirstDir(content) ==
  [job EXCEPT !.todo = Tail(@),
              !.dirs = IF content = "dir" /\ @ = {} THEN {Head(job.todo)} ELSE @,
              !.file = IF content = "file" /\ @ = None THEN Head(job.todo) ELSE @]

\* What OverlayFileServerHandler notes of a layer: any directory is merged, and
\* the first file is kept.
Opened(content) ==
  [job EXCEPT !.todo = Tail(@),
              !.dirs = @ \cup {l \in {Head(job.todo)} : content = "dir"},
              !.file = IF content = "file" /\ @ = None THEN Head(job.todo) ELSE @]

\* Its loop over the layers, and what it answers after the last one.
OpenToServe ==
  /\ job # None /\ job.mode = "serve"
  /\ LET content == disk[Head(job.todo)]
         j == Opened(content)
     IN  IF content = "error" THEN Done("error", "error")
         ELSE IF j.todo # <<>> THEN Continue(j)
         ELSE IF j.dirs # {} THEN Done("index", j.dirs)
         ELSE IF j.file # None THEN Done(j.file, "file")
         ELSE Done("none", "not found")
  /\ UNCHANGED <<templateVars, disk, edits, seen>>

\* An operator adds, removes or replaces the path in a directory on the disk.
Edit(l, content) ==
  /\ phase = "serving" /\ job # None /\ edits < MaxEdits /\ l # "shipped"
  /\ content # disk[l]
  /\ disk' = [disk EXCEPT ![l] = content]
  /\ seen' = [seen EXCEPT ![l] = @ \cup {content}]
  /\ edits' = edits + 1
  /\ UNCHANGED <<templateVars, job, answer>>

\* An entry that is removed while a directory is listed fails the listing.
ListingFails ==
  /\ job # None /\ job.mode = "serve" /\ edits < MaxEdits
  /\ disk[Head(job.todo)] = "dir"
  /\ seen' = [seen EXCEPT ![Head(job.todo)] = @ \cup {"error"}]
  /\ edits' = edits + 1
  /\ Done("error", "error")
  /\ UNCHANGED <<templateVars, disk>>

\* The client has its answer.
Answered ==
  /\ answer # None
  /\ answer' = None
  /\ disk' = NoDisk /\ seen' = NothingSeen /\ edits' = 0
  /\ UNCHANGED <<templateVars, job>>

Failed == phase = "failed" /\ UNCHANGED vars

Request ==
  /\ Ready
  /\ \/ \E q \in Requests : RenderScript(q)
     \/ \E ref \in Refs, requireRef \in BOOLEAN : RefuseRequest(ref, requireRef)
     \/ RefuseTemplateSource
     \/ \E q \in Requests, ref \in Refs : ServeTemplate(q, ref)
     \/ \E q \in {r \in Requests : r.name = StaticName}, ref \in Refs, found \in [Layer -> Contents] :
          StartStatic(q, ref, found)

Next ==
  \/ Load
  \/ Request
  \/ OpenForStatus \/ OpenToServe \/ ListingFails \/ Answered
  \/ \E l \in Layer, content \in Contents : Edit(l, content)
  \/ Failed

Spec == Init /\ [][Next]_vars

-----------------------------------------------------------------------------
(* Properties *)

\* Type correctness; every environment has all templates that are shipped
\* (checkAddEnvironment, addTemplateContent).
TypeOK ==
  /\ phase \in {"embedded", "disk", "overrides", "serving", "failed"}
  /\ \A e \in DOMAIN envs : \A n \in DOMAIN envs[e] :
       n \in Names /\ DOMAIN envs[e][n] = {"tree", "body", "embedded"}
  /\ \A e \in DOMAIN envs, i \in DOMAIN loaded :
       loaded[i].embedded => DOMAIN loaded[i].defs \subseteq DOMAIN envs[e]
  /\ disk \in [Layer -> Contents] /\ edits \in 0 .. MaxEdits
  /\ seen \in [Layer -> SUBSET (Contents \cup {"error"})]
  /\ job # None => job.todo # <<>> /\ job.dirs \subseteq Layer
  /\ answer # None => answer.source \in Layer \cup {"template", "index", "none", "error"}

\* The environment's own template failed, so that the base's was executed too.
FellBack(q) ==
  LET env == EnvOf(q.env)
      extra == IF HasExtra(q) THEN ExtraOutput(q, env) ELSE Started
  IN  /\ env \in DOMAIN envs \ {Default}
      /\ Execute(envs[env], q.name, WithExtra(q, extra.out)).failed

Rendering == answer # None /\ answer.source = "template"

\* What RenderTemplate can be asked for, with the environment of a session too.
RenderRequests == Requests \cup {Resolved(q, ref) : q \in Requests, ref \in RefEnvs}

\* The environment whose template is answered with, in the end.
AnsweringEnv(q) == IF FellBack(q) THEN Default ELSE EnvOf(q.env)

\* What is executed of template n is not what is indexed: its last definition is
\* empty and an earlier one is not.
Emptied(ns, n) == n \in DOMAIN ns /\ ns[n].tree # ns[n].body

\* The variables that a template reads as {{$.x}}.
RootReads(ns, n) ==
  IF n \in DOMAIN ns THEN {m.ident : m \in {k \in Range(ns[n].tree) : k.op = "root"}} ELSE {}

\* A request that fails for want of variables is told each variable that its
\* template, or any template that it calls, printed as absent: the listing
\* follows the same references as the execution.  Not named are: a parameter that
\* is there and is null; a variable that is read as {{$.x}}, which
\* extractTemplateInfo does not see; and variables of a template whose last
\* definition is empty, or that such a template calls.  After a fallback to the
\* base, its template is the one meant: what the environment's template printed
\* as absent before it failed is in the output too and is not named.
MissingNamed ==
  Ready => \A q \in RenderRequests :
    LET r == RenderTemplate(q)
        ns == envs[AnsweringEnv(q)]
    IN  r.kind = "missing" => \A v \in r.lost \ r.missing :
          \/ KeyInMap(v, q.params) /\ q.params[Head(v)] = Absent
          \/ \E m \in Reachable(ns, q.name) : v \in RootReads(ns, m) \/ Emptied(ns, m)

\* The web page asks for the variables that ListVariables returns: they are
\* those of all templates reachable from the one that is chosen, and no others,
\* however the templates call each other.  (Variables of the indexed bodies, read
\* as {{.x}}.)
ListingExact ==
  Ready => \A env \in DOMAIN envs \cup {NoName}, n \in Names :
    LET ns == Index(EnvOf(env))
    IN  ListVariables(n, env) = UNION {Variables(ns, m) : m \in Reachable(ns, n)}

\* File s is the last shipped one that defines n.
LastShipped(s, e, n) ==
  /\ loaded[s].embedded /\ Defines(s, e, n)
  /\ \A t \in DOMAIN loaded : loaded[t].embedded /\ Defines(t, e, n) => t <= s

\* "installer templates fail clearly when it is enabled so they do not silently
\* render an unencrypted install" (docs/provisioning-overrides.md): what an
\* encrypted host gets from such a template is the text of a file of the
\* operator, and a file of the operator, in the data directory or in the
\* environment, made it differ from the one shipped last.  The code does not
\* keep the promise in two cases, which are excepted: the operator's template in
\* the environment fails and the base's is rendered, without a second check; and
\* the operator's last definition is empty, so that it clears the flag but does
\* not replace the shipped template.
EncryptionRespected ==
  LET q == answer.request
      e == AnsweringEnv(q)
      n == q.name
  IN  /\ Rendering /\ answer.result.kind = "ok"
      /\ q.encrypted /\ n \in Unsupported \ DebianNames /\ ~HasExtra(q)
      => \/ FellBack(q) \/ Emptied(envs[e], n)
         \/ /\ \E i \in DOMAIN loaded :
                  DefinesLast(i, e, n) /\ ~loaded[i].embedded /\ envs[e][n].tree = loaded[i].defs[n]
            /\ \E i \in DOMAIN loaded :
                 /\ Defines(i, e, n) /\ ~loaded[i].embedded
                 /\ \A s \in DOMAIN loaded :
                      LastShipped(s, e, n) => loaded[s].defs[n] # loaded[i].defs[n]

\* The layers of a request, and what the first of them that has the path has.
LayersOf(env) == Layer \ {l \in {"env"} : env = NoName}
FirstContent(env) ==
  IF env # NoName /\ disk["env"] # "missing" THEN disk["env"]
  ELSE IF disk["base"] # "missing" THEN disk["base"] ELSE disk["shipped"]

\* The order of docs/provisioning-overrides.md, for a disk that nobody edits:
\* the environment's file, its template, the base's file, its template, the
\* shipped file; a directory is listed with its namesakes in the other layers.
Documented(env) ==
  IF FirstContent(env) = "error" THEN "error"
  ELSE IF FirstContent(env) = "dir"
    THEN IF \E l \in LayersOf(env) : disk[l] = "error" THEN "error" ELSE "index"
  ELSE IF env # NoName /\ disk["env"] = "file" THEN "env"
  ELSE IF env # NoName /\ HasTemplateOverride(StaticName, env) THEN "template"
  ELSE IF disk["base"] = "file" THEN "base"
  ELSE IF HasTemplate(StaticName, NoName) THEN "template"
  ELSE IF disk["shipped"] = "file" THEN "shipped"
  ELSE "none"

Served == answer # None /\ answer.static
Untouched == \A l \in Layer : seen[l] = {disk[l]}

\* The chain of lookups of StaticConfigFileHandler answers what the documented
\* order says, and a directory's index is made of all its layers.
StaticOrder ==
  Served /\ Untouched =>
    /\ answer.source = Documented(answer.request.env)
    /\ answer.source = "index" =>
         answer.result = {l \in LayersOf(answer.request.env) : disk[l] = "dir"}

\* Even while the directories are edited between two lookups, an answer skips no
\* layer that was there all the time: each one above the layer that is served
\* was missing at some moment of the request, and what is served was there.  A
\* path that was a directory at some moment is left out.
StaticPrecedence ==
  Served /\ (\A l \in Layer : "dir" \notin seen[l]) =>
    LET env == answer.request.env
        override == env # NoName /\ HasTemplateOverride(StaticName, env)
    IN  /\ answer.source \in {"template", "base", "shipped"} /\ env # NoName
             => "missing" \in seen["env"]
        /\ answer.source \in {"base", "shipped"} => ~override
        /\ answer.source = "template" /\ ~override => "missing" \in seen["base"]
        /\ answer.source = "shipped"
             => "missing" \in seen["base"] /\ ~HasTemplate(StaticName, NoName)
        /\ answer.source \in Layer => "file" \in seen[answer.source]

\* "falling back to the base `data-dir` for everything else"
\* (docs/mappings-and-environments.md): in an environment that has no such
\* template, or whose template fails, a request is answered as in the base.
FallsBackToBase ==
  LET q == answer.request
  IN  Rendering /\ (EnvOf(q.env) \notin DOMAIN envs \/ FellBack(q))
        => answer.result = RenderTemplate([q EXCEPT !.env = NoName])
=============================================================================
