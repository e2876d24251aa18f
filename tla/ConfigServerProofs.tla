-------------------------- MODULE ConfigServerProofs --------------------------
(***************************************************************************)
(* Proofs about ConfigServer, for any data directories, requests and       *)
(* edits.                                                                  *)
(***************************************************************************)
EXTENDS ConfigServer, TLAPS

\* What the walks of a data directory can add to the history.
Records(d) ==
  {Record(Default, d.embedded[i], TRUE, "embedded") : i \in DOMAIN d.embedded}
  \cup {Record(Default, d.disk[i], FALSE, "disk") : i \in DOMAIN d.disk}
  \cup {Record(d.overrides[i].env, d.overrides[i].file, FALSE, "overrides") :
           i \in DOMAIN d.overrides}

\* Until the overrides are walked there is one environment, so that what the
\* others inherit is complete; each of them is there for a file of its own.
Layered ==
  /\ dir \in DataDirs
  /\ phase \in {"embedded", "disk", "overrides", "serving", "failed"}
  /\ loaded \in Seq(Records(dir))
  /\ Default \in DOMAIN envs
  /\ phase \in {"embedded", "disk"} => DOMAIN envs = {Default}
  /\ \A i \in DOMAIN loaded : loaded[i].env \in DOMAIN envs
  /\ \A e \in DOMAIN envs \ {Default} : \E i \in DOMAIN loaded : loaded[i].env = e
  /\ \A e \in DOMAIN envs : DOMAIN envs[e] \subseteq Names

IndexInv == Layered /\ LaterLayerWins /\ ShippedMeansUnchanged

LEMMA IndexInit == Init => IndexInv
<1> SUFFICES ASSUME Init PROVE IndexInv
  BY Zenon
<1>1. /\ DOMAIN envs = {Default} /\ envs[Default] = <<>>
      /\ loaded = <<>> /\ phase = "embedded" /\ dir \in DataDirs
  BY Zenon DEF Init, TemplatesInit
<1>2. loaded \in Seq(Records(dir)) /\ DOMAIN loaded = {} /\ DOMAIN envs[Default] = {}
  BY <1>1
<1>3. Layered
  BY <1>1, <1>2, Zenon DEF Layered
<1>4. LaterLayerWins
  BY <1>1, <1>2, Zenon DEF LaterLayerWins
<1>5. ShippedMeansUnchanged
  BY <1>1, <1>2, Zenon DEF ShippedMeansUnchanged
<1> QED
  BY <1>3, <1>4, <1>5, Zenon DEF IndexInv

\* What LaterLayerWins and ShippedMeansUnchanged say of one environment, as
\* formulas of its index.
LastOf(ns, e, n) ==
  /\ n \in DOMAIN ns => \E i, j \in DOMAIN loaded :
       /\ DefinesLast(i, e, n) /\ ns[n].body = loaded[i].defs[n]
       /\ FillsLast(j, e, n) /\ ns[n].tree = loaded[j].defs[n]
  /\ n \notin DOMAIN ns => \A i \in DOMAIN loaded : ~Defines(i, e, n)
Unchanged(e, n) ==
  \E s \in DOMAIN loaded :
    /\ Defines(s, e, n) /\ loaded[s].embedded
    /\ \A i \in DOMAIN loaded :
         Defines(i, e, n) /\ i > s => loaded[i].defs[n] = loaded[s].defs[n]
Indexed(ns, e) ==
  /\ DOMAIN ns \subseteq Names
  /\ \A n \in Names : LastOf(ns, e, n)
  /\ \A n \in DOMAIN ns : ns[n].embedded <=> Unchanged(e, n)

AllIndexed == \A e \in DOMAIN envs : Indexed(envs[e], e)

LEMMA IndexedMeans == Layered => (LaterLayerWins /\ ShippedMeansUnchanged <=> AllIndexed)
<1>1. LaterLayerWins <=> \A e \in DOMAIN envs : \A n \in Names : LastOf(envs[e], e, n)
  BY Zenon DEF LaterLayerWins, LastOf
<1>2. ShippedMeansUnchanged <=>
        \A e \in DOMAIN envs : \A n \in DOMAIN envs[e] : envs[e][n].embedded <=> Unchanged(e, n)
  BY DEF ShippedMeansUnchanged, Unchanged
<1> QED
  BY <1>1, <1>2, Zenon DEF AllIndexed, Indexed, Layered

\* A file of the first two walks is added to the only environment there is, one of
\* the third to any.
LEMMA AddedIndexed ==
  ASSUME IndexInv,
         NEW env, NEW file, NEW embedded \in BOOLEAN,
         file.parses, DOMAIN file.defs \subseteq Names,
         Record(env, file, embedded, phase) \in Records(dir),
         phase # "overrides" => env = Default /\ DOMAIN envs = {Default},
         addTemplateContent(env, file, embedded)
  PROVE  /\ \A e \in DOMAIN envs' : Indexed(envs[e], e)'
         /\ loaded' \in Seq(Records(dir))
         /\ DOMAIN envs' = DOMAIN envs \cup {env}
         /\ \A i \in DOMAIN loaded' : loaded'[i].env \in DOMAIN envs'
         /\ \A e \in DOMAIN envs' \ {Default} : \E i \in DOMAIN loaded' : loaded'[i].env = e
<1> DEFINE x == Record(env, file, embedded, phase)
           ns == checkAddEnvironment(env)
<1>1. /\ envs' = [e \in DOMAIN envs \cup {env} |->
                    IF e = env THEN Added(ns, file.defs, embedded) ELSE envs[e]]
      /\ loaded' = Append(loaded, x)
  BY Zenon DEF addTemplateContent
<1>2. /\ loaded \in Seq(Records(dir)) /\ Default \in DOMAIN envs
      /\ \A i \in DOMAIN loaded : loaded[i].env \in DOMAIN envs
      /\ \A e \in DOMAIN envs \ {Default} : \E i \in DOMAIN loaded : loaded[i].env = e
      /\ \A e \in DOMAIN envs : Indexed(envs[e], e)
  BY IndexedMeans, Zenon DEF IndexInv, Layered, AllIndexed
<1> HIDE DEF ns, x
<1> PICK K : K = Len(loaded) + 1
  BY Zenon
<1>3. /\ loaded' \in Seq(Records(dir))
      /\ DOMAIN loaded = 1 .. Len(loaded) /\ Len(loaded) \in Nat
      /\ DOMAIN loaded' = 1 .. K /\ loaded'[K] = x
      /\ \A i \in DOMAIN loaded : loaded'[i] = loaded[i]
  BY <1>1, <1>2 DEF x
<1>4. x.env = env /\ x.defs = file.defs /\ x.embedded = embedded /\ x.walk = phase
  BY Zenon DEF x, Record
<1>5. DOMAIN envs' = DOMAIN envs \cup {env}
  BY <1>1, Zenon
<1>6. \A i \in DOMAIN loaded : \A e, n : Defines(i, e, n)' <=> Defines(i, e, n)
  <2>1. \A i \in DOMAIN loaded : K > i /\ i \in DOMAIN loaded'
    BY <1>3
  <2>2. \A j \in DOMAIN loaded' : j \in DOMAIN loaded \/ j = K
    BY <1>3
  <2>3. \A i \in DOMAIN loaded : \A e : Inherits(i, e)' <=> Inherits(i, e)
    BY <2>1, <2>2, <1>3, Zenon DEF Inherits
  <2> QED
    BY <2>1, <2>3, <1>3, Zenon DEF Defines
<1>7. \A e \in DOMAIN envs' : \A n : Defines(K, e, n)' <=> e = env /\ n \in DOMAIN file.defs
  <2>1. ASSUME NEW e \in DOMAIN envs', e # env, env = Default PROVE ~Inherits(K, e)'
    <3>1. e \in DOMAIN envs \ {Default} /\ phase = "overrides"
      BY <2>1, <1>5, Zenon
    <3>2. PICK j \in DOMAIN loaded : loaded[j].env = e
      BY <3>1, <1>2, Zenon
    <3>3. j \in DOMAIN loaded' /\ loaded'[j].env = e /\ ~(j > K)
      BY <3>2, <1>3
    <3>4. loaded'[K].walk = "overrides"
      BY <3>1, <1>3, <1>4, Zenon
    <3> QED
      BY <3>3, <3>4, Zenon DEF Inherits
  <2>2. \A e : env # Default => ~Inherits(K, e)'
    BY <1>3, <1>4, Zenon DEF Inherits
  <2>3. loaded'[K].env = env /\ loaded'[K].defs = file.defs
    BY <1>3, <1>4, Zenon
  <2> QED
    BY <2>1, <2>2, <2>3, Zenon DEF Defines
<1>8. Indexed(ns, env)
  <2>1. CASE env \in DOMAIN envs
    BY <2>1, <1>2, Zenon DEF ns, checkAddEnvironment
  <2>2. CASE env \notin DOMAIN envs
    <3>1. ns = envs[Default] /\ Indexed(ns, Default)
      BY <2>2, <1>2, Zenon DEF ns, checkAddEnvironment
    <3>2. \A i \in DOMAIN loaded : \A n : Defines(i, env, n) <=> Defines(i, Default, n)
      BY <2>2, <1>2, Zenon DEF Defines, Inherits
    <3>3. \A n : LastOf(ns, Default, n) => LastOf(ns, env, n)
      BY <3>2, Zenon DEF LastOf, DefinesLast, FillsLast
    <3>4. \A n : Unchanged(Default, n) <=> Unchanged(env, n)
      BY <3>2, Zenon DEF Unchanged
    <3> QED
      BY <3>1, <3>3, <3>4, Zenon DEF Indexed
  <2> QED
    BY <2>1, <2>2, Zenon
<1>0. ASSUME NEW e, NEW n, NEW ms, ~Defines(K, e, n)', LastOf(ms, e, n)
      PROVE  LastOf(ms, e, n)'
  <2>1. \A i \in DOMAIN loaded' : i = K \/ i \in DOMAIN loaded
    BY <1>3
  <2>2. \A i \in DOMAIN loaded : i \in DOMAIN loaded' /\ loaded'[i] = loaded[i]
    BY <1>3
  <2>3. \A i \in DOMAIN loaded : DefinesLast(i, e, n) => DefinesLast(i, e, n)'
    BY <1>0, <2>1, <2>2, <1>6, Zenon DEF DefinesLast
  <2>4. \A i \in DOMAIN loaded : FillsLast(i, e, n) => FillsLast(i, e, n)'
    BY <1>0, <2>1, <2>2, <1>6, Zenon DEF FillsLast
  <2>5. CASE n \in DOMAIN ms
    <3>1. PICK i \in DOMAIN loaded : DefinesLast(i, e, n) /\ ms[n].body = loaded[i].defs[n]
      BY <1>0, <2>5, Zenon DEF LastOf
    <3>2. PICK j \in DOMAIN loaded : FillsLast(j, e, n) /\ ms[n].tree = loaded[j].defs[n]
      BY <1>0, <2>5, Zenon DEF LastOf
    <3> QED
      BY <2>5, <3>1, <3>2, <2>2, <2>3, <2>4, Zenon DEF LastOf
  <2>6. CASE n \notin DOMAIN ms
    BY <1>0, <2>1, <2>6, <1>6, Zenon DEF LastOf
  <2> QED
    BY <2>5, <2>6, Zenon
<1>9. ASSUME NEW e \in DOMAIN envs', e # env PROVE Indexed(envs[e], e)'
  <2>1. envs'[e] = envs[e] /\ e \in DOMAIN envs /\ Indexed(envs[e], e)
    BY <1>1, <1>5, <1>9, <1>2, Zenon
  <2>2. \A n : LastOf(envs[e], e, n) => LastOf(envs[e], e, n)'
    <3>1. \A n : ~Defines(K, e, n)'
      BY <1>7, <1>9, Zenon
    <3>2. PICK ms : ms = envs[e]
      BY Zenon
    <3>3. \A n : LastOf(ms, e, n) => LastOf(ms, e, n)'
      BY <3>1, <1>0, Zenon
    <3>4. ASSUME NEW n, LastOf(envs[e], e, n) PROVE LastOf(envs[e], e, n)'
      <4>1. LastOf(ms, e, n)' /\ envs'[e] = ms
        BY <3>2, <3>3, <3>4, <2>1, Zenon
      <4> QED
        BY <4>1, Zenon DEF LastOf
    <3> QED
      BY <3>4, Zenon
  <2>3. \A n : Unchanged(e, n) <=> Unchanged(e, n)'
    BY <1>3, <1>6, <1>7, <1>9 DEF Unchanged
  <2> QED
    BY <2>1, <2>2, <2>3, Zenon DEF Indexed
<1>10. Indexed(envs[env], env)'
  <2> DEFINE new == Added(ns, file.defs, embedded)
  <2>1. envs'[env] = new /\ env \in DOMAIN envs'
    BY <1>1, Zenon
  <2>2. /\ DOMAIN new = DOMAIN ns \cup DOMAIN file.defs
        /\ \A n \in DOMAIN file.defs :
             /\ new[n].body = file.defs[n]
             /\ new[n].tree = AddParseTree(ns, n, file.defs[n])
             /\ new[n].embedded <=> EmbeddedFlag(ns, n, file.defs[n], embedded)
        /\ \A n \in DOMAIN ns \ DOMAIN file.defs : new[n] = ns[n]
    BY Zenon DEF Added
  <2> HIDE DEF new
  <2>3. ASSUME NEW n \in DOMAIN file.defs
        PROVE  LastOf(envs[env], env, n)' /\ (new[n].embedded <=> Unchanged(env, n)')
    <3>1. Defines(K, env, n)' /\ K \in DOMAIN loaded' /\ loaded'[K].defs[n] = file.defs[n]
      BY <1>7, <2>1, <1>3, <1>4
    <3>2. LastOf(envs[env], env, n)'
      <4>1. DefinesLast(K, env, n)'
        BY <3>1, <1>3 DEF DefinesLast
      <4>2. \E j \in DOMAIN loaded' : FillsLast(j, env, n)' /\ new[n].tree = loaded'[j].defs[n]
        <5>1. CASE file.defs[n] # <<>>
          <6>1. FillsLast(K, env, n)'
            BY <3>1, <5>1, <1>3 DEF FillsLast
          <6> QED
            BY <6>1, <3>1, <5>1, <2>2, Zenon DEF AddParseTree
        <5>2. CASE file.defs[n] = <<>> /\ n \notin DOMAIN ns
          <6>1. \A i \in DOMAIN loaded : ~Defines(i, env, n)
            BY <5>2, <1>8, Zenon DEF Indexed, LastOf
          <6>2. \A i \in DOMAIN loaded' : Defines(i, env, n)' => i = K
            BY <6>1, <1>3, <1>6
          <6>3. FillsLast(K, env, n)'
            BY <3>1, <5>2, <6>2, Zenon DEF FillsLast
          <6> QED
            BY <6>3, <3>1, <5>2, <2>2, Zenon DEF AddParseTree
        <5>3. CASE file.defs[n] = <<>> /\ n \in DOMAIN ns
          <6>1. PICK j \in DOMAIN loaded : FillsLast(j, env, n) /\ ns[n].tree = loaded[j].defs[n]
            BY <5>3, <1>8, Zenon DEF Indexed, LastOf
          <6>2. j \in DOMAIN loaded' /\ loaded'[j] = loaded[j] /\ Defines(j, env, n)'
            BY <6>1, <1>3, <1>6 DEF FillsLast
          <6>3. \A i \in DOMAIN loaded' : i = K \/ i \in DOMAIN loaded
            BY <1>3
          <6>4. FillsLast(j, env, n)'
            BY <6>1, <6>2, <6>3, <3>1, <5>3, <1>3, <1>6, Zenon DEF FillsLast
          <6> QED
            BY <6>1, <6>2, <6>4, <5>3, <2>2, Zenon DEF AddParseTree
        <5> QED
          BY <5>1, <5>2, <5>3, Zenon
      <4> QED
        BY <4>1, <4>2, <2>1, <2>2, <3>1, Zenon DEF LastOf
    <3>3. CASE embedded
      <4>1. loaded'[K].embedded
        BY <3>3, <1>3, <1>4, Zenon
      <4>2. \A i \in DOMAIN loaded' : ~(i > K)
        BY <1>3
      <4>3. Unchanged(env, n)'
        BY <3>1, <4>1, <4>2, Zenon DEF Unchanged
      <4> QED
        BY <3>2, <3>3, <4>3, <2>2, Zenon DEF EmbeddedFlag
    <3>4. CASE ~embedded
      <4>1. Unchanged(env, n)' <=>
              \E s \in DOMAIN loaded :
                /\ Defines(s, env, n) /\ loaded[s].embedded
                /\ \A i \in DOMAIN loaded :
                     Defines(i, env, n) /\ i > s => loaded[i].defs[n] = loaded[s].defs[n]
                /\ file.defs[n] = loaded[s].defs[n]
        BY <3>1, <3>4, <1>3, <1>4, <1>6, SMTT(30) DEF Unchanged
      <4>2. n \in DOMAIN ns => LastOf(ns, env, n) /\ (ns[n].embedded <=> Unchanged(env, n))
        BY <1>8, Zenon DEF Indexed
      <4>3. n \notin DOMAIN ns => LastOf(ns, env, n)
        BY <1>8, Zenon DEF Indexed
      <4>4. ASSUME n \in DOMAIN ns,
                   NEW s \in DOMAIN loaded, Defines(s, env, n),
                   \A i \in DOMAIN loaded :
                     Defines(i, env, n) /\ i > s => loaded[i].defs[n] = loaded[s].defs[n]
            PROVE  ns[n].body = loaded[s].defs[n]
        BY <4>2, <4>4, <1>3 DEF LastOf, DefinesLast
      <4>5. n \in DOMAIN ns =>
              (Unchanged(env, n)' <=> ns[n].embedded /\ ns[n].body = file.defs[n])
        BY <4>1, <4>2, <4>4, Zenon DEF Unchanged
      <4>6. n \notin DOMAIN ns => ~Unchanged(env, n)'
        BY <4>1, <4>3, Zenon DEF LastOf
      <4> QED
        BY <3>2, <3>4, <4>5, <4>6, <2>2, Zenon DEF EmbeddedFlag
    <3> QED
      BY <3>3, <3>4, Zenon
  <2>4. ASSUME NEW n \in Names, n \notin DOMAIN file.defs
        PROVE  /\ LastOf(envs[env], env, n)'
               /\ n \in DOMAIN new => (new[n].embedded <=> Unchanged(env, n)')
    <3>1. LastOf(ns, env, n) /\ (n \in DOMAIN ns => (ns[n].embedded <=> Unchanged(env, n)))
      BY <1>8, Zenon DEF Indexed
    <3>2. LastOf(envs[env], env, n)'
      <4>1. PICK ms : ms = ns
        BY Zenon
      <4>2. LastOf(ms, env, n)'
        BY <3>1, <4>1, <2>1, <2>4, <1>7, <1>0, Zenon
      <4>3. (n \in DOMAIN envs'[env] <=> n \in DOMAIN ms) /\ (n \in DOMAIN ms => envs'[env][n] = ms[n])
        BY <4>1, <2>1, <2>2, <2>4, Zenon
      <4> QED
        BY <4>2, <4>3, Zenon DEF LastOf
    <3>3. Unchanged(env, n) <=> Unchanged(env, n)'
      BY <2>1, <2>4, <1>3, <1>6, <1>7 DEF Unchanged
    <3> QED
      BY <3>1, <3>2, <3>3, <2>2, <2>4, Zenon
  <2>5. DOMAIN ns \subseteq Names
    BY <1>8, Zenon DEF Indexed
  <2> QED
    BY <2>1, <2>2, <2>3, <2>4, <2>5, Zenon DEF Indexed
<1>11. \A i \in DOMAIN loaded' : loaded'[i].env \in DOMAIN envs'
  BY <1>2, <1>3, <1>4, <1>5
<1>12. \A e \in DOMAIN envs' \ {Default} : \E i \in DOMAIN loaded' : loaded'[i].env = e
  <2>1. K \in DOMAIN loaded' /\ loaded'[K].env = env
    BY <1>3, <1>4
  <2>2. DOMAIN loaded \subseteq DOMAIN loaded'
    BY <1>3
  <2> QED
    BY <2>1, <2>2, <1>2, <1>3, <1>5, Zenon
<1> QED
  BY <1>3, <1>5, <1>9, <1>10, <1>11, <1>12, Zenon

\* A step of one of the walks.
LEMMA WalkAdds ==
  ASSUME IndexInv,
         NEW env, NEW file, NEW embedded \in BOOLEAN,
         IsFile(file), Record(env, file, embedded, phase) \in Records(dir),
         phase # "overrides" => env = Default /\ DOMAIN envs = {Default},
         addTemplateContent(env, file, embedded)
  PROVE  IndexInv'
<1>1. CASE file.parses
  <2>1. UNCHANGED <<dir, phase>>
    BY <1>1, Zenon DEF addTemplateContent
  <2>2. DOMAIN file.defs \subseteq Names
    BY Zenon DEF IsFile
  <2>3. /\ \A e \in DOMAIN envs' : Indexed(envs[e], e)'
        /\ loaded' \in Seq(Records(dir))
        /\ DOMAIN envs' = DOMAIN envs \cup {env}
        /\ \A i \in DOMAIN loaded' : loaded'[i].env \in DOMAIN envs'
        /\ \A e \in DOMAIN envs' \ {Default} : \E i \in DOMAIN loaded' : loaded'[i].env = e
    BY <1>1, <2>2, AddedIndexed, Zenon
  <2>4. \A e \in DOMAIN envs' : DOMAIN envs'[e] \subseteq Names
    BY <2>3, Zenon DEF Indexed
  <2>5. Layered'
    BY <2>1, <2>3, <2>4 DEF IndexInv, Layered, Records
  <2>6. (LaterLayerWins /\ ShippedMeansUnchanged)'
    <3>1. AllIndexed'
      BY <2>3, Zenon DEF AllIndexed
    <3> QED
      BY <3>1, <2>5, IndexedMeans, PTL
  <2> QED
    BY <2>5, <2>6, Zenon DEF IndexInv
<1>2. CASE ~file.parses
  <2>1. phase' = "failed" /\ UNCHANGED <<dir, envs, loaded>>
    BY <1>2, Zenon DEF addTemplateContent
  <2> QED
    BY <2>1 DEF IndexInv, Layered, LaterLayerWins, ShippedMeansUnchanged, Defines,
           Inherits, DefinesLast, FillsLast
<1> QED
  BY <1>1, <1>2, Zenon

LEMMA IndexStep == ASSUME IndexInv, ParseTemplates PROVE IndexInv'
<1>1. /\ dir \in DataDirs
      /\ \A i \in DOMAIN dir.embedded : IsFile(dir.embedded[i])
      /\ \A i \in DOMAIN dir.disk : IsFile(dir.disk[i])
      /\ \A i \in DOMAIN dir.overrides :
           IsFile(dir.overrides[i].file)
  BY TemplateConstants, Zenon DEF IndexInv, Layered
<1>2. CASE ParseEmbedded
  <2>1. /\ phase = "embedded" /\ next \in DOMAIN dir.embedded
        /\ addTemplateContent(Default, dir.embedded[next], TRUE)
    BY <1>2, Zenon DEF ParseEmbedded
  <2>2. PICK file : file = dir.embedded[next]
    BY Zenon
  <2>3. /\ IsFile(file) /\ Record(Default, file, TRUE, phase) \in Records(dir)
        /\ DOMAIN envs = {Default}
        /\ addTemplateContent(Default, file, TRUE)
    BY <1>1, <2>1, <2>2, Zenon DEF Records, IndexInv, Layered
  <2> QED
    BY <2>3, WalkAdds, Zenon
<1>3. CASE ParseDisk
  <2>1. /\ phase = "disk" /\ next \in DOMAIN dir.disk
        /\ addTemplateContent(Default, dir.disk[next], FALSE)
    BY <1>3, Zenon DEF ParseDisk
  <2>2. PICK file : file = dir.disk[next]
    BY Zenon
  <2>3. /\ IsFile(file) /\ Record(Default, file, FALSE, phase) \in Records(dir)
        /\ DOMAIN envs = {Default}
        /\ addTemplateContent(Default, file, FALSE)
    BY <1>1, <2>1, <2>2, Zenon DEF Records, IndexInv, Layered
  <2> QED
    BY <2>3, WalkAdds, Zenon
<1>4. CASE ParseOverride
  <2>1. /\ phase = "overrides" /\ next \in DOMAIN dir.overrides
        /\ addTemplateContent(dir.overrides[next].env, dir.overrides[next].file, FALSE)
    BY <1>4, Zenon DEF ParseOverride
  <2>2. PICK env : env = dir.overrides[next].env
    BY Zenon
  <2>3. PICK file : file = dir.overrides[next].file
    BY Zenon
  <2>4. /\ IsFile(file) /\ Record(env, file, FALSE, phase) \in Records(dir)
        /\ addTemplateContent(env, file, FALSE)
    BY <1>1, <2>1, <2>2, <2>3, ZenonT(30) DEF Records
  <2> QED
    BY <2>1, <2>4, WalkAdds, Zenon
<1>5. CASE WalkEnds
  <2>1. /\ phase' = NextWalk /\ phase \in {"embedded", "disk", "overrides"}
        /\ UNCHANGED <<dir, envs, loaded>>
    BY <1>5, Zenon DEF WalkEnds
  <2>2. /\ phase' \in {"disk", "overrides", "serving"}
        /\ phase' = "disk" => phase = "embedded"
    BY <2>1, Zenon DEF NextWalk
  <2> QED
    BY <2>1, <2>2 DEF IndexInv, Layered, LaterLayerWins, ShippedMeansUnchanged, Defines,
           Inherits, DefinesLast, FillsLast
<1> QED
  BY <1>2, <1>3, <1>4, <1>5, Zenon DEF ParseTemplates

\* Nothing but the walks of ParseTemplates changes the index.
LEMMA LoadedOnce == ASSUME [Next]_vars PROVE ParseTemplates \/ UNCHANGED templateVars
BY Zenon DEF Next, Load, Request, RenderScript, RefuseRequest, RefuseTemplateSource, ServeTemplate,
       StartStatic, OpenForStatus, OpenToServe, ListingFails, Answered, Edit, Failed, vars

\* The index is at every moment what the files read so far make of it.
THEOREM IndexInvariance == Spec => []IndexInv
<1>1. IndexInv /\ [Next]_vars => IndexInv'
  <2> SUFFICES ASSUME IndexInv, [Next]_vars PROVE IndexInv'
    BY Zenon
  <2>1. CASE ParseTemplates
    BY <2>1, IndexStep, Zenon
  <2>2. CASE UNCHANGED templateVars
    BY <2>2 DEF templateVars, IndexInv, Layered, LaterLayerWins, ShippedMeansUnchanged, Defines,
           Inherits, DefinesLast, FillsLast
  <2> QED
    BY <2>1, <2>2, LoadedOnce, Zenon
<1> QED
  BY <1>1, IndexInit, PTL DEF Spec

\* "the later definition wins" (docs/provisioning-overrides.md), for any files in
\* the three layers, env_overrides/default/ among them: what is indexed is the
\* last definition of a template, and what is executed the last one that is not
\* empty (addTemplateContent, AddParseTree).
THEOREM LastDefinitionWins == Spec => []LaterLayerWins
BY IndexInvariance, PTL DEF IndexInv

\* The flag that keeps an encrypted host from a shipped template without
\* encryption is set exactly while no file changed that template.
THEOREM ShippedFlagExact == Spec => []ShippedMeansUnchanged
BY IndexInvariance, PTL DEF IndexInv

-----------------------------------------------------------------------------
(* Static files *)

\* The requests, with the environment of a session.
Asking == Requests \cup {[q EXCEPT !.env = r] : q \in Requests, r \in RefEnvs}

Job ==
  [request : Asking, stage : {"all", "env", "base", "shipped"}, mode : {"status", "serve"},
   todo : Seq(Layer), dirs : SUBSET Layer, file : Layer \cup {None}]

Overridden(env) == env # NoName /\ HasTemplateOverride(StaticName, env)
SomeDir == \E l \in Layer : "dir" \in seen[l]

\* What the lookups so far have shown: the job's stage stands for them.
Found(j) ==
  LET env == j.request.env
  IN  /\ j.todo # <<>>
      /\ j.stage = "all" /\ j.mode = "serve" => SomeDir
      /\ j.stage # "all" => j.todo = <<j.stage>> /\ j.file = None
      /\ j.stage \in {"base", "shipped"} =>
           (env # NoName => "missing" \in seen["env"]) /\ ~Overridden(env)
      /\ j.stage = "shipped" => "missing" \in seen["base"] /\ ~HasTemplate(StaticName, NoName)

StaticInv ==
  /\ job # None \/ answer # None => phase = "serving"
  /\ job # None => answer = None
  /\ DOMAIN disk = Layer /\ DOMAIN seen = Layer
  /\ job # None => \A l \in Layer : disk[l] \in seen[l]
  /\ job # None => job \in Job /\ Found(job)
  /\ StaticPrecedence

LEMMA LayersTyped ==
  \A env : /\ AllLayers(env) \in Seq(Layer) /\ AllLayers(env) # <<>>
           /\ env # NoName => EnvLayers(env) = <<"env">>
           /\ EnvLayers(env) = <<>> => env = NoName
<1> TAKE env
<1>1. <<"env">> # <<>> /\ <<"env">> \in Seq(Layer) /\ <<>> \in Seq(Layer)
  <2>1. Len(<<"env">>) # Len(<<>>)
    OBVIOUS
  <2>2. <<"env">> # <<>>
    BY <2>1, Zenon
  <2>3. <<"env">> \in Seq(Layer)
    BY DEF Layer
  <2>4. <<>> \in Seq(Layer)
    OBVIOUS
  <2> QED BY <2>2, <2>3, <2>4, Zenon
<1>2. <<"base", "shipped">> \in Seq(Layer) /\ Len(<<"base", "shipped">>) = 2
  BY DEF Layer
<1>3. EnvLayers(env) \in Seq(Layer)
  BY <1>1, Zenon DEF EnvLayers
<1>4. AllLayers(env) \in Seq(Layer) /\ Len(AllLayers(env)) > 0
  BY <1>2, <1>3 DEF AllLayers
<1>5. env # NoName => EnvLayers(env) = <<"env">>
  BY Zenon DEF EnvLayers
<1>6. EnvLayers(env) = <<>> => env = NoName
  BY <1>1, <1>5, Zenon
<1> QED BY <1>4, <1>5, <1>6

\* The lookups do not see the index change.
LEMMA TemplatesStay ==
  ASSUME UNCHANGED templateVars
  PROVE  /\ HasTemplate(StaticName, NoName)' <=> HasTemplate(StaticName, NoName)
         /\ \A env : Overridden(env)' <=> Overridden(env)
         /\ \A env : HasTemplateOverride(StaticName, env)' <=> HasTemplateOverride(StaticName, env)
BY Zenon DEF templateVars, Overridden, HasTemplateOverride, HasTemplate, Index, EnvOf

LEMMA StaticInit == Init => StaticInv
BY Zenon DEF Init, StaticInv, NoDisk, NothingSeen, StaticPrecedence, Served

\* An answer that no lookup of a layer has to justify.
LEMMA PlainAnswer ==
  ASSUME StaticInv, UNCHANGED templateVars, phase = "serving", job' = None,
         DOMAIN disk' = Layer, DOMAIN seen' = Layer,
         answer' = None \/ ~answer'.static \/ answer'.source \in {"index", "none", "error"}
  PROVE  StaticInv'
BY Zenon DEF StaticInv, StaticPrecedence, Served, Layer, templateVars

\* The next lookup of a request.
LEMMA NextLookup ==
  ASSUME StaticInv, UNCHANGED <<templateVars, disk, seen, answer>>, job # None,
         job' \in Job, Found(job')
  PROVE  StaticInv'
<1>1. Found(job)'
  BY TemplatesStay, Zenon DEF Found, SomeDir
<1>2. StaticPrecedence'
  BY TemplatesStay, Zenon DEF StaticInv, StaticPrecedence, Served
<1> QED BY <1>1, <1>2, Zenon DEF StaticInv, templateVars

\* What an answer at the end of the lookups owes to them.
Owed(source, env) ==
  /\ source \in {"template", "base", "shipped"} /\ env # NoName => "missing" \in seen["env"]
  /\ source \in {"base", "shipped"} => ~Overridden(env)
  /\ source = "template" /\ ~Overridden(env) => "missing" \in seen["base"]
  /\ source = "shipped" => "missing" \in seen["base"] /\ ~HasTemplate(StaticName, NoName)
  /\ source \in Layer => "file" \in seen[source]

LEMMA LastLookup ==
  ASSUME StaticInv, UNCHANGED <<templateVars, disk, seen>>, job # None,
         NEW source, NEW result, Done(source, result),
         SomeDir \/ Owed(source, job.request.env)
  PROVE  StaticInv'
<1>1. /\ job' = None /\ answer'.source = source /\ answer'.request = job.request
  BY Zenon DEF Done
<1>2. StaticPrecedence'
  BY <1>1, TemplatesStay, Zenon DEF StaticPrecedence, Served, Owed, SomeDir, Overridden
<1> QED BY <1>1, <1>2, Zenon DEF StaticInv, templateVars

\* A job's question asked of other layers.
LEMMA AskTyped ==
  ASSUME job \in Job, NEW stage \in {"all", "env", "base", "shipped"},
         NEW mode \in {"status", "serve"}, NEW layers \in Seq(Layer)
  PROVE  LET j == Ask(job, stage, mode, layers)
         IN  /\ j \in Job /\ j.request = job.request /\ j.stage = stage
             /\ j.mode = mode /\ j.todo = layers /\ j.file = None
BY ZenonT(30) DEF Ask, Job

LEMMA Single ==
  \A l \in Layer : <<l>> \in Seq(Layer) /\ <<l>> # <<>> /\ Head(<<l>>) = l /\ Len(<<l>>) = 1
<1> TAKE l \in Layer
<1>1. <<l>> \in Seq(Layer) /\ Len(<<l>>) = 1 /\ Head(<<l>>) = l
  OBVIOUS
<1>2. Len(<<>>) = 0
  BY Zenon
<1> QED BY <1>1, <1>2, Zenon

\* A request moves on to a stage of its own, or to all layers of a directory.
LEMMA Asked ==
  ASSUME StaticInv, UNCHANGED <<templateVars, disk, seen>>, job # None,
         NEW stage \in {"all", "env", "base", "shipped"}, NEW mode \in {"status", "serve"},
         NEW layers \in Seq(Layer), layers # <<>>,
         Continue(Ask(job, stage, mode, layers)),
         stage = "all" => SomeDir,
         stage # "all" => layers = <<stage>>,
         stage \in {"base", "shipped"} =>
           /\ job.request.env # NoName => "missing" \in seen["env"]
           /\ ~Overridden(job.request.env),
         stage = "shipped" => "missing" \in seen["base"] /\ ~HasTemplate(StaticName, NoName)
  PROVE  StaticInv'
<1> DEFINE j == Ask(job, stage, mode, layers)
<1>1. /\ j \in Job /\ j.request = job.request /\ j.stage = stage
      /\ j.mode = mode /\ j.todo = layers /\ j.file = None
  BY AskTyped DEF StaticInv
<1>2. job' = j /\ UNCHANGED answer
  BY Zenon DEF Continue
<1> HIDE DEF j
<1>3. Found(j)
  BY <1>1, Zenon DEF Found
<1> QED BY <1>1, <1>2, <1>3, NextLookup, Zenon

LEMMA AfterEnvStep ==
  ASSUME StaticInv, UNCHANGED <<templateVars, disk, seen>>, job # None, AfterEnv,
         job.request.env # NoName => "missing" \in seen["env"]
  PROVE  StaticInv'
<1>1. CASE Overridden(job.request.env)
  <2>1. Done("template", RenderTemplate(job.request))
    BY <1>1, Zenon DEF AfterEnv, Overridden
  <2>2. Owed("template", job.request.env)
    BY <1>1, Zenon DEF Owed, Layer
  <2> QED BY <2>1, <2>2, LastLookup, Zenon
<1>2. CASE ~Overridden(job.request.env)
  <2>1. Continue(Ask(job, "base", "status", <<"base">>))
    BY <1>2, Zenon DEF AfterEnv, Overridden
  <2>2. <<"base">> \in Seq(Layer) /\ <<"base">> # <<>>
    BY Single, Zenon DEF Layer
  <2> QED BY <1>2, <2>1, <2>2, Asked, Zenon
<1> QED BY <1>1, <1>2, Zenon

LEMMA AfterBaseStep ==
  ASSUME StaticInv, UNCHANGED <<templateVars, disk, seen>>, job # None, AfterBase,
         job.request.env # NoName => "missing" \in seen["env"],
         ~Overridden(job.request.env), "missing" \in seen["base"]
  PROVE  StaticInv'
<1>1. CASE HasTemplate(StaticName, NoName)
  <2>1. Done("template", RenderTemplate(job.request))
    BY <1>1, Zenon DEF AfterBase
  <2>2. Owed("template", job.request.env)
    BY Zenon DEF Owed, Layer
  <2> QED BY <2>1, <2>2, LastLookup, Zenon
<1>2. CASE ~HasTemplate(StaticName, NoName)
  <2>1. Continue(Ask(job, "shipped", "status", <<"shipped">>))
    BY <1>2, Zenon DEF AfterBase
  <2>2. <<"shipped">> \in Seq(Layer) /\ <<"shipped">> # <<>>
    BY Single, Zenon DEF Layer
  <2> QED BY <1>2, <2>1, <2>2, Asked, Zenon
<1> QED BY <1>1, <1>2, Zenon

LEMMA TailLeft ==
  ASSUME NEW s \in Seq(Layer), Len(s) > 1
  PROVE  Tail(s) \in Seq(Layer) /\ Tail(s) # <<>>
<1>1. Tail(s) \in Seq(Layer) /\ DOMAIN Tail(s) = 1 .. Len(s) - 1
  OBVIOUS
<1>2. 1 \in DOMAIN Tail(s)
  BY <1>1
<1>3. 1 \notin DOMAIN <<>>
  OBVIOUS
<1> QED BY <1>1, <1>2, <1>3, Zenon

LEMMA StatusStep ==
  ASSUME StaticInv, OpenForStatus
  PROVE  StaticInv'
<1> DEFINE content == disk[Head(job.todo)]
<1>1. /\ job # None /\ UNCHANGED <<templateVars, disk, seen>> /\ job \in Job /\ Found(job)
      /\ job.mode = "status" /\ \A l \in Layer : disk[l] \in seen[l]
  BY Zenon DEF OpenForStatus, StaticInv
<1>2. Head(job.todo) \in Layer /\ job.todo \in Seq(Layer) /\ job.todo # <<>>
  BY <1>1 DEF Found, Job
<1>3. content \in seen[Head(job.todo)]
  BY <1>1, <1>2, Zenon
<1>4. CASE content = "missing" /\ Len(job.todo) > 1
  <2> DEFINE j == [job EXCEPT !.todo = Tail(@)]
  <2>1. Continue(j)
    BY <1>4, Zenon DEF OpenForStatus
  <2>2. job.stage = "all"
    <3> SUFFICES ASSUME job.stage # "all" PROVE FALSE
      BY Zenon
    <3>1. job.todo = <<job.stage>> /\ job.stage \in Layer
      BY <1>1, Zenon DEF Found, Job, Layer
    <3> QED BY <1>4, <3>1, Single
  <2>3. Tail(job.todo) \in Seq(Layer) /\ Tail(job.todo) # <<>>
    <3>1. Len(job.todo) > 1
      BY <1>4, Zenon
    <3> QED BY <1>2, <3>1, TailLeft, Zenon
  <2>4. /\ j \in Job /\ j.todo = Tail(job.todo) /\ j.stage = "all" /\ j.mode = "status"
    BY <1>1, <2>2, <2>3, Zenon DEF Job
  <2>5. Found(j)
    BY <2>3, <2>4, Zenon DEF Found
  <2> QED BY <1>1, <2>1, <2>4, <2>5, NextLookup, Zenon DEF Continue
<1>5. CASE ~(content = "missing" /\ Len(job.todo) > 1)
  <2>1. StatusKnown(content)
    BY <1>5, Zenon DEF OpenForStatus
  <2> HIDE DEF content
  <2>2. CASE content = "error"
    <3>1. Done("error", "error")
      BY <2>1, <2>2, Zenon DEF StatusKnown
    <3>2. Owed("error", job.request.env)
      BY Zenon DEF Owed, Layer
    <3> QED BY <1>1, <3>1, <3>2, LastLookup, Zenon
  <2>3. CASE content # "error" /\ job.stage = "all"
    <3>1. CASE content = "dir"
      <4>1. Continue(Ask(job, "all", "serve", AllLayers(job.request.env)))
        BY <2>1, <2>3, <3>1, Zenon DEF StatusKnown, Serve
      <4>2. SomeDir
        BY <1>2, <1>3, <3>1, Zenon DEF SomeDir
      <4> QED BY <1>1, <4>1, <4>2, LayersTyped, Asked, Zenon
    <3>2. CASE content # "dir" /\ EnvLayers(job.request.env) = <<>>
      <4>1. AfterEnv
        BY <2>1, <2>3, <3>2, Zenon DEF StatusKnown
      <4> QED BY <1>1, <3>2, <4>1, LayersTyped, AfterEnvStep, Zenon
    <3>3. CASE content # "dir" /\ EnvLayers(job.request.env) # <<>>
      <4>1. Continue(Ask(job, "env", "status", EnvLayers(job.request.env)))
        BY <2>1, <2>3, <3>3, Zenon DEF StatusKnown
      <4>2. EnvLayers(job.request.env) = <<"env">>
        BY <3>3, Zenon DEF EnvLayers
      <4>3. <<"env">> \in Seq(Layer) /\ <<"env">> # <<>>
        BY Single, Zenon DEF Layer
      <4> QED BY <1>1, <4>1, <4>2, <4>3, Asked, Zenon
    <3> QED BY <3>1, <3>2, <3>3, Zenon
  <2>4. CASE content # "error" /\ job.stage # "all"
    <3>1. /\ job.todo = <<job.stage>> /\ job.stage \in Layer
          /\ content \in seen[job.stage]
      BY <1>1, <1>3, <2>4, Single, Zenon DEF Found, Job, Layer
    <3>2. CASE content # "missing"
      <4>1. Continue(Ask(job, job.stage, "serve", <<job.stage>>))
        BY <2>1, <2>4, <3>2, Zenon DEF StatusKnown, Serve
      <4>2. /\ job.stage \in {"all", "env", "base", "shipped"}
            /\ <<job.stage>> \in Seq(Layer) /\ <<job.stage>> # <<>>
        BY <3>1, Single, Zenon DEF Layer
      <4>3. /\ job.stage \in {"base", "shipped"} =>
                 /\ job.request.env # NoName => "missing" \in seen["env"]
                 /\ ~Overridden(job.request.env)
            /\ job.stage = "shipped" => "missing" \in seen["base"] /\ ~HasTemplate(StaticName, NoName)
        BY <1>1, Zenon DEF Found
      <4> QED BY <1>1, <2>4, <4>1, <4>2, <4>3, Asked, Zenon
    <3>3. CASE content = "missing" /\ job.stage = "env"
      <4>1. AfterEnv
        BY <2>1, <3>3, Zenon DEF StatusKnown
      <4> QED BY <1>1, <3>1, <3>3, <4>1, AfterEnvStep, Zenon
    <3>4. CASE content = "missing" /\ job.stage = "base"
      <4>1. AfterBase
        BY <2>1, <3>4, Zenon DEF StatusKnown
      <4> QED BY <1>1, <3>1, <3>4, <4>1, AfterBaseStep, Zenon DEF Found
    <3>5. CASE content = "missing" /\ job.stage = "shipped"
      <4>1. Done("none", "not found")
        BY <2>1, <3>5, Zenon DEF StatusKnown
      <4>2. Owed("none", job.request.env)
        BY Zenon DEF Owed, Layer
      <4> QED BY <1>1, <4>1, <4>2, LastLookup, Zenon
    <3> QED BY <3>1, <3>2, <3>3, <3>4, <3>5, Zenon DEF Layer
  <2> QED BY <2>2, <2>3, <2>4, Zenon
<1> QED BY <1>4, <1>5, Zenon

LEMMA ServeStep ==
  ASSUME StaticInv, OpenToServe
  PROVE  StaticInv'
<1> DEFINE content == disk[Head(job.todo)]
           j == Opened(content)
<1>1. /\ job # None /\ UNCHANGED <<templateVars, disk, seen>> /\ job \in Job /\ Found(job)
      /\ job.mode = "serve" /\ \A l \in Layer : disk[l] \in seen[l]
  BY Zenon DEF OpenToServe, StaticInv
<1>2. Head(job.todo) \in Layer /\ job.todo \in Seq(Layer) /\ job.todo # <<>>
  BY <1>1 DEF Found, Job
<1>3. /\ j \in Job /\ j.todo = Tail(job.todo) /\ j.request = job.request
      /\ j.stage = job.stage /\ j.mode = "serve"
  <2>1. Tail(job.todo) \in Seq(Layer)
    BY <1>2
  <2>2. job.dirs \cup {l \in {Head(job.todo)} : content = "dir"} \in SUBSET Layer
    BY <1>1, <1>2, Zenon DEF Job
  <2>3. (IF content = "file" /\ job.file = None THEN Head(job.todo) ELSE job.file) \in Layer \cup {None}
    BY <1>1, <1>2, Zenon DEF Job
  <2> HIDE DEF content
  <2> QED BY <1>1, <2>1, <2>2, <2>3, Zenon DEF Opened, Job
<1>4. job.stage = "all" => SomeDir
  BY <1>1, Zenon DEF Found
<1>5. job.stage # "all" => /\ job.todo = <<job.stage>> /\ job.stage \in Layer
                           /\ job.file = None /\ Head(job.todo) = job.stage
  BY <1>1, Single, Zenon DEF Found, Job, Layer
<1>6. j.file = IF content = "file" /\ job.file = None THEN Head(job.todo) ELSE job.file
  BY <1>1, Zenon DEF Opened, Job
<1>7. IF content = "error" THEN Done("error", "error")
      ELSE IF j.todo # <<>> THEN Continue(j)
      ELSE IF j.dirs # {} THEN Done("index", j.dirs)
      ELSE IF j.file # None THEN Done(j.file, "file")
      ELSE Done("none", "not found")
  BY Zenon DEF OpenToServe
<1>8. content \in seen[Head(job.todo)]
  BY <1>1, <1>2, Zenon
<1> HIDE DEF j, content
<1>9. \A source \in {"error", "index", "none"} : Owed(source, job.request.env)
  BY Zenon DEF Owed, Layer
<1>10. CASE Continue(j) /\ j.todo # <<>>
  <2>1. job.stage = "all"
    <3> SUFFICES ASSUME job.stage # "all" PROVE FALSE
      BY Zenon
    <3>1. j.todo = Tail(<<job.stage>>)
      BY <1>3, <1>5, Zenon
    <3>2. Tail(<<job.stage>>) = <<>>
      OBVIOUS
    <3> QED BY <1>10, <3>1, <3>2, Zenon
  <2>2. Found(j)
    BY <1>3, <1>4, <1>10, <2>1, Zenon DEF Found
  <2> QED BY <1>1, <1>3, <1>10, <2>2, NextLookup, Zenon DEF Continue
<1>11. CASE Done(j.file, "file") /\ j.file # None
  <2>1. CASE job.stage = "all"
    BY <1>1, <1>4, <1>11, <2>1, LastLookup, Zenon
  <2>2. CASE job.stage # "all"
    <3>1. j.file = job.stage /\ "file" \in seen[job.stage] /\ job.stage \in Layer
      BY <1>5, <1>6, <1>8, <1>11, <2>2, Zenon
    <3>2. Owed(job.stage, job.request.env)
      BY <1>1, <3>1, Zenon DEF Owed, Found, Layer
    <3> QED BY <1>1, <1>11, <3>1, <3>2, LastLookup, Zenon
  <2> QED BY <2>1, <2>2, Zenon
<1>12. CASE Done("error", "error") \/ Done("index", j.dirs) \/ Done("none", "not found")
  BY <1>1, <1>9, <1>12, LastLookup, ZenonT(30)
<1> QED BY <1>7, <1>10, <1>11, <1>12, Zenon

LEMMA StartStep ==
  ASSUME StaticInv, Ready,
         NEW q \in Requests, NEW ref \in Refs, NEW found \in [Layer -> Contents],
         StartStatic(q, ref, found)
  PROVE  StaticInv'
<1> DEFINE r == Resolved(q, ref)
<1>1. r \in Asking
  BY SMTT(30) DEF Resolved, Asking
<1>2. /\ job' = [request |-> r, stage |-> "all", mode |-> "status",
                 todo |-> AllLayers(r.env), dirs |-> {}, file |-> None]
      /\ disk' = found /\ seen' = [l \in Layer |-> {found[l]}]
      /\ UNCHANGED <<templateVars, answer>>
  BY Zenon DEF StartStatic
<1> HIDE DEF r
<1>3. job' \in Job
  BY <1>1, <1>2, LayersTyped, Zenon DEF Job
<1>4. /\ job'.stage = "all" /\ job'.mode = "status" /\ job'.todo # <<>>
  BY <1>2, LayersTyped, Zenon
<1>5. Found(job)'
  BY <1>4, Zenon DEF Found
<1>6. answer' = None /\ phase' = "serving"
  BY <1>2, Zenon DEF Ready, templateVars
<1>7. DOMAIN disk' = Layer /\ DOMAIN seen' = Layer /\ \A l \in Layer : disk'[l] \in seen'[l]
  BY <1>2, Zenon
<1> QED BY <1>3, <1>5, <1>6, <1>7, Zenon DEF StaticInv, StaticPrecedence, Served

LEMMA StaticStep == StaticInv /\ [Next]_vars => StaticInv'
<1> SUFFICES ASSUME StaticInv, [Next]_vars PROVE StaticInv'
  BY Zenon
<1>1. CASE UNCHANGED vars
  <2>1. UNCHANGED <<templateVars, disk, seen, job, answer>>
    BY <1>1, Zenon DEF vars, staticVars
  <2>2. Found(job)' <=> Found(job)
    BY <2>1, TemplatesStay, Zenon DEF Found, SomeDir
  <2>3. StaticPrecedence'
    BY <2>1, TemplatesStay, Zenon DEF StaticInv, StaticPrecedence, Served
  <2> QED BY <2>1, <2>2, <2>3, Zenon DEF StaticInv, templateVars
<1>2. CASE Load
  <2>1. job' = None /\ answer' = None /\ UNCHANGED <<disk, seen>>
    BY <1>2, Zenon DEF Load, ParseTemplates, ParseEmbedded, ParseDisk, ParseOverride, WalkEnds,
      StaticInv, staticVars
  <2> QED BY <2>1, Zenon DEF StaticInv, StaticPrecedence, Served
<1>3. CASE Request
  <2>1. Ready
    BY <1>3, Zenon DEF Request
  <2>2. ASSUME NEW q, Reply(q), UNCHANGED <<templateVars, disk, edits, job, seen>>
        PROVE  StaticInv'
    <3>1. ~answer'.static /\ job' = None /\ phase = "serving"
      BY <2>1, <2>2, Zenon DEF Reply, Ready
    <3> QED BY <2>2, <3>1, PlainAnswer, Zenon DEF StaticInv
  <2>3. CASE \E q \in Requests : RenderScript(q)
    BY <2>2, <2>3, Zenon DEF RenderScript
  <2>4. CASE \E q \in Requests, ref \in Refs : ServeTemplate(q, ref)
    BY <2>2, <2>4, Zenon DEF ServeTemplate
  <2>5. CASE \E q \in {r \in Requests : r.name = StaticName}, ref \in Refs, found \in [Layer -> Contents] :
               StartStatic(q, ref, found)
    BY <2>1, <2>5, StartStep, Zenon
  <2>6. CASE UNCHANGED vars
    BY <1>1, <2>6, Zenon
  <2> QED BY <1>3, <2>3, <2>4, <2>5, <2>6, Zenon DEF Request, RefuseRequest, RefuseTemplateSource
<1>4. CASE OpenForStatus
  BY <1>4, StatusStep, Zenon
<1>5. CASE OpenToServe
  BY <1>5, ServeStep, Zenon
<1>6. CASE ListingFails
  <2>1. /\ UNCHANGED templateVars /\ phase = "serving" /\ job' = None
        /\ DOMAIN disk' = Layer /\ DOMAIN seen' = Layer /\ answer'.source = "error"
    BY <1>6, Zenon DEF ListingFails, Done, StaticInv
  <2> QED BY <2>1, PlainAnswer, Zenon
<1>7. CASE Answered
  <2>1. /\ UNCHANGED templateVars /\ answer' = None /\ job' = None
        /\ DOMAIN disk' = Layer /\ DOMAIN seen' = Layer /\ phase = "serving"
    BY <1>7, Zenon DEF Answered, StaticInv, NoDisk, NothingSeen
  <2> QED BY <2>1, PlainAnswer, Zenon
<1>8. ASSUME NEW l \in Layer, NEW content \in Contents, Edit(l, content)
      PROVE  StaticInv'
  <2>1. /\ UNCHANGED <<templateVars, job, answer>> /\ phase = "serving" /\ job # None
        /\ disk' = [disk EXCEPT ![l] = content]
        /\ seen' = [seen EXCEPT ![l] = @ \cup {content}]
    BY <1>8, Zenon DEF Edit
  <2>2. \A k \in Layer : seen[k] \subseteq seen'[k] /\ disk'[k] \in seen'[k]
    BY <2>1, Zenon DEF StaticInv
  <2>3. Found(job)'
    <3>1. Found(job)
      BY <2>1, Zenon DEF StaticInv
    <3> QED BY <2>1, <2>2, <3>1, TemplatesStay, Zenon DEF Found, SomeDir, Layer
  <2>4. StaticPrecedence'
    BY <2>1, <2>2, TemplatesStay, Zenon DEF StaticInv, StaticPrecedence, Served, Layer
  <2> QED BY <2>1, <2>2, <2>3, <2>4, Zenon DEF StaticInv, templateVars
<1>9. CASE Failed
  BY <1>1, <1>9, Zenon DEF Failed
<1> QED BY <1>1, <1>2, <1>3, <1>4, <1>5, <1>6, <1>7, <1>8, <1>9, Zenon DEF Next

\* The inductive invariant of StaticConfigFileHandler's lookups.
THEOREM StaticInvariance == Spec => []StaticInv
BY StaticInit, StaticStep, PTL DEF Spec

\* StaticConfigFileHandler never skips a layer that was there during the whole
\* request, however many edits of the directories come between its lookups.
THEOREM NoLayerSkipped == Spec => []StaticPrecedence
BY StaticInvariance, PTL DEF StaticInv

-----------------------------------------------------------------------------
(* Types *)

Flagged ==
  \A e \in DOMAIN envs : \A n \in DOMAIN envs[e] : DOMAIN envs[e][n] = {"tree", "body", "embedded"}

Sources == Layer \cup {"template", "index", "none", "error"}

Ranges ==
  /\ disk \in [Layer -> Contents] /\ edits \in 0 .. MaxEdits
  /\ seen \in [Layer -> SUBSET (Contents \cup {"error"})]
  /\ answer # None => answer.source \in Sources

LEMMA FlaggedStep ==
  ASSUME IndexInv, Flagged, [Next]_vars
  PROVE  Flagged'
<1>1. ASSUME NEW env, NEW file, NEW embedded, addTemplateContent(env, file, embedded)
      PROVE  Flagged'
  <2>1. CASE file.parses
    <3>1. PICK ns : ns = checkAddEnvironment(env)
      BY Zenon
    <3>2. PICK new : new = Added(ns, file.defs, embedded)
      BY Zenon
    <3>3. envs' = [e \in DOMAIN envs \cup {env} |-> IF e = env THEN new ELSE envs[e]]
      BY <1>1, <2>1, <3>1, <3>2, Zenon DEF addTemplateContent
    <3>4. \A n \in DOMAIN ns : DOMAIN ns[n] = {"tree", "body", "embedded"}
      BY <3>1, Zenon DEF checkAddEnvironment, Flagged, IndexInv, Layered
    <3>5. ASSUME NEW n \in DOMAIN new PROVE DOMAIN new[n] = {"tree", "body", "embedded"}
      BY <3>2, <3>4, <3>5, Zenon DEF Added
    <3> QED BY <3>3, <3>5, Zenon DEF Flagged
  <2>2. CASE ~file.parses
    BY <1>1, <2>2, Zenon DEF addTemplateContent, Flagged
  <2> QED BY <2>1, <2>2, Zenon
<1>2. CASE ParseTemplates
  BY <1>1, <1>2, Zenon DEF ParseTemplates, ParseEmbedded, ParseDisk, ParseOverride, WalkEnds, Flagged
<1>3. CASE UNCHANGED templateVars
  BY <1>3, Zenon DEF templateVars, Flagged
<1> QED BY <1>2, <1>3, LoadedOnce, Zenon

\* An answer about a static path names a layer or what it is instead of one.
LEMMA AnswerSource ==
  ASSUME StaticInv, OpenForStatus \/ OpenToServe
  PROVE  answer' = None \/ answer'.source \in Sources
<1>1. job # None /\ answer = None /\ job \in Job /\ Found(job)
  BY Zenon DEF StaticInv, OpenForStatus, OpenToServe
<1>2. ASSUME NEW source \in Sources, NEW result, Done(source, result)
      PROVE  answer'.source \in Sources
  BY <1>2, Zenon DEF Done
<1>3. ASSUME NEW j, Continue(j) PROVE answer' = None
  BY <1>1, <1>3, Zenon DEF Continue
<1>4. CASE OpenForStatus
  <2>1. CASE AfterEnv \/ AfterBase
    BY <1>2, <1>3, <2>1, Zenon DEF AfterEnv, AfterBase, Sources
  <2>2. PICK content : StatusKnown(content) \/ \E j : Continue(j)
    BY <1>4, Zenon DEF OpenForStatus
  <2>3. CASE StatusKnown(content)
    BY <1>2, <1>3, <2>1, <2>3, Zenon DEF StatusKnown, Serve, Sources
  <2> QED BY <1>3, <2>2, <2>3, Zenon
<1>5. CASE OpenToServe
  <2>1. PICK content : content = disk[Head(job.todo)]
    BY Zenon
  <2>2. PICK j : j = Opened(content)
    BY Zenon
  <2>3. \/ Done("error", "error")
        \/ Continue(j)
        \/ Done("index", j.dirs)
        \/ j.file # None /\ Done(j.file, "file")
        \/ Done("none", "not found")
    BY <1>5, <2>1, <2>2, Zenon DEF OpenToServe
  <2>4. Head(job.todo) \in Layer
    BY <1>1 DEF Found, Job
  <2>5. j.file = IF content = "file" /\ job.file = None THEN Head(job.todo) ELSE job.file
    BY <1>1, <2>2, Zenon DEF Opened, Job
  <2>6. j.file # None => j.file \in Sources
    BY <1>1, <2>4, <2>5, Zenon DEF Job, Sources
  <2> QED BY <1>2, <1>3, <2>3, <2>6, Zenon DEF Sources
<1> QED BY <1>4, <1>5, Zenon

LEMMA RangesStep ==
  ASSUME StaticInv, Ranges, [Next]_vars
  PROVE  Ranges'
<1>1. CASE UNCHANGED staticVars
  BY <1>1, Zenon DEF staticVars, Ranges
<1>2. CASE UNCHANGED vars \/ Load \/ Failed
  BY <1>1, <1>2, Zenon DEF vars, Load, Failed
<1>3. CASE Request
  <2>1. ASSUME NEW q, Reply(q), UNCHANGED <<disk, edits, seen>> PROVE Ranges'
    BY <2>1, Zenon DEF Reply, Ranges, Sources
  <2>2. ASSUME NEW q, NEW ref, NEW found \in [Layer -> Contents], StartStatic(q, ref, found)
        PROVE  Ranges'
    BY <2>2, Zenon DEF StartStatic, Ranges
  <2> QED BY <1>1, <1>3, <2>1, <2>2, ZenonT(30) DEF Request, RenderScript, RefuseRequest, vars,
            RefuseTemplateSource, ServeTemplate
<1>4. CASE OpenForStatus \/ OpenToServe
  <2>1. UNCHANGED <<disk, edits, seen>>
    BY <1>4, Zenon DEF OpenForStatus, OpenToServe
  <2> QED BY <1>4, <2>1, AnswerSource, Zenon DEF Ranges
<1>5. CASE ListingFails
  <2>1. job # None /\ Head(job.todo) \in Layer
    BY <1>5 DEF ListingFails, StaticInv, Found, Job
  <2>2. edits + 1 \in 0 .. MaxEdits
    BY <1>5, StaticConstants DEF ListingFails, Ranges
  <2>3. seen' \in [Layer -> SUBSET (Contents \cup {"error"})]
    BY <1>5, <2>1, Zenon DEF ListingFails, Ranges
  <2>4. answer'.source \in Sources
    BY <1>5, Zenon DEF ListingFails, Done, Sources
  <2> QED BY <1>5, <2>2, <2>3, <2>4, Zenon DEF ListingFails, Ranges
<1>6. CASE Answered
  BY <1>6, StaticConstants DEF Answered, Ranges, NoDisk, NothingSeen
<1>7. ASSUME NEW l \in Layer, NEW content \in Contents, Edit(l, content) PROVE Ranges'
  <2>1. edits + 1 \in 0 .. MaxEdits
    BY <1>7, StaticConstants DEF Edit, Ranges
  <2> QED BY <1>7, <2>1, Zenon DEF Edit, Ranges
<1> QED BY <1>2, <1>3, <1>4, <1>5, <1>6, <1>7, Zenon DEF Next

\* Every environment has what is shipped, because it inherits the default one and
\* the shipped files are read first.
LEMMA InheritsShipped ==
  ASSUME IndexInv
  PROVE  \A e \in DOMAIN envs, i \in DOMAIN loaded :
           loaded[i].embedded => DOMAIN loaded[i].defs \subseteq DOMAIN envs[e]
<1> SUFFICES ASSUME NEW e \in DOMAIN envs, NEW i \in DOMAIN loaded, loaded[i].embedded,
                    NEW n \in DOMAIN loaded[i].defs
             PROVE  n \in DOMAIN envs[e]
  BY Zenon
<1>1. loaded[i] \in Records(dir) /\ dir \in DataDirs
  BY DEF IndexInv, Layered
<1>0. \A env, file, walk : ~Record(env, file, FALSE, walk).embedded
  BY Zenon DEF Record
<1>2. PICK k \in DOMAIN dir.embedded : loaded[i] = Record(Default, dir.embedded[k], TRUE, "embedded")
  BY <1>0, <1>1, Zenon DEF Records
<1>3. loaded[i].env = Default /\ loaded[i].walk = "embedded" /\ loaded[i].defs = dir.embedded[k].defs
  BY <1>2 DEF Record
<1>4. n \in Names
  BY <1>1, <1>3, TemplateConstants, Zenon DEF IsFile
<1>5. Defines(i, e, n)
  BY <1>3, Zenon DEF Defines, Inherits
<1> QED BY <1>4, <1>5, Zenon DEF IndexInv, LaterLayerWins

\* Every reachable state is typed, and once an environment exists it has all
\* templates that are shipped (checkAddEnvironment, addTemplateContent).
THEOREM TypeCorrect == Spec => []TypeOK
<1>1. Init => Flagged /\ Ranges
  BY StaticConstants DEF Init, TemplatesInit, Flagged, Ranges, NoDisk, NothingSeen
<1>2. IndexInv /\ StaticInv /\ Flagged /\ Ranges => TypeOK
  <2> SUFFICES ASSUME IndexInv, StaticInv, Flagged, Ranges PROVE TypeOK
    BY Zenon
  <2>1. job # None => job.todo # <<>> /\ job.dirs \subseteq Layer
    BY Zenon DEF StaticInv, Found, Job
  <2>2. phase \in {"embedded", "disk", "overrides", "serving", "failed"}
    BY Zenon DEF IndexInv, Layered
  <2>3. \A e \in DOMAIN envs : \A n \in DOMAIN envs[e] :
          n \in Names /\ DOMAIN envs[e][n] = {"tree", "body", "embedded"}
    BY Zenon DEF IndexInv, Layered, Flagged
  <2> QED BY <2>1, <2>2, <2>3, InheritsShipped, Zenon DEF TypeOK, Ranges, Sources
<1>3. StaticInv /\ IndexInv /\ Flagged /\ Ranges /\ [Next]_vars => (Flagged /\ Ranges)'
  BY FlaggedStep, RangesStep, Zenon
<1> QED BY <1>1, <1>2, <1>3, StaticInvariance, IndexInvariance, PTL DEF Spec

-----------------------------------------------------------------------------
(* Encrypted hosts *)

\* An answer is what the index that is served now renders: nothing loads a
\* template once requests are served.
RenderedNow ==
  answer # None /\ answer.source = "template" => answer.result = RenderTemplate(answer.request)

LEMMA RenderStays ==
  ASSUME UNCHANGED templateVars, NEW q PROVE RenderTemplate(q)' = RenderTemplate(q)
<1>1. envs' = envs
  BY Zenon DEF templateVars
<1> QED BY <1>1, ZenonT(30) DEF RenderTemplate, Rendered, ExtraOutput, isEmbeddedTemplate, Index, ListVariables

LEMMA RenderedStep ==
  ASSUME StaticInv, RenderedNow, [Next]_vars
  PROVE  RenderedNow'
<1>1. CASE UNCHANGED <<templateVars, answer>>
  <2>1. PICK q : q = answer.request
    BY Zenon
  <2>2. RenderTemplate(q)' = RenderTemplate(q)
    BY <1>1, RenderStays, Zenon
  <2> QED BY <1>1, <2>1, <2>2, Zenon DEF RenderedNow
<1>2. CASE answer' = None \/ answer'.source # "template"
  BY <1>2, Zenon DEF RenderedNow
<1>3. ASSUME NEW q, UNCHANGED templateVars, answer'.request = q, answer'.result = RenderTemplate(q)
      PROVE  RenderedNow'
  <2>1. RenderTemplate(q)' = RenderTemplate(q)
    BY <1>3, RenderStays, Zenon
  <2> QED BY <1>3, <2>1, Zenon DEF RenderedNow
<1>4. CASE UNCHANGED vars \/ Failed
  BY <1>1, <1>4, Zenon DEF vars, staticVars, Failed
<1>5. CASE Load
  <2>1. answer' = None
    BY <1>5, Zenon DEF Load, ParseTemplates, ParseEmbedded, ParseDisk, ParseOverride, WalkEnds,
      StaticInv, staticVars
  <2> QED BY <1>2, <2>1, Zenon
<1>6. CASE Request
  <2>1. ASSUME NEW q, Reply(q), UNCHANGED templateVars PROVE RenderedNow'
    <3>1. answer'.request = q /\ answer'.result = RenderTemplate(q)
      BY <2>1, Zenon DEF Reply
    <3> QED BY <1>3, <2>1, <3>1, Zenon
  <2> QED BY <1>1, <1>6, <2>1, Zenon DEF Request, RenderScript, RefuseRequest, vars, staticVars,
            RefuseTemplateSource, ServeTemplate, StartStatic
<1>7. CASE OpenForStatus \/ OpenToServe
  <2>1. UNCHANGED templateVars
    BY <1>7, Zenon DEF OpenForStatus, OpenToServe
  <2>2. ASSUME NEW j, Continue(j) PROVE RenderedNow'
    BY <1>1, <2>1, <2>2, Zenon DEF Continue
  <2>3. ASSUME NEW source, source # "template", NEW result, Done(source, result) PROVE RenderedNow'
    BY <1>2, <2>3, Zenon DEF Done
  <2>4. CASE Done("template", RenderTemplate(job.request))
    <3>1. answer'.request = job.request /\ answer'.result = RenderTemplate(job.request)
      BY <2>4, Zenon DEF Done
    <3>2. PICK q : q = job.request
      BY Zenon
    <3> QED BY <1>3, <2>1, <3>1, <3>2, Zenon
  <2>5. CASE AfterEnv \/ AfterBase
    BY <2>2, <2>4, <2>5, Zenon DEF AfterEnv, AfterBase
  <2>6. CASE OpenForStatus
    <3>1. PICK content : StatusKnown(content) \/ \E j : Continue(j)
      BY <2>6, Zenon DEF OpenForStatus
    <3>2. "error" # "template" /\ "none" # "template"
      BY Zenon
    <3> QED BY <2>2, <2>3, <2>5, <3>1, <3>2, Zenon DEF StatusKnown, Serve
  <2>7. CASE OpenToServe
    <3>1. job # None /\ job \in Job /\ Found(job)
      BY <2>7, Zenon DEF StaticInv, OpenToServe
    <3>2. PICK content : content = disk[Head(job.todo)]
      BY Zenon
    <3>3. PICK j : j = Opened(content)
      BY Zenon
    <3>4. \/ Done("error", "error")
          \/ Continue(j)
          \/ Done("index", j.dirs)
          \/ j.file # None /\ Done(j.file, "file")
          \/ Done("none", "not found")
      BY <2>7, <3>2, <3>3, ZenonT(30) DEF OpenToServe
    <3>5. Head(job.todo) \in Layer
      BY <3>1 DEF Found, Job
    <3>6. j.file = IF content = "file" /\ job.file = None THEN Head(job.todo) ELSE job.file
      BY <3>1, <3>3, Zenon DEF Opened, Job
    <3>7. j.file # None => j.file # "template"
      BY <3>1, <3>5, <3>6, Zenon DEF Job, Layer
    <3>8. "error" # "template" /\ "index" # "template" /\ "none" # "template"
      BY Zenon
    <3> QED BY <2>2, <2>3, <3>4, <3>7, <3>8, Zenon
  <2> QED BY <1>7, <2>6, <2>7, Zenon
<1>8. CASE ListingFails
  BY <1>2, <1>8, Zenon DEF ListingFails, Done
<1>9. CASE Answered
  BY <1>2, <1>9, Zenon DEF Answered
<1>10. ASSUME NEW l \in Layer, NEW content \in Contents, Edit(l, content) PROVE RenderedNow'
  BY <1>1, <1>10, Zenon DEF Edit
<1> QED BY <1>4, <1>5, <1>6, <1>7, <1>8, <1>9, <1>10, Zenon DEF Next

\* ExecuteTemplate fails for a name that the set does not have.
LEMMA UnknownFails ==
  ASSUME NEW ns, NEW name, NEW params, name \notin DOMAIN ns
  PROVE  Execute(ns, name, params).failed
<1>1. Execute(ns, name, params) = Failing(Started)
  BY Zenon DEF Execute
<1>2. Failing(Started).failed
  BY Zenon DEF Failing, Started
<1> QED BY <1>1, <1>2, Zenon

\* Only an execution that did not fail is answered with its output.
LEMMA OkIsExecuted ==
  ASSUME NEW r, NEW required, NEW params, Checked(r, required, params).kind = "ok"
  PROVE  ~r.failed
<1>1. Answer("error").kind = "error"
  BY Zenon DEF Answer
<1>2. r.failed => Checked(r, required, params) = Answer("error")
  BY Zenon DEF Checked
<1> QED BY <1>1, <1>2, Zenon

\* What it takes to answer a request without an extra template.
LEMMA OkMeans ==
  ASSUME NEW q, RenderTemplate(q).kind = "ok", ~HasExtra(q), ~FellBack(q)
  PROVE  /\ EnvOf(q.env) \in DOMAIN envs
         /\ q.name \in DOMAIN envs[EnvOf(q.env)]
         /\ validateRenderParams(q, isEmbeddedTemplate(q.name, q.env))
<1> DEFINE e == EnvOf(q.env)
           params == WithExtra(q, Started.out)
<1>1. Answer("panic").kind # "ok" /\ Answer("error").kind # "ok" /\ Answer("refused").kind # "ok"
  BY Zenon DEF Answer
<1>2. ~Started.failed
  BY Zenon DEF Started
<1>3. /\ e \in DOMAIN envs /\ validateRenderParams(q, isEmbeddedTemplate(q.name, q.env))
      /\ RenderTemplate(q) = Rendered(q, e, params)
  BY <1>1, <1>2, Zenon DEF RenderTemplate
<1>4. e # Default => ~Execute(envs[e], q.name, params).failed
  BY <1>3, Zenon DEF FellBack
<1>5. e = Default =>
        Rendered(q, e, params) = Checked(Execute(envs[e], q.name, params), ListVariables(q.name, e), params)
  BY Zenon DEF Rendered
<1>6. ~Execute(envs[e], q.name, params).failed
  BY <1>3, <1>4, <1>5, OkIsExecuted, ZenonT(30)
<1> QED BY <1>3, <1>6, UnknownFails, Zenon

\* A template that is not the shipped one owes it to a file of the operator.
LEMMA ChangedByOperator ==
  ASSUME IndexInv, NEW e \in DOMAIN envs, NEW n \in DOMAIN envs[e], ~envs[e][n].embedded
  PROVE  \E i \in DOMAIN loaded :
           /\ Defines(i, e, n) /\ ~loaded[i].embedded
           /\ \A s \in DOMAIN loaded :
                LastShipped(s, e, n) => loaded[s].defs[n] # loaded[i].defs[n]
<1>1. n \in Names /\ LastOf(envs[e], e, n) /\ ~Unchanged(e, n)
  BY IndexedMeans, Zenon DEF IndexInv, Layered, AllIndexed, Indexed
<1>2. DOMAIN loaded \subseteq Nat
  BY DEF IndexInv, Layered
<1>3. CASE \E s \in DOMAIN loaded : LastShipped(s, e, n)
  <2>1. PICK s \in DOMAIN loaded : LastShipped(s, e, n)
    BY <1>3, Zenon
  <2>2. PICK i \in DOMAIN loaded : Defines(i, e, n) /\ i > s /\ loaded[i].defs[n] # loaded[s].defs[n]
    BY <1>1, <2>1, Zenon DEF Unchanged, LastShipped
  <2>3. ~loaded[i].embedded
    BY <1>2, <2>1, <2>2 DEF LastShipped
  <2>4. \A t \in DOMAIN loaded : LastShipped(t, e, n) => t = s
    BY <1>2, <2>1 DEF LastShipped
  <2> QED BY <2>2, <2>3, <2>4, Zenon
<1>4. CASE ~\E s \in DOMAIN loaded : LastShipped(s, e, n)
  <2>1. PICK i \in DOMAIN loaded : Defines(i, e, n) /\ \A j \in DOMAIN loaded : j > i => ~Defines(j, e, n)
    BY <1>1, Zenon DEF LastOf, DefinesLast
  <2>2. \A j \in DOMAIN loaded : Defines(j, e, n) => j <= i
    BY <1>2, <2>1
  <2>3. ~loaded[i].embedded
    BY <1>4, <2>1, <2>2, Zenon DEF LastShipped
  <2> QED BY <1>4, <2>1, <2>3, Zenon
<1> QED BY <1>3, <1>4, Zenon

\* And the last file that defines it is the operator's: what is executed is that
\* file's body, unless it is empty.
LEMMA LastIsOperators ==
  ASSUME IndexInv, NEW e \in DOMAIN envs, NEW n \in DOMAIN envs[e], ~envs[e][n].embedded,
         ~Emptied(envs[e], n)
  PROVE  \E i \in DOMAIN loaded :
           DefinesLast(i, e, n) /\ ~loaded[i].embedded /\ envs[e][n].tree = loaded[i].defs[n]
<1>1. n \in Names /\ LastOf(envs[e], e, n) /\ ~Unchanged(e, n)
  BY IndexedMeans, Zenon DEF IndexInv, Layered, AllIndexed, Indexed
<1>2. PICK i \in DOMAIN loaded : DefinesLast(i, e, n) /\ envs[e][n].body = loaded[i].defs[n]
  BY <1>1, Zenon DEF LastOf
<1>3. ~loaded[i].embedded
  BY <1>1, <1>2, Zenon DEF DefinesLast, Unchanged
<1>4. envs[e][n].tree = envs[e][n].body
  BY Zenon DEF Emptied
<1> QED BY <1>2, <1>3, <1>4, Zenon

\* An encrypted host gets an installer template that knows nothing of encryption
\* only from the operator's files, one of which changed the shipped one
\* (validateRenderParams and the flag that addTemplateContent keeps).  A fallback
\* to the base and an empty definition are excepted, as in the property.
THEOREM EncryptionIsRespected == Spec => []EncryptionRespected
<1>1. Init => RenderedNow
  BY Zenon DEF Init, RenderedNow
<1>2. IndexInv /\ RenderedNow => EncryptionRespected
  <2> SUFFICES ASSUME IndexInv, RenderedNow, NEW q, q = answer.request, NEW e, e = AnsweringEnv(q),
                      Rendering, answer.result.kind = "ok", q.encrypted,
                      q.name \in Unsupported \ DebianNames, ~HasExtra(q),
                      ~FellBack(q), ~Emptied(envs[e], q.name)
               PROVE  /\ \E i \in DOMAIN loaded :
                           /\ DefinesLast(i, e, q.name) /\ ~loaded[i].embedded
                           /\ envs[e][q.name].tree = loaded[i].defs[q.name]
                      /\ \E i \in DOMAIN loaded :
                           /\ Defines(i, e, q.name) /\ ~loaded[i].embedded
                           /\ \A s \in DOMAIN loaded :
                                LastShipped(s, e, q.name) => loaded[s].defs[q.name] # loaded[i].defs[q.name]
    BY Zenon DEF EncryptionRespected
  <2>0. e = EnvOf(q.env)
    BY Zenon DEF AnsweringEnv
  <2>1. RenderTemplate(q).kind = "ok"
    BY Zenon DEF RenderedNow, Rendering
  <2>2. /\ e \in DOMAIN envs /\ q.name \in DOMAIN envs[e]
        /\ validateRenderParams(q, isEmbeddedTemplate(q.name, q.env))
    BY <2>0, <2>1, OkMeans, Zenon
  <2>3. ~isEmbeddedTemplate(q.name, q.env)
    BY <2>2, Zenon DEF validateRenderParams
  <2>4. ~envs[e][q.name].embedded
    BY <2>0, <2>2, <2>3, ZenonT(30) DEF isEmbeddedTemplate, Index
  <2>5. PICK n : n = q.name
    BY Zenon
  <2> QED BY <2>2, <2>4, <2>5, ChangedByOperator, LastIsOperators, Zenon
<1>3. StaticInv /\ RenderedNow /\ [Next]_vars => RenderedNow'
  BY RenderedStep, Zenon
<1> QED BY <1>1, <1>2, <1>3, StaticInvariance, IndexInvariance, PTL DEF Spec
-----------------------------------------------------------------------------
(* The order of the static lookups *)

\* Where the lookups of all layers can be, and the layers they have left behind.
Remaining(env) ==
  {<<"base", "shipped">>, <<"shipped">>} \cup {s \in {<<"env", "base", "shipped">>} : env # NoName}
Passed(head, env) ==
  IF head = "env" THEN {}
  ELSE IF head = "base" THEN LayersOf(env) \cap {"env"} ELSE LayersOf(env) \ {"shipped"}

\* What the lookups of an unedited disk have shown: all layers are asked for the
\* first content, then, unless it is a directory, each stage for its own.
Ordered(j) ==
  LET env == j.request.env
      passed == Passed(Head(j.todo), env)
  IN  /\ j.stage = "all" => j.todo \in Remaining(env)
      /\ j.stage = "all" /\ j.mode = "status" => \A l \in passed : disk[l] = "missing"
      /\ j.stage = "all" /\ j.mode = "serve" =>
           /\ FirstContent(env) = "dir" /\ \A l \in passed : disk[l] # "error"
           /\ j.dirs = {l \in passed : disk[l] = "dir"}
      /\ j.stage # "all" => FirstContent(env) \notin {"dir", "error"} /\ j.dirs = {}
      /\ j.stage = "env" => env # NoName
      /\ j.stage # "all" /\ j.mode = "serve" => disk[j.stage] = "file"

OrderInv == (job # None /\ Untouched => Ordered(job)) /\ StaticOrder

\* The sequences of layers that the lookups of all layers go through.
LEMMA LayerSeqs ==
  /\ \A env : AllLayers(env) = IF env = NoName THEN <<"base", "shipped">> ELSE <<"env", "base", "shipped">>
  /\ Head(<<"env", "base", "shipped">>) = "env" /\ Head(<<"base", "shipped">>) = "base"
  /\ Head(<<"shipped">>) = "shipped"
  /\ Tail(<<"env", "base", "shipped">>) = <<"base", "shipped">>
  /\ Tail(<<"base", "shipped">>) = <<"shipped">> /\ Tail(<<"shipped">>) = <<>>
  /\ Len(<<"env", "base", "shipped">>) = 3 /\ Len(<<"base", "shipped">>) = 2 /\ Len(<<"shipped">>) = 1
<1>1. <<>> \o <<"base", "shipped">> = <<"base", "shipped">>
  OBVIOUS
<1>2. <<"env">> \o <<"base", "shipped">> = <<"env", "base", "shipped">>
  <2>1. PICK s : s = <<"env">> \o <<"base", "shipped">>
    BY Zenon
  <2>2. PICK t : t = <<"env", "base", "shipped">>
    BY ZenonT(30)
  <2>3. <<"env">> \in Seq(Layer) /\ <<"base", "shipped">> \in Seq(Layer)
    BY DEF Layer
  <2>4. s \in Seq(Layer) /\ Len(s) = 3 /\ s[1] = "env" /\ s[2] = "base" /\ s[3] = "shipped"
    BY <2>1, <2>3
  <2>5. t \in Seq(Layer) /\ Len(t) = 3 /\ t[1] = "env" /\ t[2] = "base" /\ t[3] = "shipped"
    BY <2>2 DEF Layer
  <2>6. \A i \in 1 .. 3 : s[i] = t[i]
    BY <2>4, <2>5
  <2>7. s = t
    BY <2>4, <2>5, <2>6
  <2> QED BY <2>1, <2>2, <2>7, Zenon
<1>3. \A env : AllLayers(env) = IF env = NoName THEN <<"base", "shipped">> ELSE <<"env", "base", "shipped">>
  BY <1>1, <1>2, Zenon DEF AllLayers, EnvLayers
<1>4. Tail(<<"env", "base", "shipped">>) = <<"base", "shipped">>
  OBVIOUS
<1>5. Tail(<<"base", "shipped">>) = <<"shipped">> /\ Tail(<<"shipped">>) = <<>>
  OBVIOUS
<1>6. /\ Head(<<"env", "base", "shipped">>) = "env" /\ Head(<<"base", "shipped">>) = "base"
      /\ Head(<<"shipped">>) = "shipped"
      /\ Len(<<"env", "base", "shipped">>) = 3 /\ Len(<<"base", "shipped">>) = 2 /\ Len(<<"shipped">>) = 1
  BY SMTT(30)
<1> QED BY <1>3, <1>4, <1>5, <1>6, Zenon

\* One step along all layers: the layer that was asked is behind, and after the
\* last one all layers are.
LEMMA Along ==
  ASSUME NEW env, NEW todo \in Remaining(env)
  PROVE  /\ Head(todo) \in LayersOf(env) /\ Head(todo) \notin Passed(Head(todo), env)
         /\ Len(todo) > 1 <=> todo # <<"shipped">>
         /\ Len(todo) > 1 => /\ Tail(todo) \in Remaining(env)
                             /\ Passed(Head(Tail(todo)), env) = Passed(Head(todo), env) \cup {Head(todo)}
         /\ ~(Len(todo) > 1) => /\ Tail(todo) = <<>> /\ Head(todo) = "shipped"
                                /\ LayersOf(env) = Passed(Head(todo), env) \cup {Head(todo)}
<1>1. CASE todo = <<"env", "base", "shipped">> /\ env # NoName
  <2>1. Head(todo) = "env" /\ Tail(todo) = <<"base", "shipped">> /\ Head(Tail(todo)) = "base" /\ Len(todo) = 3
    BY <1>1, LayerSeqs, Zenon
  <2>2. todo # <<"shipped">>
    BY <2>1, LayerSeqs, Zenon
  <2>3. LayersOf(env) = {"env", "base", "shipped"}
    BY <1>1, Zenon DEF LayersOf, Layer
  <2> QED BY <2>1, <2>2, <2>3 DEF Passed, Remaining
<1>2. CASE todo = <<"base", "shipped">>
  <2>1. Head(todo) = "base" /\ Tail(todo) = <<"shipped">> /\ Head(Tail(todo)) = "shipped" /\ Len(todo) = 2
    BY <1>2, LayerSeqs, Zenon
  <2>2. todo # <<"shipped">>
    BY <2>1, LayerSeqs, Zenon
  <2>3. {"base", "shipped"} \subseteq LayersOf(env) /\ LayersOf(env) \subseteq {"env", "base", "shipped"}
    BY Zenon DEF LayersOf, Layer
  <2> QED BY <2>1, <2>2, <2>3 DEF Passed, Remaining
<1>3. CASE todo = <<"shipped">>
  <2>1. Head(todo) = "shipped" /\ Tail(todo) = <<>> /\ Len(todo) = 1
    BY <1>3, LayerSeqs, Zenon
  <2>2. "shipped" \in LayersOf(env)
    BY Zenon DEF LayersOf, Layer
  <2> QED BY <1>3, <2>1, <2>2 DEF Passed
<1> QED BY <1>1, <1>2, <1>3, Zenon DEF Remaining

\* What the order says does not change while the disk and the index do not.
LEMMA OrderStays ==
  ASSUME UNCHANGED <<templateVars, disk>>
  PROVE  \A env : FirstContent(env)' = FirstContent(env) /\ Documented(env)' = Documented(env)
<1>1. disk' = disk
  BY Zenon
<1>2. \A env : FirstContent(env)' = FirstContent(env)
  BY <1>1, Zenon DEF FirstContent
<1>3. \A env : LayersOf(env)' = LayersOf(env)
  BY Zenon DEF LayersOf
<1>4. ASSUME NEW env PROVE Documented(env)' = Documented(env)
  <2>1. PICK override \in BOOLEAN : override <=> HasTemplateOverride(StaticName, env)
    BY Zenon
  <2>2. PICK base \in BOOLEAN : base <=> HasTemplate(StaticName, NoName)
    BY Zenon
  <2>3. /\ override <=> HasTemplateOverride(StaticName, env)'
        /\ base <=> HasTemplate(StaticName, NoName)'
    BY <2>1, <2>2, TemplatesStay, Zenon
  <2> QED BY <1>1, <1>2, <2>1, <2>2, <2>3, Zenon DEF Documented
<1> QED BY <1>2, <1>4, Zenon

\* The answer at the end of the lookups.
LEMMA OrderAnswer ==
  ASSUME UNCHANGED <<templateVars, disk, seen>>, NEW source, NEW result, Done(source, result),
         NEW env, env = job.request.env,
         Untouched => /\ source = Documented(env)
                      /\ source = "index" => result = {l \in LayersOf(env) : disk[l] = "dir"}
  PROVE  OrderInv'
<1>1. /\ job' = None /\ answer'.source = source /\ answer'.result = result
      /\ answer'.request.env = env
  BY Zenon DEF Done
<1>2. Untouched' <=> Untouched
  BY Zenon DEF Untouched
<1>3. Documented(env)' = Documented(env)
  BY OrderStays, Zenon
<1>4. StaticOrder'
  BY <1>1, <1>2, <1>3, Zenon DEF StaticOrder, LayersOf
<1> QED BY <1>1, <1>4, ZenonT(30) DEF OrderInv

\* The next lookup.
LEMMA OrderNext ==
  ASSUME StaticInv, job # None, UNCHANGED <<templateVars, disk, seen>>, NEW j, Continue(j),
         Untouched => Ordered(j)
  PROVE  OrderInv'
<1>1. job' = j /\ answer' = None
  BY Zenon DEF Continue, StaticInv
<1>2. Untouched' <=> Untouched
  BY Zenon DEF Untouched
<1>3. Ordered(j)' <=> Ordered(j)
  <2>1. \A env : FirstContent(env)' = FirstContent(env)
    BY OrderStays, Zenon
  <2> QED BY <2>1, Zenon DEF Ordered, Passed, LayersOf, Remaining
<1>4. StaticOrder'
  BY <1>1, Zenon DEF StaticOrder, Served
<1>5. Ordered(job)' <=> Ordered(j)'
  BY <1>1, Zenon DEF Ordered, FirstContent
<1> QED BY <1>2, <1>3, <1>4, <1>5, Zenon DEF OrderInv

\* What holds of a request before each of its lookups on an unedited disk.
LEMMA Looking ==
  ASSUME StaticInv, Ranges, OrderInv, job # None, Untouched
  PROVE  /\ job \in Job /\ Found(job) /\ Ordered(job)
         /\ \A l \in Layer : disk[l] \in {"missing", "file", "dir", "error"}
         /\ \A l \in Layer : "missing" \in seen[l] => disk[l] = "missing"
<1>1. job \in Job /\ Found(job) /\ Ordered(job)
  BY Zenon DEF StaticInv, OrderInv
<1>2. \A l \in Layer : disk[l] \in {"missing", "file", "dir", "error"}
  BY StaticConstants, Zenon DEF Ranges
<1>3. \A l \in Layer : seen[l] = {disk[l]}
  BY Zenon DEF Untouched
<1> QED BY <1>1, <1>2, <1>3, Zenon

LEMMA AfterEnvOrder ==
  ASSUME StaticInv, Ranges, OrderInv, job # None, UNCHANGED <<templateVars, disk, seen>>, AfterEnv,
         Untouched => /\ job.request.env # NoName => disk["env"] = "missing"
                      /\ FirstContent(job.request.env) \notin {"dir", "error"}
  PROVE  OrderInv'
<1>1. PICK env : env = job.request.env
  BY Zenon
<1>2. CASE Overridden(env)
  <2>1. Done("template", RenderTemplate(job.request))
    BY <1>1, <1>2, Zenon DEF AfterEnv, Overridden
  <2>2. Untouched => Documented(env) = "template"
    BY <1>1, <1>2, Zenon DEF Documented, Overridden
  <2> QED BY <1>1, <2>1, <2>2, OrderAnswer, Zenon
<1>3. CASE ~Overridden(env)
  <2>1. Continue(Ask(job, "base", "status", <<"base">>))
    BY <1>1, <1>3, Zenon DEF AfterEnv, Overridden
  <2>2. PICK j : j = Ask(job, "base", "status", <<"base">>)
    BY Zenon
  <2>3. /\ j.request = job.request /\ j.stage = "base" /\ j.mode = "status" /\ j.dirs = {}
    BY <2>2, Zenon DEF Ask, StaticInv, Job
  <2>4. Untouched => Ordered(j)
    BY <2>3, Zenon DEF Ordered
  <2> QED BY <2>1, <2>2, <2>4, OrderNext, Zenon
<1> QED BY <1>2, <1>3, Zenon

LEMMA AfterBaseOrder ==
  ASSUME StaticInv, Ranges, OrderInv, job # None, UNCHANGED <<templateVars, disk, seen>>, AfterBase,
         ~Overridden(job.request.env),
         Untouched => /\ job.request.env # NoName => disk["env"] = "missing"
                      /\ disk["base"] = "missing"
                      /\ FirstContent(job.request.env) \notin {"dir", "error"}
  PROVE  OrderInv'
<1>1. PICK env : env = job.request.env
  BY Zenon
<1>2. CASE HasTemplate(StaticName, NoName)
  <2>1. Done("template", RenderTemplate(job.request))
    BY <1>2, ZenonT(30) DEF AfterBase
  <2>2. Untouched => Documented(env) = "template"
    BY <1>1, <1>2, Zenon DEF Documented, Overridden
  <2> QED BY <1>1, <2>1, <2>2, OrderAnswer, Zenon
<1>3. CASE ~HasTemplate(StaticName, NoName)
  <2>1. Continue(Ask(job, "shipped", "status", <<"shipped">>))
    BY <1>3, Zenon DEF AfterBase
  <2>2. PICK j : j = Ask(job, "shipped", "status", <<"shipped">>)
    BY Zenon
  <2>3. /\ j.request = job.request /\ j.stage = "shipped" /\ j.mode = "status" /\ j.dirs = {}
    BY <2>2, Zenon DEF Ask, StaticInv, Job
  <2>4. Untouched => Ordered(j)
    BY <2>3, Zenon DEF Ordered
  <2> QED BY <2>1, <2>2, <2>4, OrderNext, Zenon
<1> QED BY <1>2, <1>3, Zenon

\* overlayPathStatus of all layers finds the first content.
LEMMA FirstFound ==
  ASSUME NEW env, NEW todo \in Remaining(env), \A l \in Passed(Head(todo), env) : disk[l] = "missing",
         disk[Head(todo)] # "missing" \/ ~(Len(todo) > 1)
  PROVE  FirstContent(env) = disk[Head(todo)]
<1>1. CASE todo = <<"env", "base", "shipped">> /\ env # NoName
  BY <1>1, LayerSeqs DEF FirstContent
<1>2. CASE todo = <<"base", "shipped">>
  <2>1. Head(todo) = "base" /\ disk["base"] # "missing"
    BY <1>2, LayerSeqs
  <2>2. env # NoName => disk["env"] = "missing"
    BY <2>1, Zenon DEF Passed, LayersOf, Layer
  <2> QED BY <2>1, <2>2, Zenon DEF FirstContent
<1>3. CASE todo = <<"shipped">>
  <2>1. Head(todo) = "shipped"
    BY <1>3, LayerSeqs, Zenon
  <2>2. (env # NoName => disk["env"] = "missing") /\ disk["base"] = "missing"
    BY <2>1, Zenon DEF Passed, LayersOf, Layer
  <2> QED BY <2>1, <2>2, Zenon DEF FirstContent
<1> QED BY <1>1, <1>2, <1>3, Zenon DEF Remaining

LEMMA StatusOrder ==
  ASSUME StaticInv, Ranges, OrderInv, OpenForStatus
  PROVE  OrderInv'
<1>1. /\ job # None /\ UNCHANGED <<templateVars, disk, seen>> /\ job.mode = "status"
      /\ job \in Job /\ Found(job)
  BY Zenon DEF OpenForStatus, StaticInv
<1>2. PICK env : env = job.request.env
  BY Zenon
<1>3. PICK head : head = Head(job.todo)
  BY Zenon
<1>4. PICK content : content = disk[head]
  BY Zenon
<1>5. IF content = "missing" /\ Len(job.todo) > 1
        THEN Continue([job EXCEPT !.todo = Tail(@)]) ELSE StatusKnown(content)
  BY <1>3, <1>4, ZenonT(30) DEF OpenForStatus
<1>6. job.stage \in {"all", "env", "base", "shipped"}
  BY <1>1, Zenon DEF Job
<1>7. ASSUME job.stage = "all", Untouched
      PROVE  /\ job.todo \in Remaining(env)
             /\ \A l \in Passed(head, env) : disk[l] = "missing"
  BY <1>1, <1>2, <1>3, <1>7, Looking, Zenon DEF Ordered
<1>8. ASSUME job.stage # "all"
      PROVE  head = job.stage /\ ~(Len(job.todo) > 1)
  <2>1. job.todo = <<job.stage>> /\ job.stage \in Layer
    BY <1>1, <1>6, <1>8, Zenon DEF Found, Layer
  <2>2. head = job.stage /\ Len(job.todo) = 1
    BY <1>3, <2>1, Single, Zenon
  <2> QED BY <2>2
<1>9. CASE content = "missing" /\ Len(job.todo) > 1
  <2>1. job.stage = "all"
    BY <1>8, <1>9, Zenon
  <2>2. PICK j : j = [job EXCEPT !.todo = Tail(@)]
    BY Zenon
  <2>3. /\ j.request = job.request /\ j.stage = "all" /\ j.mode = "status" /\ j.todo = Tail(job.todo)
    BY <1>1, <2>1, <2>2, Zenon DEF Job
  <2>4. ASSUME Untouched PROVE Ordered(j)
    <3>1. /\ Tail(job.todo) \in Remaining(env)
          /\ Passed(Head(j.todo), env) = Passed(head, env) \cup {head}
      <4>1. job.todo \in Remaining(env) /\ Len(job.todo) > 1
        BY <1>7, <1>9, <2>1, <2>4, Zenon
      <4>2. /\ Tail(job.todo) \in Remaining(env)
            /\ Passed(Head(Tail(job.todo)), env) = Passed(Head(job.todo), env) \cup {Head(job.todo)}
        BY <4>1, Along, Zenon
      <4> QED BY <1>3, <2>3, <4>2, Zenon
    <3>2. \A l \in Passed(Head(j.todo), env) : disk[l] = "missing"
      BY <1>4, <1>7, <1>9, <2>1, <2>4, <3>1, Zenon
    <3> QED BY <1>2, <2>3, <3>1, <3>2, Zenon DEF Ordered
  <2> QED BY <1>1, <1>5, <1>9, <2>2, <2>4, OrderNext, Zenon
<1>10. CASE ~(content = "missing" /\ Len(job.todo) > 1) /\ job.stage = "all"
  <2>1. StatusKnown(content)
    BY <1>5, <1>10, Zenon
  <2>2. Untouched => FirstContent(env) = content
    BY <1>3, <1>4, <1>7, <1>10, FirstFound, Zenon
  <2>3. CASE content = "error"
    <3>1. Done("error", "error")
      BY <2>1, <2>3, Zenon DEF StatusKnown
    <3>2. Untouched => Documented(env) = "error"
      BY <2>2, <2>3, Zenon DEF Documented
    <3> QED BY <1>1, <1>2, <3>1, <3>2, OrderAnswer, Zenon
  <2>4. CASE content = "dir"
    <3>1. Continue(Ask(job, "all", "serve", AllLayers(env)))
      BY <1>2, <1>10, <2>1, <2>4, Zenon DEF StatusKnown, Serve
    <3>2. PICK j : j = Ask(job, "all", "serve", AllLayers(env))
      BY Zenon
    <3>3. /\ j.request = job.request /\ j.stage = "all" /\ j.mode = "serve" /\ j.dirs = {}
          /\ j.todo = AllLayers(env)
      BY <1>1, <3>2, Zenon DEF Ask, Job
    <3>4. AllLayers(env) \in Remaining(env) /\ Passed(Head(AllLayers(env)), env) = {}
      BY LayerSeqs, Zenon DEF Remaining, Passed, LayersOf, Layer
    <3>5. Untouched => Ordered(j)
      BY <1>2, <2>2, <2>4, <3>3, <3>4, Zenon DEF Ordered
    <3> QED BY <1>1, <3>1, <3>2, <3>5, OrderNext, Zenon
  <2>5. CASE content \notin {"error", "dir"} /\ env = NoName
    <3>1. EnvLayers(env) = <<>>
      BY <2>5, Zenon DEF EnvLayers
    <3>2. AfterEnv
      BY <1>2, <1>10, <2>1, <2>5, <3>1, Zenon DEF StatusKnown
    <3> QED BY <1>1, <1>2, <2>2, <2>5, <3>2, AfterEnvOrder, Zenon
  <2>6. CASE content \notin {"error", "dir"} /\ env # NoName
    <3>1. EnvLayers(env) # <<>>
      BY <2>6, LayersTyped, Zenon
    <3>2. Continue(Ask(job, "env", "status", EnvLayers(env)))
      BY <1>2, <1>10, <2>1, <2>6, <3>1, Zenon DEF StatusKnown
    <3>3. PICK j : j = Ask(job, "env", "status", EnvLayers(env))
      BY Zenon
    <3>4. /\ j.request = job.request /\ j.stage = "env" /\ j.mode = "status" /\ j.dirs = {}
      BY <1>1, <3>3, Zenon DEF Ask, Job
    <3>5. Untouched => Ordered(j)
      BY <1>2, <2>2, <2>6, <3>4, Zenon DEF Ordered
    <3> QED BY <1>1, <3>2, <3>3, <3>5, OrderNext, Zenon
  <2> QED BY <2>3, <2>4, <2>5, <2>6, Zenon
<1>11. CASE job.stage # "all"
  <2>1. StatusKnown(content)
    BY <1>5, <1>8, <1>11, ZenonT(30)
  <2>2. job.stage \in Layer /\ content = disk[job.stage]
    BY <1>4, <1>6, <1>8, <1>11, Zenon DEF Layer
  <2>3. Untouched =>
          /\ FirstContent(env) \notin {"dir", "error"}
          /\ job.stage = "env" => env # NoName
          /\ content \in {"missing", "file", "dir", "error"}
          /\ job.stage \in {"base", "shipped"} /\ env # NoName => disk["env"] = "missing"
          /\ job.stage = "shipped" => disk["base"] = "missing"
    BY <1>1, <1>2, <1>11, <2>2, Looking, ZenonT(30) DEF Ordered, Found, Layer
  <2>4. /\ job.stage \in {"base", "shipped"} => ~Overridden(env)
        /\ job.stage = "shipped" => ~HasTemplate(StaticName, NoName)
    BY <1>1, <1>2, Zenon DEF Found
  <2>5. Untouched => content # "error" /\ content # "dir"
    BY <1>6, <1>11, <2>2, <2>3, Zenon DEF FirstContent
  <2>6. CASE content = "error"
    <3>1. Done("error", "error")
      BY <2>1, <2>6, Zenon DEF StatusKnown
    <3> QED BY <1>1, <1>2, <2>5, <2>6, <3>1, OrderAnswer, Zenon
  <2>7. CASE content \notin {"error", "missing"}
    <3>1. Continue(Ask(job, job.stage, "serve", <<job.stage>>))
      BY <1>11, <2>1, <2>7, Zenon DEF StatusKnown, Serve
    <3>2. PICK j : j = Ask(job, job.stage, "serve", <<job.stage>>)
      BY Zenon
    <3>3. /\ j.request = job.request /\ j.stage = job.stage /\ j.mode = "serve" /\ j.dirs = {}
      BY <1>1, <3>2, Zenon DEF Ask, Job
    <3>4. Untouched => disk[job.stage] = "file"
      BY <2>2, <2>3, <2>5, <2>7, Zenon
    <3>5. Untouched => Ordered(j)
      BY <1>2, <1>11, <2>3, <3>3, <3>4, Zenon DEF Ordered
    <3> QED BY <1>1, <3>1, <3>2, <3>5, OrderNext, Zenon
  <2>8. CASE content = "missing" /\ job.stage = "env"
    <3>1. AfterEnv
      BY <2>1, <2>8, Zenon DEF StatusKnown
    <3> QED BY <1>1, <1>2, <2>2, <2>3, <2>8, <3>1, AfterEnvOrder, ZenonT(30)
  <2>9. CASE content = "missing" /\ job.stage = "base"
    <3>1. AfterBase
      BY <2>1, <2>9, Zenon DEF StatusKnown
    <3> QED BY <1>1, <1>2, <2>2, <2>3, <2>4, <2>9, <3>1, AfterBaseOrder, ZenonT(30)
  <2>10. CASE content = "missing" /\ job.stage = "shipped"
    <3>1. Done("none", "not found")
      BY <2>1, <2>10, ZenonT(30) DEF StatusKnown
    <3>2. Untouched => Documented(env) = "none"
      BY <2>2, <2>3, <2>4, <2>10, Zenon DEF Documented, Overridden
    <3> QED BY <1>1, <1>2, <3>1, <3>2, OrderAnswer, Zenon
  <2> QED BY <1>6, <1>11, <2>6, <2>7, <2>8, <2>9, <2>10, Zenon
<1> QED BY <1>9, <1>10, <1>11, Zenon

LEMMA ServeOrder ==
  ASSUME StaticInv, Ranges, OrderInv, OpenToServe
  PROVE  OrderInv'
<1>1. /\ job # None /\ UNCHANGED <<templateVars, disk, seen>> /\ job.mode = "serve"
      /\ job \in Job /\ Found(job)
  BY Zenon DEF OpenToServe, StaticInv
<1>2. PICK env : env = job.request.env
  BY Zenon
<1>3. PICK head : head = Head(job.todo)
  BY Zenon
<1>4. PICK content : content = disk[head]
  BY Zenon
<1>5. PICK j : j = Opened(content)
  BY Zenon
<1>6. IF content = "error" THEN Done("error", "error")
      ELSE IF j.todo # <<>> THEN Continue(j)
      ELSE IF j.dirs # {} THEN Done("index", j.dirs)
      ELSE IF j.file # None THEN Done(j.file, "file")
      ELSE Done("none", "not found")
  BY <1>3, <1>4, <1>5, Zenon DEF OpenToServe
<1>7. /\ j.request = job.request /\ j.stage = job.stage /\ j.mode = "serve"
      /\ j.todo = Tail(job.todo)
      /\ j.dirs = job.dirs \cup {l \in {head} : content = "dir"}
      /\ j.file = IF content = "file" /\ job.file = None THEN head ELSE job.file
  BY <1>1, <1>3, <1>5, Zenon DEF Opened, Job
<1>8. job.stage \in {"all", "env", "base", "shipped"}
  BY <1>1, Zenon DEF Job
<1>9. CASE job.stage = "all"
  <2>1. ASSUME Untouched
        PROVE  /\ job.todo \in Remaining(env) /\ FirstContent(env) = "dir"
               /\ \A l \in Passed(head, env) : disk[l] # "error"
               /\ job.dirs = {l \in Passed(head, env) : disk[l] = "dir"}
    BY <1>1, <1>2, <1>3, <1>9, <2>1, Looking, ZenonT(30) DEF Ordered
  <2>2. ASSUME Untouched
        PROVE  /\ head \in LayersOf(env)
               /\ Len(job.todo) > 1 => /\ Tail(job.todo) \in Remaining(env)
                                       /\ Passed(Head(Tail(job.todo)), env) = Passed(head, env) \cup {head}
               /\ ~(Len(job.todo) > 1) => /\ Tail(job.todo) = <<>>
                                          /\ LayersOf(env) = Passed(head, env) \cup {head}
    <3>1. job.todo \in Remaining(env)
      BY <2>1, <2>2, Zenon
    <3> QED BY <1>3, <3>1, Along, ZenonT(30)
  <2>3. CASE content = "error"
    <3>1. Done("error", "error")
      BY <1>6, <2>3, Zenon
    <3>2. Untouched => Documented(env) = "error"
      BY <1>4, <2>1, <2>2, <2>3, Zenon DEF Documented
    <3> QED BY <1>1, <1>2, <3>1, <3>2, OrderAnswer, Zenon
  <2>4. CASE content # "error" /\ j.todo # <<>>
    <3>1. Continue(j)
      BY <1>6, <2>4, Zenon
    <3>2. ASSUME Untouched PROVE Ordered(j)
      <4>1. /\ j.todo \in Remaining(env)
            /\ Passed(Head(j.todo), env) = Passed(head, env) \cup {head}
        BY <1>7, <2>2, <2>4, <3>2, Zenon
      <4>2. PICK passed : passed = Passed(Head(j.todo), env)
        BY Zenon
      <4>3. \A l \in passed : disk[l] # "error"
        BY <1>4, <2>1, <2>4, <3>2, <4>1, <4>2, Zenon
      <4>4. j.dirs = {l \in passed : disk[l] = "dir"}
        BY <1>4, <1>7, <2>1, <3>2, <4>1, <4>2, ZenonT(30)
      <4> QED BY <1>2, <1>7, <1>9, <2>1, <3>2, <4>1, <4>2, <4>3, <4>4, ZenonT(30) DEF Ordered
    <3> QED BY <1>1, <3>1, <3>2, OrderNext, Zenon
  <2>5. CASE content # "error" /\ j.todo = <<>>
    <3>1. ASSUME Untouched
          PROVE  /\ j.dirs = {l \in LayersOf(env) : disk[l] = "dir"}
                 /\ \A l \in LayersOf(env) : disk[l] # "error"
      <4>1. ~(Len(job.todo) > 1)
        <5> SUFFICES ASSUME Len(job.todo) > 1 PROVE FALSE
          BY Zenon
        <5>1. job.todo \in Seq(Layer)
          BY <1>1, Zenon DEF Job
        <5> QED BY <1>7, <2>5, <5>1, TailLeft, ZenonT(30)
      <4>2. LayersOf(env) = Passed(head, env) \cup {head}
        BY <2>2, <3>1, <4>1, Zenon
      <4> QED BY <1>4, <1>7, <2>1, <2>5, <3>1, <4>2, Zenon
    <3>2. ASSUME Untouched PROVE j.dirs # {} /\ Documented(env) = "index"
      <4>1. \E l \in LayersOf(env) : disk[l] = "dir"
        BY <2>1, <3>2, Zenon DEF FirstContent, LayersOf, Layer
      <4>2. j.dirs # {}
        BY <3>1, <3>2, <4>1, Zenon
      <4> QED BY <2>1, <3>1, <3>2, <4>2, Zenon DEF Documented
    <3>3. ASSUME NEW source, NEW result, Done(source, result), ~Untouched PROVE OrderInv'
      BY <1>1, <1>2, <3>3, OrderAnswer, Zenon
    <3>4. CASE j.dirs # {}
      <4>1. Done("index", j.dirs)
        BY <1>6, <2>5, <3>4, Zenon
      <4> QED BY <1>1, <1>2, <3>1, <3>2, <4>1, OrderAnswer, Zenon
    <3>5. CASE j.dirs = {}
      BY <1>6, <2>5, <3>2, <3>3, <3>5, ZenonT(30)
    <3> QED BY <3>4, <3>5, Zenon
  <2> QED BY <2>3, <2>4, <2>5, Zenon
<1>10. CASE job.stage # "all"
  <2>1. /\ job.todo = <<job.stage>> /\ job.stage \in Layer /\ job.file = None
    BY <1>1, <1>8, <1>10, Zenon DEF Found, Layer
  <2>2. head = job.stage /\ j.todo = <<>>
    <3>1. Tail(<<job.stage>>) = <<>>
      OBVIOUS
    <3> QED BY <1>3, <1>7, <2>1, <3>1, Single, ZenonT(30)
  <2>3. ASSUME NEW source, NEW result, Done(source, result), ~Untouched PROVE OrderInv'
    BY <1>1, <1>2, <2>3, OrderAnswer, Zenon
  <2>4. CASE ~Untouched
    BY <1>6, <2>2, <2>3, <2>4, ZenonT(30)
  <2>5. CASE Untouched
    <3>1. /\ content = "file" /\ job.dirs = {} /\ FirstContent(env) \notin {"dir", "error"}
          /\ job.stage = "env" => env # NoName
          /\ job.stage \in {"base", "shipped"} /\ env # NoName => disk["env"] = "missing"
          /\ job.stage \in {"base", "shipped"} => ~Overridden(env)
          /\ job.stage = "shipped" => disk["base"] = "missing" /\ ~HasTemplate(StaticName, NoName)
      BY <1>1, <1>2, <1>4, <1>10, <2>2, <2>5, Looking, ZenonT(30) DEF Ordered, Found, Layer
    <3>2. j.dirs = {} /\ j.file = job.stage
      BY <1>7, <2>1, <2>2, <3>1, ZenonT(30)
    <3>3. job.stage # None
      BY <2>1, StaticConstants, Zenon
    <3>4. Done(job.stage, "file")
      BY <1>6, <2>2, <3>1, <3>2, <3>3, Zenon
    <3>5. Documented(env) = job.stage
      BY <1>4, <1>8, <1>10, <2>2, <3>1, Zenon DEF Documented, Overridden
    <3>6. job.stage # "index"
      BY <1>8, Zenon
    <3> QED BY <1>1, <1>2, <3>4, <3>5, <3>6, OrderAnswer, Zenon
  <2> QED BY <2>4, <2>5, Zenon
<1> QED BY <1>9, <1>10, Zenon

LEMMA StartOrder ==
  ASSUME StaticInv, Ready, NEW q, NEW ref, NEW found, StartStatic(q, ref, found)
  PROVE  OrderInv'
<1>1. PICK env : env = Resolved(q, ref).env
  BY Zenon
<1>2. /\ job'.request.env = env /\ job'.stage = "all" /\ job'.mode = "status"
      /\ job'.todo = AllLayers(env) /\ answer' = None
  BY <1>1, Zenon DEF StartStatic, Ready
<1>3. AllLayers(env) \in Remaining(env) /\ Passed(Head(AllLayers(env)), env) = {}
  BY LayerSeqs, Zenon DEF Remaining, Passed, LayersOf, Layer
<1>4. Ordered(job)'
  BY <1>2, <1>3, Zenon DEF Ordered, Passed, Remaining, LayersOf
<1>5. StaticOrder'
  BY <1>2, Zenon DEF StaticOrder, Served
<1> QED BY <1>4, <1>5, Zenon DEF OrderInv

LEMMA OrderStep ==
  ASSUME StaticInv, Ranges, OrderInv, [Next]_vars
  PROVE  OrderInv'
<1>1. ASSUME job' = None, answer' = None \/ ~answer'.static PROVE OrderInv'
  BY <1>1, Zenon DEF OrderInv, StaticOrder, Served
<1>2. CASE UNCHANGED vars \/ Failed
  <2>1. UNCHANGED <<templateVars, disk, seen, job, answer>>
    BY <1>2, ZenonT(30) DEF vars, staticVars, Failed
  <2>2. Ordered(job)' <=> Ordered(job)
    BY <2>1, ZenonT(30) DEF Ordered, FirstContent, Passed, LayersOf, Remaining
  <2>3. Untouched' <=> Untouched
    BY <2>1, Zenon DEF Untouched
  <2>4. Documented(answer.request.env)' = Documented(answer.request.env)
    <3>1. PICK env : env = answer.request.env
      BY Zenon
    <3>2. env = answer'.request.env
      BY <2>1, <3>1, Zenon
    <3>3. Documented(env)' = Documented(env)
      BY <2>1, OrderStays, Zenon
    <3> QED BY <3>1, <3>2, <3>3, Zenon
  <2>5. StaticOrder'
    BY <2>1, <2>3, <2>4, Zenon DEF OrderInv, StaticOrder, Served, LayersOf
  <2> QED BY <2>1, <2>2, <2>3, <2>5, Zenon DEF OrderInv
<1>3. CASE Load
  <2>1. job' = None /\ answer' = None
    BY <1>3, Zenon DEF Load, ParseTemplates, ParseEmbedded, ParseDisk, ParseOverride, WalkEnds,
      StaticInv, staticVars
  <2> QED BY <1>1, <2>1, Zenon
<1>4. CASE Request
  <2>1. Ready
    BY <1>4, ZenonT(30) DEF Request
  <2>2. ASSUME NEW q, Reply(q), UNCHANGED job PROVE OrderInv'
    BY <1>1, <2>1, <2>2, Zenon DEF Reply, Ready
  <2>3. ASSUME NEW q, NEW ref, NEW found, StartStatic(q, ref, found) PROVE OrderInv'
    BY <2>1, <2>3, StartOrder, Zenon
  <2> QED BY <1>2, <1>4, <2>2, <2>3, Zenon DEF Request, RenderScript, RefuseRequest,
            RefuseTemplateSource, ServeTemplate
<1>5. CASE OpenForStatus \/ OpenToServe
  BY <1>5, StatusOrder, ServeOrder, Zenon
<1>6. CASE ListingFails
  <2>1. PICK head : head = Head(job.todo)
    BY Zenon
  <2>2. head \in Layer /\ DOMAIN seen = Layer
    BY <1>6, <2>1 DEF ListingFails, StaticInv, Found, Job
  <2>3. disk'[head] = "dir" /\ "error" \in seen'[head] /\ job' = None
    BY <1>6, <2>1, <2>2, Zenon DEF ListingFails, Done
  <2>4. ~Untouched'
    BY <2>2, <2>3, SMTT(30) DEF Untouched
  <2> QED BY <2>3, <2>4, Zenon DEF OrderInv, StaticOrder
<1>7. CASE Answered
  BY <1>1, <1>7, Zenon DEF Answered, StaticInv
<1>8. ASSUME NEW l \in Layer, NEW content \in Contents, Edit(l, content) PROVE OrderInv'
  <2>1. disk[l] \in seen[l] /\ DOMAIN seen = Layer /\ DOMAIN disk = Layer /\ content # disk[l]
    BY <1>8, Zenon DEF Edit, StaticInv
  <2>2. disk'[l] = content /\ disk[l] \in seen'[l]
    BY <1>8, <2>1, Zenon DEF Edit
  <2>3. ~Untouched'
    BY <2>1, <2>2, Zenon DEF Untouched
  <2> QED BY <2>3, ZenonT(30) DEF OrderInv, StaticOrder
<1> QED BY <1>2, <1>3, <1>4, <1>5, <1>6, <1>7, <1>8, Zenon DEF Next

\* On a disk that nobody edits during the request, StaticConfigFileHandler's
\* chain of lookups answers in the documented order: environment file,
\* environment template, base file, base template, shipped file.
THEOREM StaticOrderKept == Spec => []StaticOrder
<1>1. Init => OrderInv /\ Ranges
  BY StaticConstants DEF Init, OrderInv, StaticOrder, Served, Ranges, NoDisk, NothingSeen
<1>2. OrderInv => StaticOrder
  BY Zenon DEF OrderInv
<1>3. StaticInv /\ Ranges /\ OrderInv /\ [Next]_vars => (Ranges /\ OrderInv)'
  BY RangesStep, OrderStep, Zenon
<1> QED BY <1>1, <1>2, <1>3, StaticInvariance, PTL DEF Spec
===============================================================================
