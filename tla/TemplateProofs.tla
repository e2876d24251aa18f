--------------------------- MODULE TemplateProofs ---------------------------
(***************************************************************************)
(* What ListVariables lists and what RenderTemplate names, for any data    *)
(* directories and requests, however the templates call each other.        *)
(***************************************************************************)
EXTENDS ConfigServer, FiniteSetTheorems, TLAPS

(* Induction over positions.  A position in a walk of the templates has a   *)
(* depth, the calls that may still be followed, and a place in a body.      *)

\* A set of naturals has a least element: induction over the naturals, stated
\* for sets.
LEMMA LeastNatural ==
  ASSUME NEW T, T \subseteq Nat, T # {}
  PROVE  \E x \in T : \A y \in T : x <= y
<1>1. PICK R : R = OpToRel(<, Nat)
  BY Zenon
<1>2. IsWellFoundedOn(R, Nat)
  BY <1>1, NatLessThanWellFounded, Zenon
<1>3. \A x, y \in Nat : x < y => <<x, y>> \in R
  <2>1. R = {p \in Nat \X Nat : p[1] < p[2]}
    BY <1>1, Zenon DEF OpToRel
  <2> QED BY <2>1, Zenon
<1>4. PICK x \in T : \A y \in T : ~ (<<y, x>> \in R)
  BY <1>2, WFMin, Zenon
<1>5. ASSUME NEW y \in T PROVE x <= y
  <2>1. x \in Nat /\ y \in Nat
    BY Zenon
  <2>2. ~(y < x)
    BY <1>3, <1>4, <2>1, Zenon
  <2> QED BY <2>1, <2>2
<1> QED BY <1>5, Zenon

\* The order in which a walk goes on: fewer calls left to follow, or as many and
\* an earlier node.
Below(y, x) == y.depth < x.depth \/ (y.depth = x.depth /\ y.pos < x.pos)
Ranked(D) == \A x \in D : x.depth \in Nat /\ x.pos \in Nat

\* A set of positions has one that no other is below.
LEMMA LeastPosition ==
  ASSUME NEW T, Ranked(T), T # {}
  PROVE  \E x \in T : \A y \in T : ~Below(y, x)
<1>1. PICK d \in {x.depth : x \in T} : \A e \in {x.depth : x \in T} : d <= e
  <2>1. {x.depth : x \in T} \subseteq Nat /\ {x.depth : x \in T} # {}
    BY Zenon DEF Ranked
  <2> QED BY <2>1, LeastNatural, Zenon
<1>2. PICK U : U = {x \in T : x.depth = d}
  BY Zenon
<1>3. U # {}
  BY <1>1, <1>2, Zenon
<1>4. PICK i \in {x.pos : x \in U} : \A j \in {x.pos : x \in U} : i <= j
  <2>1. {x.pos : x \in U} \subseteq Nat /\ {x.pos : x \in U} # {}
    BY <1>2, <1>3, Zenon DEF Ranked
  <2> QED BY <2>1, LeastNatural, Zenon
<1>5. PICK x \in U : x.pos = i
  BY <1>4, Zenon
<1>6. ASSUME NEW y \in T, Below(y, x) PROVE FALSE
  <2>1. y.depth \in Nat /\ x.depth \in Nat /\ y.pos \in Nat /\ x.pos \in Nat /\ x.depth = d
    BY <1>2, <1>5, Zenon DEF Ranked
  <2>2. d <= y.depth
    BY <1>1, Zenon
  <2>3. y.depth = d /\ y.pos < x.pos
    BY <1>6, <2>1, <2>2 DEF Below
  <2>4. i <= y.pos
    BY <1>2, <1>4, <2>3, Zenon
  <2> QED BY <1>5, <2>1, <2>3, <2>4
<1> QED BY <1>2, <1>5, <1>6, Zenon

\* Below is a strict order.
LEMMA BelowOrder ==
  ASSUME NEW D, Ranked(D), NEW x \in D, NEW y \in D, NEW z \in D
  PROVE  /\ ~Below(x, x)
         /\ Below(x, y) /\ Below(y, z) => Below(x, z)
BY DEF Below, Ranked

\* Induction over positions.
LEMMA PositionInduction ==
  ASSUME NEW D, Ranked(D), NEW P,
         \A c \in D : (\A y \in D : Below(y, c) => y \in P) => c \in P
  PROVE  D \subseteq P
<1>1. SUFFICES ASSUME D \ P # {} PROVE FALSE
  BY Zenon
<1>2. Ranked(D \ P)
  BY Zenon DEF Ranked
<1>3. PICK c \in D \ P : \A y \in D \ P : ~Below(y, c)
  BY <1>1, <1>2, LeastPosition, Zenon
<1> QED BY <1>3, Zenon

\* A recursive function whose value depends only on what is below its argument
\* exists.  G[x][f] is the right-hand side of its equation.
Rule(D, S, G) ==
  /\ Ranked(D) /\ S # {} /\ G \in [D -> [[D -> S] -> S]]
  /\ \A x \in D : \A g, h \in [D -> S] :
       (\A y \in D : Below(y, x) => g[y] = h[y]) => G[x][g] = G[x][h]

Solves(f, D, S, G) == f \in [D -> S] /\ \A x \in D : f[x] = G[x][f]

\* A rule that looks only at lower positions has a solution.
LEMMA Recursion ==
  ASSUME NEW D, NEW S, NEW G, Rule(D, S, G)
  PROVE  \E f : Solves(f, D, S, G)
<1> SUFFICES \E f \in [D -> S] : \A x \in D : f[x] = G[x][f]
  BY Zenon DEF Solves
<1> USE DEF Rule
<1> DEFINE F == [D -> S]
           Sat(g, x) == \A y \in D : y = x \/ Below(y, x) => g[y] = G[y][g]
<1>1. ASSUME NEW x \in D, NEW y \in D, NEW g, Sat(g, x), Below(y, x) PROVE Sat(g, y)
  <2>1. ASSUME NEW z \in D, z = y \/ Below(z, y) PROVE z = x \/ Below(z, x)
    BY <1>1, <2>1, BelowOrder, Zenon
  <2> QED BY <1>1, <2>1, Zenon
<1> HIDE DEF F, Sat
<1>2. \A x \in D : \A g, h \in F : Sat(g, x) /\ Sat(h, x) => g[x] = h[x]
  <2> DEFINE T == {x \in D : \E g, h \in F : Sat(g, x) /\ Sat(h, x) /\ g[x] # h[x]}
  <2>1. SUFFICES ASSUME T # {} PROVE FALSE
    BY Zenon
  <2>2. PICK x \in T : \A y \in T : ~Below(y, x)
    <3>1. Ranked(T)
      BY Zenon DEF Ranked
    <3> QED BY <2>1, <3>1, LeastPosition, Zenon
  <2>3. PICK g \in F, h \in F : Sat(g, x) /\ Sat(h, x) /\ g[x] # h[x]
    BY Zenon
  <2>4. ASSUME NEW y \in D, Below(y, x) PROVE g[y] = h[y]
    <3>1. Sat(g, y) /\ Sat(h, y)
      BY <1>1, <2>3, <2>4, Zenon
    <3> QED BY <2>2, <2>4, <3>1, Zenon
  <2>5. G[x][g] = G[x][h]
    BY <2>4, Zenon DEF F
  <2> QED BY <2>3, <2>5, Zenon DEF Sat
<1>3. PICK s : s \in S
  BY Zenon
<1> DEFINE Good(x) == \E g \in F : Sat(g, x)
           c(x) == CHOOSE g \in F : Sat(g, x)
           f == [x \in D |-> IF Good(x) THEN c(x)[x] ELSE s]
<1>4. \A x \in D : Good(x) => c(x) \in F /\ Sat(c(x), x)
  BY Zenon
<1>5. f \in F
  BY <1>3, <1>4, Zenon DEF F
<1> HIDE DEF c
<1>6. ASSUME NEW x \in D, Good(x) PROVE f[x] = G[x][f]
  <2>1. c(x) \in F /\ Sat(c(x), x) /\ f[x] = c(x)[x]
    BY <1>4, <1>6, Zenon
  <2>2. ASSUME NEW y \in D, Below(y, x) PROVE f[y] = c(x)[y]
    <3>1. Sat(c(x), y)
      BY <1>1, <2>1, <2>2, Zenon
    <3>2. Good(y)
      BY <2>1, <3>1, Zenon
    <3>3. c(y) \in F /\ Sat(c(y), y) /\ f[y] = c(y)[y]
      BY <1>4, <3>2, Zenon
    <3> QED BY <1>2, <2>1, <3>1, <3>3, Zenon
  <2>3. G[x][f] = G[x][c(x)]
    BY <1>5, <2>1, <2>2, ZenonT(30) DEF F
  <2>4. c(x)[x] = G[x][c(x)]
    BY <2>1, Zenon DEF Sat
  <2> QED BY <2>1, <2>3, <2>4, Zenon
<1> HIDE DEF Good, f
<1>7. \A x \in D : Good(x)
  <2> DEFINE T == {x \in D : ~Good(x)}
  <2>1. SUFFICES ASSUME T # {} PROVE FALSE
    BY Zenon
  <2>2. PICK x \in T : \A y \in T : ~Below(y, x)
    <3>1. Ranked(T)
      BY Zenon DEF Ranked
    <3> QED BY <2>1, <3>1, LeastPosition, Zenon
  <2>3. PICK g : g = [f EXCEPT ![x] = G[x][f]]
    BY Zenon
  <2>4. /\ g \in F /\ g[x] = G[x][f]
        /\ \A y \in D : y # x => g[y] = f[y]
    <3>1. G[x][f] \in S
      BY <1>5, Zenon DEF F
    <3> QED BY <1>5, <2>3, <3>1, Zenon DEF F
  <2>5. ASSUME NEW y \in D, y = x \/ Below(y, x) PROVE g[y] = G[y][g]
    <3>1. ASSUME NEW z \in D, Below(z, y) PROVE g[z] = f[z]
      <4>1. z # x
        BY <2>5, <3>1, BelowOrder, Zenon
      <4> QED BY <2>4, <4>1, Zenon
    <3>2. G[y][g] = G[y][f]
      BY <1>5, <2>4, <3>1, Zenon DEF F
    <3>3. CASE y = x
      BY <2>4, <3>2, <3>3, Zenon
    <3>4. CASE Below(y, x)
      <4>1. Good(y) /\ y # x
        BY <2>2, <3>4, BelowOrder, Zenon
      <4> QED BY <1>6, <2>4, <3>2, <4>1, Zenon
    <3> QED BY <2>5, <3>3, <3>4, Zenon
  <2>6. Sat(g, x)
    BY <2>5, Zenon DEF Sat
  <2> QED BY <2>4, <2>6, Zenon DEF Good
<1> QED BY <1>5, <1>6, <1>7, Zenon DEF F

\* The templates of an index are well formed, as indexed and as executed.
WellFormed(ns) == \A n \in DOMAIN ns : n \in Names /\ IsBody(ns[n].body) /\ IsBody(ns[n].tree)

\* What the execution of a template itself reads, and the templates it calls.
Reads(ns, n) ==
  IF n \in DOMAIN ns THEN {m.ident : m \in {k \in Range(ns[n].tree) : k.op \in Reading}} ELSE {}
Follows(ns, n) ==
  IF n \in DOMAIN ns THEN {m.name : m \in {k \in Range(ns[n].tree) : k.op \in Calling}} ELSE {}

\* What a node of a body is.
LEMMA NodeOf ==
  ASSUME NEW b, IsBody(b)
  PROVE  /\ Len(b) \in Nat
         /\ \A i \in Nat \ {0} : i <= Len(b) =>
              /\ i \in DOMAIN b /\ b[i] \in Range(b)
              /\ b[i].op \in {"text"} \cup Reading \cup Calling
              /\ b[i].op \in Calling => b[i].name \in Names
<1>1. Len(b) \in Nat
  BY Zenon DEF IsBody
<1>2. ASSUME NEW i \in Nat \ {0}, i <= Len(b)
      PROVE  /\ i \in DOMAIN b /\ b[i] \in Range(b)
             /\ b[i].op \in {"text"} \cup Reading \cup Calling
             /\ b[i].op \in Calling => b[i].name \in Names
  <2>1. i \in DOMAIN b
    BY <1>1, <1>2 DEF IsBody
  <2>2. b[i] \in Range(b)
    BY <2>1, Zenon DEF Range
  <2> QED BY <2>1, <2>2, Zenon DEF IsBody
<1> QED BY <1>1, <1>2, Zenon

\* What a node of an indexed template is.
LEMMA NodeAt ==
  ASSUME NEW ns, WellFormed(ns), NEW n
  PROVE  /\ BodyLen(ns, n) \in Nat
         /\ \A i \in Nat \ {0} : i <= BodyLen(ns, n) =>
              LET node == ns[n].body[i]
              IN  /\ n \in DOMAIN ns /\ i \in DOMAIN ns[n].body
                  /\ node.op \in {"text"} \cup Reading \cup Calling
                  /\ node.op \in Calling => node.name \in Names /\ node.name \in Calls(ns, n)
<1>1. CASE n \notin DOMAIN ns
  BY <1>1 DEF BodyLen
<1>2. CASE n \in DOMAIN ns
  <2>1. PICK b : b = ns[n].body
    BY Zenon
  <2>2. IsBody(b) /\ BodyLen(ns, n) = Len(b)
    BY <1>2, <2>1, Zenon DEF WellFormed, BodyLen
  <2>3. Calls(ns, n) = {m.name : m \in {k \in Range(b) : k.op \in Calling}}
    BY <1>2, <2>1, Zenon DEF Calls
  <2> QED BY <1>2, <2>1, <2>2, <2>3, NodeOf, Zenon
<1> QED BY <1>1, <1>2, Zenon

\* What a node of an executed template is.
LEMMA TreeAt ==
  ASSUME NEW ns, WellFormed(ns), NEW n
  PROVE  /\ TreeLen(ns, n) \in Nat
         /\ \A i \in Nat \ {0} : i <= TreeLen(ns, n) =>
              LET node == ns[n].tree[i]
              IN  /\ n \in DOMAIN ns /\ i \in DOMAIN ns[n].tree
                  /\ node.op \in {"text"} \cup Reading \cup Calling
                  /\ node.op \in Calling => node.name \in Names /\ node.name \in Follows(ns, n)
                  /\ node.op \in Reading => node.ident \in Reads(ns, n)
<1>1. CASE n \notin DOMAIN ns
  BY <1>1 DEF TreeLen
<1>2. CASE n \in DOMAIN ns
  <2>1. PICK b : b = ns[n].tree
    BY Zenon
  <2>2. IsBody(b) /\ TreeLen(ns, n) = Len(b)
    BY <1>2, <2>1, Zenon DEF WellFormed, TreeLen
  <2>3. /\ Follows(ns, n) = {m.name : m \in {k \in Range(b) : k.op \in Calling}}
        /\ Reads(ns, n) = {m.ident : m \in {k \in Range(b) : k.op \in Reading}}
    BY <1>2, <2>1, Zenon DEF Follows, Reads
  <2> QED BY <1>2, <2>1, <2>2, <2>3, NodeOf, Zenon
<1> QED BY <1>1, <1>2, Zenon

\* There are finitely many names, so the depth of a walk is a number.
LEMMA DepthNat == Cardinality(Names) \in Nat /\ Depth = 0 .. Cardinality(Names)
BY TemplateConstants, FS_CardinalityType, Zenon DEF Depth
-----------------------------------------------------------------------------
(* The listing of variables *)

\* The function that Collect defines, and what its values are.
Collected(ns) == CHOOSE f : f = [c \in Visits(ns) |-> collectVariables(ns, f, c)]
Listed(ns) == [vars : SUBSET UNION {Variables(ns, n) : n \in Names}, visited : SUBSET Names]

\* The call of a template from a node of another one.
Visit(ns, c, visited) ==
  LET name == ns[c.name].body[c.pos].name
  IN  [depth |-> c.depth - 1, name |-> name, pos |-> BodyLen(ns, name), visited |-> visited]
Back(c) == [c EXCEPT !.pos = @ - 1]

\* A visit is a position of a template that has a name.
LEMMA VisitsRanked ==
  ASSUME NEW ns
  PROVE  /\ Ranked(Visits(ns))
         /\ \A c \in Visits(ns) :
              c.name \in Names /\ c.visited \subseteq Names /\ c.pos <= BodyLen(ns, c.name)
BY DepthNat DEF Ranked, Visits

\* collectVariables recurs to lower positions only: the node before, and the
\* end of the called template.
LEMMA VisitsBelow ==
  ASSUME NEW ns, WellFormed(ns), NEW c \in Visits(ns), c.pos # 0, c.depth # 0
  PROVE  /\ Back(c) \in Visits(ns) /\ Below(Back(c), c)
         /\ Back(c).name = c.name /\ Back(c).visited = c.visited /\ Back(c).depth = c.depth
         /\ Back(c).pos = c.pos - 1
         /\ ns[c.name].body[c.pos].op \in Calling => \A v \in SUBSET Names :
              Visit(ns, c, v) \in Visits(ns) /\ Below(Visit(ns, c, v), c)
<1>1. /\ c \in [depth : Depth, name : Names, pos : Nat, visited : SUBSET Names]
      /\ c.depth \in Nat /\ c.pos \in Nat /\ c.pos <= BodyLen(ns, c.name)
  BY DepthNat DEF Visits
<1>2. BodyLen(ns, c.name) \in Nat
  BY NodeAt, Zenon
<1>3. /\ Back(c) \in [depth : Depth, name : Names, pos : Nat, visited : SUBSET Names]
      /\ Back(c).name = c.name /\ Back(c).visited = c.visited /\ Back(c).depth = c.depth
      /\ Back(c).pos = c.pos - 1
  BY <1>1 DEF Back
<1>4. Back(c) \in Visits(ns) /\ Below(Back(c), c)
  BY <1>1, <1>2, <1>3 DEF Visits, Below
<1>5. ASSUME ns[c.name].body[c.pos].op \in Calling, NEW v \in SUBSET Names
      PROVE  Visit(ns, c, v) \in Visits(ns) /\ Below(Visit(ns, c, v), c)
  <2>1. PICK m : m = ns[c.name].body[c.pos].name
    BY Zenon
  <2>2. m \in Names /\ BodyLen(ns, m) \in Nat
    BY <1>1, <1>5, <2>1, NodeAt, Zenon
  <2>3. PICK x : x = [depth |-> c.depth - 1, name |-> m, pos |-> BodyLen(ns, m), visited |-> v]
    BY Zenon
  <2>4. Visit(ns, c, v) = x
    BY <2>1, <2>3, Zenon DEF Visit
  <2>5. c.depth - 1 \in Depth
    BY <1>1, DepthNat
  <2>6. x \in Visits(ns) /\ Below(x, c)
    BY <1>1, <2>2, <2>3, <2>5 DEF Visits, Below
  <2> QED BY <2>4, <2>6, Zenon
<1> QED BY <1>3, <1>4, <1>5, Zenon

\* The cases of collectVariables.
Skipped(c) == c.name \in c.visited \/ c.depth = 0
Into(ns, f, c) == f[Visit(ns, c, f[Back(c)].visited)]

\* A template that was visited adds nothing; a new one starts with its own
\* variables (collectVariables).
LEMMA CollectStart ==
  ASSUME NEW ns, NEW c, Skipped(c) \/ c.pos = 0, NEW f
  PROVE  collectVariables(ns, f, c) =
           IF Skipped(c) THEN [vars |-> {}, visited |-> c.visited]
           ELSE [vars |-> Variables(ns, c.name), visited |-> c.visited \cup {c.name}]
BY Zenon DEF collectVariables, Skipped

\* A node that calls nothing adds nothing.
LEMMA CollectText ==
  ASSUME NEW ns, NEW c, ~Skipped(c), c.pos # 0, ns[c.name].body[c.pos].op \notin Calling, NEW f
  PROVE  collectVariables(ns, f, c) = f[Back(c)]
BY Zenon DEF collectVariables, Skipped, Back

\* A call adds what the called template lists and hands on its visited set.
LEMMA CollectCall ==
  ASSUME NEW ns, NEW c, ~Skipped(c), c.pos # 0, ns[c.name].body[c.pos].op \in Calling, NEW f
  PROVE  collectVariables(ns, f, c) =
           [vars |-> f[Back(c)].vars \cup Into(ns, f, c).vars, visited |-> Into(ns, f, c).visited]
BY Zenon DEF collectVariables, Skipped, Into, Visit, Back

\* One step of collectVariables stays among the variables and the names.
LEMMA ListedStep ==
  ASSUME NEW ns, WellFormed(ns), NEW f, NEW c \in Visits(ns),
         \A y \in Visits(ns) : Below(y, c) => f[y] \in Listed(ns)
  PROVE  collectVariables(ns, f, c) \in Listed(ns)
<1>1. c.name \in Names /\ c.visited \subseteq Names /\ c.pos <= BodyLen(ns, c.name)
  BY VisitsRanked, Zenon
<1>2. Variables(ns, c.name) \subseteq UNION {Variables(ns, n) : n \in Names}
  BY <1>1, Zenon
<1>3. CASE Skipped(c)
  BY <1>1, <1>3, CollectStart DEF Listed
<1>4. CASE ~Skipped(c) /\ c.pos = 0
  BY <1>1, <1>2, <1>4, CollectStart DEF Listed
<1>5. CASE ~Skipped(c) /\ c.pos # 0
  <2>1. c.depth # 0
    BY <1>5, Zenon DEF Skipped
  <2>2. f[Back(c)] \in Listed(ns)
    BY <1>5, <2>1, VisitsBelow, Zenon
  <2>3. CASE ns[c.name].body[c.pos].op \notin Calling
    BY <1>5, <2>2, <2>3, CollectText, Zenon
  <2>4. CASE ns[c.name].body[c.pos].op \in Calling
    <3>1. PICK v : v = f[Back(c)].visited
      BY Zenon
    <3>2. v \in SUBSET Names
      BY <2>2, <3>1, Zenon DEF Listed
    <3>3. Into(ns, f, c) \in Listed(ns)
      BY <1>5, <2>1, <2>4, <3>1, <3>2, VisitsBelow, Zenon DEF Into
    <3>4. \A a, b \in Listed(ns) :
            [vars |-> a.vars \cup b.vars, visited |-> b.visited] \in Listed(ns)
      BY Zenon DEF Listed
    <3>5. collectVariables(ns, f, c) =
            [vars |-> f[Back(c)].vars \cup Into(ns, f, c).vars, visited |-> Into(ns, f, c).visited]
      BY <1>5, <2>4, CollectCall, Zenon
    <3> QED BY <2>2, <3>3, <3>4, <3>5, Zenon
  <2> QED BY <2>3, <2>4, Zenon
<1> QED BY <1>3, <1>4, <1>5, Zenon

\* Collect is well defined: its function satisfies its equation.
LEMMA CollectedIs ==
  ASSUME NEW ns, WellFormed(ns)
  PROVE  /\ Collected(ns) \in [Visits(ns) -> Listed(ns)]
         /\ \A c \in Visits(ns) : Collected(ns)[c] = collectVariables(ns, Collected(ns), c)
<1>1. PICK D, S : D = Visits(ns) /\ S = Listed(ns)
  BY Zenon
<1>2. Ranked(D)
  BY <1>1, VisitsRanked, Zenon
<1>3. [vars |-> {}, visited |-> {}] \in S
  BY <1>1, Zenon DEF Listed
<1>4. PICK G : G = [c \in D |-> [f \in [D -> S] |-> collectVariables(ns, f, c)]]
  BY Zenon
<1>5. ASSUME NEW c \in D, NEW f \in [D -> S] PROVE collectVariables(ns, f, c) \in S
  BY <1>1, <1>5, ListedStep, Zenon
<1>6. /\ G \in [D -> [[D -> S] -> S]]
      /\ \A c \in D : \A f \in [D -> S] : G[c][f] = collectVariables(ns, f, c)
  BY <1>4, <1>5, Zenon
<1>7. ASSUME NEW c \in D, NEW g \in [D -> S], NEW h \in [D -> S],
             \A y \in D : Below(y, c) => g[y] = h[y]
      PROVE  collectVariables(ns, g, c) = collectVariables(ns, h, c)
  <2>1. CASE Skipped(c) \/ c.pos = 0
    <3>1. PICK r : \A f : collectVariables(ns, f, c) = r
      BY <2>1, CollectStart, Zenon
    <3> QED BY <3>1, Zenon
  <2>2. CASE ~(Skipped(c) \/ c.pos = 0)
    <3>1. c.depth # 0 /\ c.pos # 0
      BY <2>2, Zenon DEF Skipped
    <3>2. Back(c) \in D /\ Below(Back(c), c)
      BY <1>1, <3>1, VisitsBelow, Zenon
    <3>3. g[Back(c)] = h[Back(c)] /\ g[Back(c)] \in S
      BY <1>7, <3>2, Zenon
    <3>4. CASE ns[c.name].body[c.pos].op \notin Calling
      BY <2>2, <3>3, <3>4, CollectText, Zenon
    <3>5. CASE ns[c.name].body[c.pos].op \in Calling
      <4>1. PICK v : v = g[Back(c)].visited
        BY Zenon
      <4>2. v \in SUBSET Names
        BY <1>1, <3>3, <4>1, Zenon DEF Listed
      <4>3. Visit(ns, c, v) \in D /\ Below(Visit(ns, c, v), c)
        BY <1>1, <3>1, <3>5, <4>2, VisitsBelow, Zenon
      <4>4. Into(ns, g, c) = Into(ns, h, c)
        BY <1>7, <3>3, <4>1, <4>3, Zenon DEF Into
      <4>5. ASSUME NEW f
            PROVE  collectVariables(ns, f, c) =
                     [vars |-> f[Back(c)].vars \cup Into(ns, f, c).vars,
                      visited |-> Into(ns, f, c).visited]
        BY <2>2, <3>5, CollectCall, Zenon
      <4> QED BY <3>3, <4>4, <4>5, Zenon
    <3> QED BY <3>4, <3>5, Zenon
  <2> QED BY <2>1, <2>2, Zenon
<1>8. PICK f \in [D -> S] : \A c \in D : f[c] = G[c][f]
  <2>1. \A c \in D : \A g, h \in [D -> S] :
          (\A y \in D : Below(y, c) => g[y] = h[y]) => G[c][g] = G[c][h]
    <3> SUFFICES ASSUME NEW c \in D, NEW g \in [D -> S], NEW h \in [D -> S],
                        \A y \in D : Below(y, c) => g[y] = h[y]
                 PROVE  G[c][g] = G[c][h]
      BY Zenon
    <3>1. collectVariables(ns, g, c) = collectVariables(ns, h, c)
      BY <1>7, Zenon
    <3> QED BY <1>6, <3>1, Zenon
  <2>2. S # {}
    BY <1>3, Zenon
  <2>3. G \in [D -> [[D -> S] -> S]]
    BY <1>6, Zenon
  <2>4. Rule(D, S, G)
    BY <1>2, <2>1, <2>2, <2>3, Zenon DEF Rule
  <2>5. PICK f : Solves(f, D, S, G)
    BY <2>4, Recursion, Zenon
  <2> QED BY <2>5, Zenon DEF Solves
<1>9. f = [c \in D |-> collectVariables(ns, f, c)]
  BY <1>6, <1>8, Zenon
<1>10. PICK g : g = Collected(ns)
  BY Zenon
<1>11. g = [c \in D |-> collectVariables(ns, g, c)]
  BY <1>1, <1>9, <1>10, Zenon DEF Collected
<1>12. \A c \in D : g[c] = collectVariables(ns, g, c)
  BY <1>11, Zenon
<1>13. ASSUME NEW T, T = {c \in D : g[c] \notin S}, T # {} PROVE FALSE
  <2>1. Ranked(T)
    BY <1>2, <1>13, Zenon DEF Ranked
  <2>2. PICK c \in T : \A y \in T : ~Below(y, c)
    BY <1>13, <2>1, LeastPosition, Zenon
  <2>3. \A y \in D : Below(y, c) => g[y] \in S
    BY <1>13, <2>2, Zenon
  <2>4. g[c] \in S
    BY <1>1, <1>12, <1>13, <2>3, ListedStep
  <2> QED BY <1>13, <2>4, Zenon
<1>14. g \in [D -> S]
  BY <1>11, <1>13, ZenonT(30)
<1> QED BY <1>1, <1>10, <1>12, <1>14, Zenon

\* A set of templates that call no others.
Closed(ns, R) == R \in SUBSET Names /\ \A k \in R : Calls(ns, k) \subseteq R

\* What a visit adds stays among the templates it can reach.
Within(ns, R, c, r) ==
  r.visited \subseteq c.visited \cup R /\ r.vars \subseteq UNION {Variables(ns, n) : n \in R}

\* One step of collectVariables stays within a set of templates closed under calls.
LEMMA WithinStep ==
  ASSUME NEW ns, WellFormed(ns), NEW R, Closed(ns, R), NEW f, NEW c \in Visits(ns), c.name \in R,
         f \in [Visits(ns) -> Listed(ns)],
         \A y \in Visits(ns) : Below(y, c) /\ y.name \in R => Within(ns, R, y, f[y])
  PROVE  Within(ns, R, c, collectVariables(ns, f, c))
<1>1. Variables(ns, c.name) \subseteq UNION {Variables(ns, n) : n \in R}
  BY Zenon
<1>2. CASE Skipped(c)
  BY <1>2, CollectStart DEF Within
<1>3. CASE ~Skipped(c) /\ c.pos = 0
  BY <1>1, <1>3, CollectStart DEF Within
<1>4. CASE ~Skipped(c) /\ c.pos # 0
  <2>1. c.depth # 0 /\ c.pos # 0
    BY <1>4, Zenon DEF Skipped
  <2>2. Within(ns, R, c, f[Back(c)])
    BY <2>1, VisitsBelow DEF Within
  <2>3. CASE ns[c.name].body[c.pos].op \notin Calling
    BY <1>4, <2>2, <2>3, CollectText, ZenonT(30)
  <2>4. CASE ns[c.name].body[c.pos].op \in Calling
    <3>1. PICK v : v = f[Back(c)].visited
      BY Zenon
    <3>2. v \in SUBSET Names
      BY <2>1, <3>1, VisitsBelow, Zenon DEF Listed
    <3>3. PICK y : y = Visit(ns, c, v)
      BY Zenon
    <3>4. y \in Visits(ns) /\ Below(y, c)
      BY <2>1, <2>4, <3>2, <3>3, VisitsBelow, Zenon
    <3>5. y.name \in R /\ y.visited = v
      <4>1. y.name = ns[c.name].body[c.pos].name /\ y.visited = v
        BY <3>3, Zenon DEF Visit
      <4>2. ns[c.name].body[c.pos].name \in Calls(ns, c.name)
        <5>1. c.name \in Names /\ c.pos <= BodyLen(ns, c.name) /\ c.pos \in Nat \ {0}
          BY <2>1, VisitsRanked, Zenon DEF Ranked
        <5> QED BY <2>4, <5>1, NodeAt, Zenon
      <4> QED BY <4>1, <4>2, Zenon DEF Closed
    <3>6. Within(ns, R, y, f[y]) /\ Into(ns, f, c) = f[y]
      BY <3>1, <3>3, <3>4, <3>5, Zenon DEF Into
    <3>7. collectVariables(ns, f, c) =
            [vars |-> f[Back(c)].vars \cup f[y].vars, visited |-> f[y].visited]
      BY <1>4, <2>4, <3>6, CollectCall, Zenon
    <3> QED BY <2>2, <3>1, <3>5, <3>6, <3>7 DEF Within
  <2> QED BY <2>3, <2>4, Zenon
<1> QED BY <1>2, <1>3, <1>4, Zenon

\* The listing of a template stays within any closed set that has it.
LEMMA CollectedWithin ==
  ASSUME NEW ns, WellFormed(ns), NEW R, Closed(ns, R)
  PROVE  \A c \in Visits(ns) : c.name \in R => Within(ns, R, c, Collected(ns)[c])
<1>1. PICK f : f = Collected(ns)
  BY Zenon
<1>2. /\ f \in [Visits(ns) -> Listed(ns)]
      /\ \A c \in Visits(ns) : f[c] = collectVariables(ns, f, c)
  BY <1>1, CollectedIs, Zenon
<1>3. PICK P : P = {c \in Visits(ns) : c.name \in R => Within(ns, R, c, f[c])}
  BY Zenon
<1>4. ASSUME NEW c \in Visits(ns), \A y \in Visits(ns) : Below(y, c) => y \in P
      PROVE  c \in P
  <2>1. \A y \in Visits(ns) : Below(y, c) /\ y.name \in R => Within(ns, R, y, f[y])
    BY <1>3, <1>4, Zenon
  <2>2. c.name \in R => Within(ns, R, c, collectVariables(ns, f, c))
    BY <1>2, <2>1, WithinStep, Zenon
  <2> QED BY <1>2, <1>3, <2>2, Zenon
<1>5. Visits(ns) \subseteq P
  BY <1>4, VisitsRanked, PositionInduction, Zenon
<1> QED BY <1>1, <1>3, <1>5, Zenon

\* The names that the first pos nodes of a template call.
Called(ns, c) == {ns[c.name].body[i].name :
                    i \in {j \in Nat \ {0} : j <= c.pos /\ ns[c.name].body[j].op \in Calling}}

\* Everything that a template needs is in the result.
Explored(ns, m, r) == Variables(ns, m) \subseteq r.vars /\ Calls(ns, m) \subseteq r.visited

\* What a visit with enough depth left has seen when it returns.
Thorough(ns, c, r) ==
  Cardinality(Names \ c.visited) <= c.depth =>
    /\ c.visited \cup {c.name} \subseteq r.visited
    /\ c.name \notin c.visited =>
         Variables(ns, c.name) \subseteq r.vars /\ Called(ns, c) \subseteq r.visited
    /\ \A m \in r.visited \ (c.visited \cup {c.name}) : Explored(ns, m, r)

\* Depth is enough as long as it is one for each template not yet visited.
LEMMA DepthLeft ==
  ASSUME NEW V, NEW W, W \subseteq Names, NEW n \in Names \ V, V \cup {n} \subseteq W,
         NEW d \in Nat, Cardinality(Names \ V) <= d
  PROVE  d # 0 /\ Cardinality(Names \ W) <= d - 1
<1>1. IsFiniteSet(Names \ V) /\ IsFiniteSet((Names \ V) \ {n})
  BY TemplateConstants, FS_Subset, Zenon
<1>2. Cardinality((Names \ V) \ {n}) = Cardinality(Names \ V) - 1
  BY <1>1, FS_RemoveElement, Zenon
<1>3. Names \ W \subseteq (Names \ V) \ {n}
  BY Zenon
<1>4. Cardinality(Names \ W) <= Cardinality((Names \ V) \ {n})
  BY <1>1, <1>3, FS_Subset, Zenon
<1>5. /\ Cardinality(Names \ W) \in Nat /\ Cardinality(Names \ V) \in Nat
      /\ Cardinality((Names \ V) \ {n}) \in Nat
  BY <1>1, <1>3, FS_Subset, FS_CardinalityType, Zenon
<1> QED BY <1>2, <1>4, <1>5

\* The calls of a whole template, and of one node more.
LEMMA CalledSteps ==
  ASSUME NEW ns, WellFormed(ns), NEW c \in Visits(ns)
  PROVE  /\ c.pos = 0 => Called(ns, c) = {}
         /\ c.pos = BodyLen(ns, c.name) => Calls(ns, c.name) \subseteq Called(ns, c)
         /\ c.pos # 0 =>
              Called(ns, c) \subseteq Called(ns, Back(c)) \cup
                {n \in {ns[c.name].body[c.pos].name} : ns[c.name].body[c.pos].op \in Calling}
<1>1. c.pos \in Nat /\ c.name \in Names /\ c.pos <= BodyLen(ns, c.name)
  BY VisitsRanked, Zenon DEF Ranked
<1>2. c.pos = 0 => Called(ns, c) = {}
  BY <1>1 DEF Called
<1>3. ASSUME c.pos = BodyLen(ns, c.name), NEW n \in Calls(ns, c.name)
      PROVE  n \in Called(ns, c)
  <2>1. PICK b : b = ns[c.name].body
    BY Zenon
  <2>2. c.name \in DOMAIN ns /\ BodyLen(ns, c.name) = Len(b) /\ IsBody(b)
    BY <1>3, <2>1, Zenon DEF Calls, BodyLen, WellFormed
  <2>3. PICK m \in Range(b) : m.op \in Calling /\ m.name = n
    BY <1>3, <2>1, <2>2, Zenon DEF Calls
  <2>4. PICK i \in DOMAIN b : b[i] = m
    BY <2>3, Zenon DEF Range
  <2>5. i \in Nat \ {0} /\ i <= Len(b)
    BY <2>2, <2>4 DEF IsBody
  <2> QED BY <1>3, <2>1, <2>2, <2>3, <2>4, <2>5, Zenon DEF Called
<1>4. ASSUME c.pos # 0, NEW n \in Called(ns, c),
             ~(n = ns[c.name].body[c.pos].name /\ ns[c.name].body[c.pos].op \in Calling)
      PROVE  n \in Called(ns, Back(c))
  <2>1. PICK i \in Nat \ {0} : /\ i <= c.pos /\ ns[c.name].body[i].op \in Calling
                               /\ n = ns[c.name].body[i].name
    BY <1>4, Zenon DEF Called
  <2>2. i # c.pos
    BY <1>4, <2>1, Zenon
  <2>3. i <= c.pos - 1
    BY <1>1, <2>1, <2>2
  <2>4. Back(c).name = c.name /\ Back(c).pos = c.pos - 1
    BY Zenon DEF Back, Visits
  <2> QED BY <2>1, <2>3, <2>4, Zenon DEF Called
<1> QED BY <1>2, <1>3, <1>4, Zenon

\* A call after a thorough walk, into a thorough one, is thorough: the visited
\* set only grows, and the depth that is left suffices for the rest.
LEMMA ThoroughCall ==
  ASSUME NEW ns, WellFormed(ns), NEW c \in Visits(ns), NEW y \in Visits(ns), c.pos # 0,
         NEW a \in Listed(ns), NEW b \in Listed(ns),
         c.name \notin c.visited, Cardinality(Names \ c.visited) <= c.depth,
         Thorough(ns, Back(c), a), Thorough(ns, y, b),
         y.name = ns[c.name].body[c.pos].name, y.visited = a.visited,
         y.depth = c.depth - 1, y.pos = BodyLen(ns, y.name)
  PROVE  Thorough(ns, c, [vars |-> a.vars \cup b.vars, visited |-> b.visited])
<1>1. /\ c.name \in Names /\ c.depth \in Nat /\ a.visited \subseteq Names
      /\ Back(c).name = c.name /\ Back(c).visited = c.visited /\ Back(c).depth = c.depth
  BY VisitsRanked, Zenon DEF Ranked, Listed, Back, Visits
<1>2. /\ c.visited \cup {c.name} \subseteq a.visited
      /\ Variables(ns, c.name) \subseteq a.vars /\ Called(ns, Back(c)) \subseteq a.visited
      /\ \A m \in a.visited \ (c.visited \cup {c.name}) : Explored(ns, m, a)
  BY <1>1, ZenonT(30) DEF Thorough
<1>3. Cardinality(Names \ a.visited) <= c.depth - 1
  BY <1>1, <1>2, DepthLeft, Zenon
<1>4. /\ a.visited \cup {y.name} \subseteq b.visited
      /\ y.name \notin a.visited =>
           Variables(ns, y.name) \subseteq b.vars /\ Called(ns, y) \subseteq b.visited
      /\ \A m \in b.visited \ (a.visited \cup {y.name}) : Explored(ns, m, b)
  BY <1>3, ZenonT(30) DEF Thorough
<1>5. PICK r : r = [vars |-> a.vars \cup b.vars, visited |-> b.visited]
  BY Zenon
<1>6. r.vars = a.vars \cup b.vars /\ r.visited = b.visited
  BY <1>5, Zenon
<1>7. c.visited \cup {c.name} \subseteq r.visited /\ Variables(ns, c.name) \subseteq r.vars
  BY <1>2, <1>4, <1>6, ZenonT(30)
<1>8. Called(ns, c) \subseteq r.visited
  <2>1. Called(ns, c) \subseteq Called(ns, Back(c)) \cup {y.name}
    BY CalledSteps, ZenonT(30)
  <2> QED BY <1>2, <1>4, <1>6, <2>1, ZenonT(30)
<1>9. ASSUME NEW m \in r.visited \ (c.visited \cup {c.name}) PROVE Explored(ns, m, r)
  <2>1. CASE m \in a.visited
    BY <1>2, <1>4, <1>6, <1>9, <2>1, ZenonT(30) DEF Explored
  <2>2. CASE m \notin a.visited /\ m # y.name
    BY <1>4, <1>6, <1>9, <2>2, ZenonT(30) DEF Explored
  <2>3. CASE m \notin a.visited /\ m = y.name
    <3>1. Calls(ns, y.name) \subseteq Called(ns, y)
      BY CalledSteps, Zenon
    <3> QED BY <1>4, <1>6, <2>3, <3>1, ZenonT(30) DEF Explored
  <2> QED BY <2>1, <2>2, <2>3, Zenon
<1> QED BY <1>5, <1>7, <1>8, <1>9, Zenon DEF Thorough

\* One step of collectVariables is thorough if those below it are.
LEMMA ThoroughStep ==
  ASSUME NEW ns, WellFormed(ns), NEW f \in [Visits(ns) -> Listed(ns)], NEW c \in Visits(ns),
         \A y \in Visits(ns) : Below(y, c) => Thorough(ns, y, f[y])
  PROVE  Thorough(ns, c, collectVariables(ns, f, c))
<1>1. SUFFICES ASSUME Cardinality(Names \ c.visited) <= c.depth
               PROVE  Thorough(ns, c, collectVariables(ns, f, c))
  BY Zenon DEF Thorough
<1>2. c.name \in Names /\ c.depth \in Nat /\ c.pos \in Nat /\ c.visited \subseteq Names
  BY VisitsRanked, Zenon DEF Ranked
<1>3. c.name \notin c.visited => c.depth # 0
  <2>1. c.name \notin c.visited => c.visited \cup {c.name} \subseteq Names /\ c.name \in Names \ c.visited
    BY <1>2, Zenon
  <2> QED BY <1>1, <1>2, <2>1, DepthLeft, ZenonT(30)
<1>4. CASE c.name \in c.visited
  <2>1. collectVariables(ns, f, c) = [vars |-> {}, visited |-> c.visited]
    BY <1>4, CollectStart, Zenon DEF Skipped
  <2> QED BY <1>4, <2>1 DEF Thorough
<1>5. CASE c.name \notin c.visited /\ c.pos = 0
  <2>1. collectVariables(ns, f, c) = [vars |-> Variables(ns, c.name), visited |-> c.visited \cup {c.name}]
    BY <1>3, <1>5, CollectStart, Zenon DEF Skipped
  <2>2. Called(ns, c) = {}
    BY <1>5, CalledSteps, Zenon
  <2> QED BY <1>5, <2>1, <2>2 DEF Thorough
<1>6. CASE c.name \notin c.visited /\ c.pos # 0
  <2>1. c.depth # 0 /\ ~Skipped(c)
    BY <1>3, <1>6, Zenon DEF Skipped
  <2>2. PICK a : a = f[Back(c)]
    BY Zenon
  <2>3. a \in Listed(ns) /\ Thorough(ns, Back(c), a)
    BY <1>6, <2>1, <2>2, VisitsBelow, Zenon
  <2>4. CASE ns[c.name].body[c.pos].op \notin Calling
    <3>1. collectVariables(ns, f, c) = a
      BY <1>6, <2>1, <2>2, <2>4, CollectText, Zenon
    <3>2. Called(ns, c) \subseteq Called(ns, Back(c))
      BY <1>6, <2>4, CalledSteps, Zenon
    <3>3. Back(c).name = c.name /\ Back(c).visited = c.visited /\ Back(c).depth = c.depth
      BY <1>6, <2>1, VisitsBelow, Zenon
    <3> QED BY <2>3, <3>1, <3>2, <3>3, Zenon DEF Thorough
  <2>5. CASE ns[c.name].body[c.pos].op \in Calling
    <3>1. PICK y : y = Visit(ns, c, a.visited)
      BY Zenon
    <3>2. /\ y.name = ns[c.name].body[c.pos].name /\ y.visited = a.visited
          /\ y.depth = c.depth - 1 /\ y.pos = BodyLen(ns, y.name)
      BY <3>1, Zenon DEF Visit
    <3>3. y \in Visits(ns) /\ Below(y, c)
      <4>1. a.visited \in SUBSET Names
        BY <2>3, Zenon DEF Listed
      <4> QED BY <1>6, <2>1, <2>5, <3>1, <4>1, VisitsBelow, Zenon
    <3>4. f[y] \in Listed(ns) /\ Thorough(ns, y, f[y])
      BY <3>3, Zenon
    <3>5. collectVariables(ns, f, c) = [vars |-> a.vars \cup f[y].vars, visited |-> f[y].visited]
      <4>1. Into(ns, f, c) = f[y]
        BY <2>2, <3>1, Zenon DEF Into
      <4> QED BY <1>6, <2>1, <2>2, <2>5, <4>1, CollectCall, Zenon
    <3>6. Thorough(ns, c, [vars |-> a.vars \cup f[y].vars, visited |-> f[y].visited])
      <4>1. PICK b : b = f[y]
        BY Zenon
      <4>2. b \in Listed(ns) /\ Thorough(ns, y, b)
        BY <3>4, <4>1, Zenon
      <4>3. Thorough(ns, c, [vars |-> a.vars \cup b.vars, visited |-> b.visited])
        BY <1>1, <1>6, <2>3, <3>2, <3>3, <4>2, ThoroughCall, ZenonT(30)
      <4> QED BY <4>1, <4>3, Zenon
    <3> QED BY <3>5, <3>6, Zenon
  <2> QED BY <2>4, <2>5, Zenon
<1> QED BY <1>4, <1>5, <1>6, Zenon

\* Every walk of collectVariables with enough depth is thorough.
LEMMA CollectedThorough ==
  ASSUME NEW ns, WellFormed(ns)
  PROVE  \A c \in Visits(ns) : Thorough(ns, c, Collected(ns)[c])
<1>1. PICK f : f = Collected(ns)
  BY Zenon
<1>2. /\ f \in [Visits(ns) -> Listed(ns)]
      /\ \A c \in Visits(ns) : f[c] = collectVariables(ns, f, c)
  BY <1>1, CollectedIs, Zenon
<1>3. PICK P : P = {c \in Visits(ns) : Thorough(ns, c, f[c])}
  BY Zenon
<1>4. ASSUME NEW c \in Visits(ns), \A y \in Visits(ns) : Below(y, c) => y \in P
      PROVE  c \in P
  <2>1. Thorough(ns, c, collectVariables(ns, f, c))
    BY <1>2, <1>3, <1>4, ThoroughStep, Zenon
  <2> QED BY <1>2, <1>3, <2>1, Zenon
<1>5. Visits(ns) \subseteq P
  BY <1>4, VisitsRanked, PositionInduction, Zenon
<1> QED BY <1>1, <1>3, <1>5, Zenon

\* The templates that n reaches are closed and n is one of them.
LEMMA ReachableClosed ==
  ASSUME NEW ns, WellFormed(ns), NEW n \in Names
  PROVE  /\ n \in Reachable(ns, n) /\ Closed(ns, Reachable(ns, n))
         /\ \A R : Closed(ns, R) /\ n \in R => Reachable(ns, n) \subseteq R
<1>1. \A k \in Names : Calls(ns, k) \subseteq Names
  BY Zenon DEF WellFormed, Calls, IsBody, Range
<1>2. \A k \in Reachable(ns, n) : Calls(ns, k) \subseteq Reachable(ns, n)
  BY <1>1, Zenon DEF Reachable
<1> QED BY <1>2, Zenon DEF Reachable, Closed

\* The listing is what the templates that n reaches read.
LEMMA CollectIsReachable ==
  ASSUME NEW ns, WellFormed(ns), NEW n \in Names
  PROVE  Collect(ns, n) = UNION {Variables(ns, m) : m \in Reachable(ns, n)}
<1>1. PICK c : c = [depth |-> Cardinality(Names), name |-> n, pos |-> BodyLen(ns, n),
                    visited |-> {}]
  BY ZenonT(30)
<1>2. PICK r : r = Collected(ns)[c]
  BY Zenon
<1>3. Collect(ns, n) = r.vars
  BY <1>1, <1>2, Zenon DEF Collect, Collected
<1>4. c \in Visits(ns)
  <2>1. Cardinality(Names) \in Depth /\ BodyLen(ns, n) \in Nat
    BY DepthNat, NodeAt
  <2> QED BY <1>1, <2>1 DEF Visits
<1>5. c.depth = Cardinality(Names) /\ c.name = n /\ c.visited = {} /\ c.pos = BodyLen(ns, n)
  BY <1>1, Zenon
<1>6. r.vars \subseteq UNION {Variables(ns, m) : m \in Reachable(ns, n)}
  <2>1. Within(ns, Reachable(ns, n), c, r)
    BY <1>2, <1>4, <1>5, ReachableClosed, CollectedWithin, Zenon
  <2> QED BY <2>1, Zenon DEF Within
<1>7. Cardinality(Names \ c.visited) <= c.depth
  BY <1>5, DepthNat
<1>8. /\ n \in r.visited /\ Variables(ns, n) \subseteq r.vars /\ Called(ns, c) \subseteq r.visited
      /\ \A m \in r.visited \ {n} : Explored(ns, m, r)
  <2>1. Thorough(ns, c, r)
    BY <1>2, <1>4, CollectedThorough, Zenon
  <2> QED BY <1>5, <1>7, <2>1, Zenon DEF Thorough
<1>9. \A m \in r.visited : Explored(ns, m, r)
  <2>1. Calls(ns, n) \subseteq Called(ns, c)
    BY <1>4, <1>5, CalledSteps, Zenon
  <2> QED BY <1>8, <2>1, Zenon DEF Explored
<1>10. r.visited \in SUBSET Names
  BY <1>2, <1>4, CollectedIs, Zenon DEF Listed
<1>11. Reachable(ns, n) \subseteq r.visited
  BY <1>8, <1>9, <1>10, ReachableClosed DEF Closed, Explored
<1> QED BY <1>3, <1>6, <1>9, <1>11, Zenon DEF Explored

-----------------------------------------------------------------------------
(* The execution of templates *)

\* The function that Executed defines, and what its values are.
Execution(ns, params) == CHOOSE f : f = [c \in Frames(ns) |-> ExecutedTo(ns, params, f, c)]

Nodes(ns) == UNION {Range(ns[n].tree) : n \in DOMAIN ns}
Marks(ns, params) ==
  {NoValue} \cup {k.text : k \in Nodes(ns)} \cup (UNION {params[p].out : p \in DOMAIN params})
Outcomes(ns, params) ==
  [out : SUBSET Marks(ns, params), lost : SUBSET {k.ident : k \in Nodes(ns)}, failed : BOOLEAN]

\* The frame of the template that a node calls.
Enter(ns, c) ==
  LET name == ns[c.name].tree[c.pos].name
  IN  [depth |-> c.depth - 1, name |-> name, pos |-> TreeLen(ns, name)]

\* A frame of an execution is a position of a template that has a name.
LEMMA FramesRanked ==
  ASSUME NEW ns
  PROVE  /\ Ranked(Frames(ns))
         /\ \A c \in Frames(ns) : c.name \in Names /\ c.pos <= TreeLen(ns, c.name)
BY DepthNat DEF Ranked, Frames

\* An execution depends on lower frames only.
LEMMA FramesBelow ==
  ASSUME NEW ns, WellFormed(ns), NEW c \in Frames(ns), c.pos # 0, c.depth # 0
  PROVE  /\ Back(c) \in Frames(ns) /\ Below(Back(c), c) /\ Back(c).name = c.name
         /\ ns[c.name].tree[c.pos].op \in Calling =>
              Enter(ns, c) \in Frames(ns) /\ Below(Enter(ns, c), c)
<1>1. /\ c \in [depth : Depth, name : Names, pos : Nat]
      /\ c.depth \in Nat /\ c.pos \in Nat /\ c.pos <= TreeLen(ns, c.name)
  BY DepthNat DEF Frames
<1>2. TreeLen(ns, c.name) \in Nat
  BY TreeAt, Zenon
<1>3. /\ Back(c) \in [depth : Depth, name : Names, pos : Nat]
      /\ Back(c).name = c.name /\ Back(c).depth = c.depth /\ Back(c).pos = c.pos - 1
  BY <1>1 DEF Back
<1>4. Back(c) \in Frames(ns) /\ Below(Back(c), c)
  BY <1>1, <1>2, <1>3 DEF Frames, Below
<1>5. ASSUME ns[c.name].tree[c.pos].op \in Calling
      PROVE  Enter(ns, c) \in Frames(ns) /\ Below(Enter(ns, c), c)
  <2>1. PICK m : m = ns[c.name].tree[c.pos].name
    BY Zenon
  <2>2. m \in Names /\ TreeLen(ns, m) \in Nat
    BY <1>1, <1>5, <2>1, TreeAt, Zenon
  <2>3. PICK x : x = [depth |-> c.depth - 1, name |-> m, pos |-> TreeLen(ns, m)]
    BY Zenon
  <2>4. Enter(ns, c) = x
    BY <2>1, <2>3, Zenon DEF Enter
  <2>5. c.depth - 1 \in Depth
    BY <1>1, DepthNat
  <2>6. x \in Frames(ns) /\ Below(x, c)
    BY <1>1, <2>2, <2>3, <2>5 DEF Frames, Below
  <2> QED BY <2>4, <2>6, Zenon
<1> QED BY <1>3, <1>4, <1>5, Zenon

\* The node at a position, and what it reads and calls.
LEMMA FrameNode ==
  ASSUME NEW ns, WellFormed(ns), NEW c \in Frames(ns), c.pos # 0,
         NEW node, node = ns[c.name].tree[c.pos]
  PROVE  /\ node \in Nodes(ns) /\ node.op \in {"text"} \cup Reading \cup Calling
         /\ node.op \in Reading => node.ident \in Reads(ns, c.name)
         /\ node.op \in Calling => node.name \in Follows(ns, c.name)
<1>1. c.name \in Names /\ c.pos \in Nat \ {0} /\ c.pos <= TreeLen(ns, c.name)
  BY FramesRanked, Zenon DEF Ranked
<1>2. /\ c.name \in DOMAIN ns /\ c.pos \in DOMAIN ns[c.name].tree
      /\ node.op \in {"text"} \cup Reading \cup Calling
      /\ node.op \in Reading => node.ident \in Reads(ns, c.name)
      /\ node.op \in Calling => node.name \in Follows(ns, c.name)
  BY <1>1, TreeAt, Zenon
<1>3. node \in Range(ns[c.name].tree)
  BY <1>2, Zenon DEF Range
<1> QED BY <1>2, <1>3, Zenon DEF Nodes

\* What a variable evaluates to prints marks of the parameters only.
LEMMA EvalMarks ==
  ASSUME NEW ns, NEW params, NEW ident
  PROVE  Eval(params, ident).out \subseteq Marks(ns, params)
<1>1. CASE Head(ident) \notin DOMAIN params
  <2>1. Eval(params, ident).out = {NoValue}
    BY <1>1, Zenon DEF Eval, Absent
  <2>2. NoValue \in Marks(ns, params)
    BY Zenon DEF Marks
  <2> QED BY <2>1, <2>2, Zenon
<1>2. CASE Head(ident) \in DOMAIN params
  <2>1. PICK v : v = params[Head(ident)]
    BY Zenon
  <2>2. Eval(params, ident) = v \/ Eval(params, ident).out = {}
    BY <1>2, <2>1, Zenon DEF Eval
  <2>3. v.out \subseteq Marks(ns, params)
    BY <1>2, <2>1, Zenon DEF Marks
  <2> QED BY <2>2, <2>3, Zenon
<1> QED BY <1>1, <1>2, Zenon

\* What a node may add to the variables that are lost.
NodeLost(node, params) ==
  {w \in {node.ident} : node.op \in Reading /\ Eval(params, node.ident) = Absent}

\* One node adds to what is lost its own variable, if it reads an absent one, and
\* what the template it calls has lost.
LEMMA WalkNode ==
  ASSUME NEW ns, NEW params, NEW node \in Nodes(ns),
         node.op \in {"text"} \cup Reading \cup Calling,
         NEW a \in Outcomes(ns, params), NEW b, node.op \in Calling => b \in Outcomes(ns, params)
  PROVE  /\ Walk(node, params, a, b) \in Outcomes(ns, params)
         /\ Walk(node, params, a, b).lost \subseteq
              a.lost \cup NodeLost(node, params) \cup (IF node.op \in Calling THEN b.lost ELSE {})
<1>1. PICK v : v = Eval(params, node.ident)
  BY Zenon
<1>2. v.out \subseteq Marks(ns, params)
  BY <1>1, EvalMarks, Zenon
<1>3. PICK r : r = Walk(node, params, a, b)
  BY Zenon
<1>4. node.op \in {"text", "print", "root", "apply", "when", "call"}
  BY Zenon DEF Reading, Calling
<1>5. CASE r = a
  BY <1>3, <1>5, Zenon
<1>6. CASE r = Failing(a)
  BY <1>3, <1>6, ZenonT(30) DEF Failing, Outcomes
<1>7. CASE node.op = "text" /\ r = [a EXCEPT !.out = @ \cup {node.text}]
  <2>1. node.text \in Marks(ns, params)
    BY Zenon DEF Marks
  <2> QED BY <1>3, <1>7, <2>1 DEF Outcomes
<1>8. CASE node.op \in Calling /\ r = Then(a, b)
  BY <1>3, <1>8 DEF Then, Outcomes
<1>9. CASE node.op \in {"print", "root"} /\ r = [a EXCEPT !.out = @ \cup v.out,
                                                           !.lost = @ \cup {w \in {node.ident} : v = Absent}]
  <2>1. {w \in {node.ident} : v = Absent} = NodeLost(node, params)
    BY <1>1, <1>9, Zenon DEF NodeLost, Reading
  <2>2. NodeLost(node, params) \subseteq {k.ident : k \in Nodes(ns)}
    BY Zenon DEF NodeLost
  <2>3. PICK out, lost : out = v.out /\ lost = {w \in {node.ident} : v = Absent}
    BY Zenon
  <2>4. r = [a EXCEPT !.out = @ \cup out, !.lost = @ \cup lost]
    BY <1>9, <2>3, Zenon
  <2>5. /\ out \subseteq Marks(ns, params) /\ lost \subseteq {k.ident : k \in Nodes(ns)}
        /\ lost = NodeLost(node, params)
    BY <1>2, <2>1, <2>2, <2>3, Zenon
  <2>6. r \in Outcomes(ns, params) /\ r.lost = a.lost \cup lost
    BY <2>4, <2>5, Zenon DEF Outcomes
  <2> QED BY <1>3, <2>5, <2>6, Zenon
<1>10. \/ r = a \/ r = Failing(a)
       \/ node.op = "text" /\ r = [a EXCEPT !.out = @ \cup {node.text}]
       \/ node.op \in Calling /\ r = Then(a, b)
       \/ node.op \in {"print", "root"} /\ r = [a EXCEPT !.out = @ \cup v.out,
                                                           !.lost = @ \cup {w \in {node.ident} : v = Absent}]
  BY <1>1, <1>3, <1>4, Zenon DEF Walk, Calling
<1> QED BY <1>5, <1>6, <1>7, <1>8, <1>9, <1>10, Zenon

\* A node that calls nothing does not depend on another execution.
LEMMA WalkIgnores ==
  ASSUME NEW params, NEW node, node.op \in {"text"} \cup Reading \cup Calling,
         node.op \notin Calling, NEW a, NEW b, NEW d
  PROVE  Walk(node, params, a, b) = Walk(node, params, a, d)
<1>1. node.op \in {"text", "print", "root", "apply"}
  BY Zenon DEF Reading, Calling
<1> QED BY <1>1, Zenon DEF Walk

\* How an execution starts, or fails to.
LEMMA ExecStart ==
  ASSUME NEW ns, NEW params, NEW f, NEW c, c.depth = 0 \/ c.name \notin DOMAIN ns \/ c.pos = 0
  PROVE  ExecutedTo(ns, params, f, c) =
           IF c.depth = 0 \/ c.name \notin DOMAIN ns THEN Failing(Started) ELSE Started
BY Zenon DEF ExecutedTo

\* How an execution goes on after its first nodes.
LEMMA ExecNode ==
  ASSUME NEW ns, NEW params, NEW f, NEW c, c.depth # 0, c.name \in DOMAIN ns, c.pos # 0
  PROVE  ExecutedTo(ns, params, f, c) =
           Walk(ns[c.name].tree[c.pos], params, f[Back(c)], f[Enter(ns, c)])
BY ZenonT(30) DEF ExecutedTo, Back, Enter

\* One step of an execution has an outcome if the lower frames have.
LEMMA OutcomeStep ==
  ASSUME NEW ns, WellFormed(ns), NEW params, NEW f, NEW c \in Frames(ns),
         \A y \in Frames(ns) : Below(y, c) => f[y] \in Outcomes(ns, params)
  PROVE  ExecutedTo(ns, params, f, c) \in Outcomes(ns, params)
<1>1. CASE c.depth = 0 \/ c.name \notin DOMAIN ns \/ c.pos = 0
  <2>1. Started \in Outcomes(ns, params) /\ Failing(Started) \in Outcomes(ns, params)
    BY ZenonT(30) DEF Started, Failing, Outcomes
  <2> QED BY <1>1, <2>1, ExecStart, Zenon
<1>2. CASE ~(c.depth = 0 \/ c.name \notin DOMAIN ns \/ c.pos = 0)
  <2>1. PICK node : node = ns[c.name].tree[c.pos]
    BY Zenon
  <2>2. node \in Nodes(ns) /\ node.op \in {"text"} \cup Reading \cup Calling
    BY <1>2, <2>1, FrameNode, Zenon
  <2>3. f[Back(c)] \in Outcomes(ns, params)
    BY <1>2, FramesBelow, Zenon
  <2>4. node.op \in Calling => f[Enter(ns, c)] \in Outcomes(ns, params)
    BY <1>2, <2>1, FramesBelow, Zenon
  <2>5. Walk(node, params, f[Back(c)], f[Enter(ns, c)]) \in Outcomes(ns, params)
    BY <2>2, <2>3, <2>4, WalkNode, Zenon
  <2> QED BY <1>2, <2>1, <2>5, ExecNode, Zenon
<1> QED BY <1>1, <1>2, Zenon

\* One step of an execution depends on the lower frames only.
LEMMA ExecLocal ==
  ASSUME NEW ns, WellFormed(ns), NEW params, NEW g, NEW h, NEW c \in Frames(ns),
         \A y \in Frames(ns) : Below(y, c) => g[y] = h[y]
  PROVE  ExecutedTo(ns, params, g, c) = ExecutedTo(ns, params, h, c)
<1>1. CASE c.depth = 0 \/ c.name \notin DOMAIN ns \/ c.pos = 0
  <2>1. PICK r : r = IF c.depth = 0 \/ c.name \notin DOMAIN ns THEN Failing(Started) ELSE Started
    BY Zenon
  <2>2. \A f : ExecutedTo(ns, params, f, c) = r
    BY <1>1, <2>1, ExecStart, Zenon
  <2> QED BY <2>2, Zenon
<1>2. CASE ~(c.depth = 0 \/ c.name \notin DOMAIN ns \/ c.pos = 0)
  <2>1. PICK node : node = ns[c.name].tree[c.pos]
    BY Zenon
  <2>2. node.op \in {"text"} \cup Reading \cup Calling
    BY <1>2, <2>1, FrameNode, Zenon
  <2>3. g[Back(c)] = h[Back(c)]
    BY <1>2, FramesBelow, Zenon
  <2>4. node.op \in Calling => g[Enter(ns, c)] = h[Enter(ns, c)]
    BY <1>2, <2>1, FramesBelow, Zenon
  <2>5. Walk(node, params, h[Back(c)], g[Enter(ns, c)]) = Walk(node, params, h[Back(c)], h[Enter(ns, c)])
    <3>1. CASE node.op \in Calling
      BY <2>4, <3>1, Zenon
    <3>2. CASE node.op \notin Calling
      BY <2>2, <3>2, WalkIgnores, ZenonT(30)
    <3> QED BY <3>1, <3>2, Zenon
  <2>6. /\ ExecutedTo(ns, params, g, c) = Walk(node, params, g[Back(c)], g[Enter(ns, c)])
        /\ ExecutedTo(ns, params, h, c) = Walk(node, params, h[Back(c)], h[Enter(ns, c)])
    BY <1>2, <2>1, ExecNode
  <2> QED BY <2>3, <2>5, <2>6, ZenonT(30)
<1> QED BY <1>1, <1>2, Zenon

\* The execution is what its recursive definition says, in every frame.
LEMMA ExecutionIs ==
  ASSUME NEW ns, WellFormed(ns), NEW params
  PROVE  /\ Execution(ns, params) \in [Frames(ns) -> Outcomes(ns, params)]
         /\ \A c \in Frames(ns) :
              Execution(ns, params)[c] = ExecutedTo(ns, params, Execution(ns, params), c)
<1>1. PICK D, S : D = Frames(ns) /\ S = Outcomes(ns, params)
  BY Zenon
<1>2. Ranked(D)
  BY <1>1, FramesRanked, Zenon
<1>3. S # {}
  <2>1. Started \in S
    BY <1>1, Zenon DEF Outcomes, Started
  <2> QED BY <2>1, Zenon
<1>4. PICK G : G = [c \in D |-> [f \in [D -> S] |-> ExecutedTo(ns, params, f, c)]]
  BY Zenon
<1>5. ASSUME NEW c \in D, NEW f \in [D -> S] PROVE ExecutedTo(ns, params, f, c) \in S
  BY <1>1, <1>5, OutcomeStep, Zenon
<1>6. /\ G \in [D -> [[D -> S] -> S]]
      /\ \A c \in D : \A f \in [D -> S] : G[c][f] = ExecutedTo(ns, params, f, c)
  BY <1>4, <1>5, Zenon
<1>7. \A c \in D : \A g, h \in [D -> S] :
        (\A y \in D : Below(y, c) => g[y] = h[y]) => G[c][g] = G[c][h]
  <2> SUFFICES ASSUME NEW c \in D, NEW g \in [D -> S], NEW h \in [D -> S],
                      \A y \in D : Below(y, c) => g[y] = h[y]
               PROVE  G[c][g] = G[c][h]
    BY Zenon
  <2>1. ExecutedTo(ns, params, g, c) = ExecutedTo(ns, params, h, c)
    BY <1>1, ExecLocal, Zenon
  <2> QED BY <1>6, <2>1, Zenon
<1>8. PICK f : Solves(f, D, S, G)
  <2>1. G \in [D -> [[D -> S] -> S]]
    BY <1>6, Zenon
  <2>2. Rule(D, S, G)
    BY <1>2, <1>3, <1>7, <2>1, Zenon DEF Rule
  <2> QED BY <2>2, Recursion, Zenon
<1>9. f = [c \in D |-> ExecutedTo(ns, params, f, c)]
  BY <1>6, <1>8, Zenon DEF Solves
<1>10. PICK g : g = Execution(ns, params)
  BY Zenon
<1>11. g = [c \in D |-> ExecutedTo(ns, params, g, c)]
  BY <1>1, <1>9, <1>10, Zenon DEF Execution
<1>12. \A c \in D : g[c] = ExecutedTo(ns, params, g, c)
  BY <1>11, Zenon
<1>13. PICK P : P = {c \in D : g[c] \in S}
  BY Zenon
<1>14. ASSUME NEW c \in D, \A y \in D : Below(y, c) => y \in P PROVE c \in P
  <2>1. \A y \in D : Below(y, c) => g[y] \in S
    BY <1>13, <1>14, Zenon
  <2>2. ExecutedTo(ns, params, g, c) \in S
    BY <1>1, <2>1, OutcomeStep, Zenon
  <2> QED BY <1>12, <1>13, <2>2, Zenon
<1>15. D \subseteq P
  BY <1>2, <1>14, PositionInduction, Zenon
<1>16. g \in [D -> S]
  BY <1>11, <1>13, <1>15, Zenon
<1> QED BY <1>1, <1>10, <1>12, <1>16, Zenon

\* What an execution loses, the templates it can reach read and lack.
Lacking(ns, R, params) ==
  {v \in UNION {Reads(ns, n) : n \in R} : Eval(params, v) = Absent}

\* A set of templates that an execution does not leave.
Kept(ns, R) == \A k \in R : Follows(ns, k) \subseteq R

\* One step loses only absent variables of templates in such a set.
LEMMA LossStep ==
  ASSUME NEW ns, WellFormed(ns), NEW params, NEW R, Kept(ns, R),
         NEW f \in [Frames(ns) -> Outcomes(ns, params)], NEW c \in Frames(ns), c.name \in R,
         \A y \in Frames(ns) :
           Below(y, c) /\ y.name \in R => f[y].lost \subseteq Lacking(ns, R, params)
  PROVE  ExecutedTo(ns, params, f, c).lost \subseteq Lacking(ns, R, params)
<1>1. CASE c.depth = 0 \/ c.name \notin DOMAIN ns \/ c.pos = 0
  <2>1. Started.lost = {} /\ Failing(Started).lost = {}
    BY Zenon DEF Started, Failing
  <2> QED BY <1>1, <2>1, ExecStart, Zenon
<1>2. CASE ~(c.depth = 0 \/ c.name \notin DOMAIN ns \/ c.pos = 0)
  <2>1. PICK node : node = ns[c.name].tree[c.pos]
    BY Zenon
  <2>2. /\ node \in Nodes(ns) /\ node.op \in {"text"} \cup Reading \cup Calling
        /\ node.op \in Reading => node.ident \in Reads(ns, c.name)
        /\ node.op \in Calling => node.name \in Follows(ns, c.name)
    BY <1>2, <2>1, FrameNode, ZenonT(30)
  <2>3. f[Back(c)] \in Outcomes(ns, params) /\ f[Back(c)].lost \subseteq Lacking(ns, R, params)
    BY <1>2, FramesBelow, Zenon
  <2>4. node.op \in Calling => /\ f[Enter(ns, c)] \in Outcomes(ns, params)
                               /\ f[Enter(ns, c)].lost \subseteq Lacking(ns, R, params)
    <3>1. Enter(ns, c).name = node.name
      BY <2>1, Zenon DEF Enter
    <3>2. node.op \in Calling => node.name \in R
      BY <2>2, Zenon DEF Kept
    <3> QED BY <1>2, <2>1, <3>1, <3>2, FramesBelow, Zenon
  <2>5. NodeLost(node, params) \subseteq Lacking(ns, R, params)
    BY <2>2, Zenon DEF NodeLost, Lacking
  <2>6. Walk(node, params, f[Back(c)], f[Enter(ns, c)]).lost \subseteq
          f[Back(c)].lost \cup NodeLost(node, params)
            \cup (IF node.op \in Calling THEN f[Enter(ns, c)].lost ELSE {})
    BY <2>2, <2>3, <2>4, WalkNode, ZenonT(30)
  <2>7. ExecutedTo(ns, params, f, c) = Walk(node, params, f[Back(c)], f[Enter(ns, c)])
    BY <1>2, <2>1, ExecNode, Zenon
  <2> QED BY <2>3, <2>4, <2>5, <2>6, <2>7, Zenon
<1> QED BY <1>1, <1>2, Zenon

\* And so does the whole execution.
LEMMA LostIsRead ==
  ASSUME NEW ns, WellFormed(ns), NEW params, NEW n \in Names, NEW R, n \in R, Kept(ns, R)
  PROVE  Executed(ns, n, params).lost \subseteq Lacking(ns, R, params)
<1>1. PICK c : c = [depth |-> Cardinality(Names), name |-> n, pos |-> TreeLen(ns, n)]
  BY Zenon
<1>2. PICK f : f = Execution(ns, params)
  BY Zenon
<1>3. Executed(ns, n, params) = f[c]
  BY <1>1, <1>2, Zenon DEF Executed, Execution
<1>4. c \in Frames(ns) /\ c.name = n
  <2>1. Cardinality(Names) \in Depth /\ TreeLen(ns, n) \in Nat
    BY DepthNat, TreeAt
  <2> QED BY <1>1, <2>1 DEF Frames
<1>5. /\ f \in [Frames(ns) -> Outcomes(ns, params)]
      /\ \A y \in Frames(ns) : f[y] = ExecutedTo(ns, params, f, y)
  BY <1>2, ExecutionIs, Zenon
<1>8. PICK P : P = {y \in Frames(ns) : y.name \in R => f[y].lost \subseteq Lacking(ns, R, params)}
  BY ZenonT(30)
<1>9. ASSUME NEW y \in Frames(ns), \A z \in Frames(ns) : Below(z, y) => z \in P PROVE y \in P
  <2>1. \A z \in Frames(ns) :
          Below(z, y) /\ z.name \in R => f[z].lost \subseteq Lacking(ns, R, params)
    BY <1>8, <1>9, Zenon
  <2>2. y.name \in R => ExecutedTo(ns, params, f, y).lost \subseteq Lacking(ns, R, params)
    BY <1>5, <2>1, LossStep, Zenon
  <2> QED BY <1>5, <1>8, <2>2, Zenon
<1>10. Frames(ns) \subseteq P
  BY <1>9, FramesRanked, PositionInduction, Zenon
<1>11. f[c].lost \subseteq Lacking(ns, R, params)
  BY <1>4, <1>8, <1>10, Zenon
<1> QED BY <1>3, <1>11, Zenon
-----------------------------------------------------------------------------
(* The index of a server *)

\* Every index holds templates of the files, and the default one is there.
Indexed ==
  /\ dir \in DataDirs /\ Default \in DOMAIN envs
  /\ \A e \in DOMAIN envs : WellFormed(envs[e])

\* addTemplateContent keeps the bodies that it does not replace.
LEMMA AddedWellFormed ==
  ASSUME NEW ns, WellFormed(ns), NEW file, IsFile(file), NEW embedded
  PROVE  WellFormed(Added(ns, file.defs, embedded))
<1>1. PICK new : new = Added(ns, file.defs, embedded)
  BY Zenon
<1>2. /\ DOMAIN new = DOMAIN ns \cup DOMAIN file.defs
      /\ \A n \in DOMAIN file.defs :
           /\ new[n].body = file.defs[n]
           /\ new[n].tree = file.defs[n] \/ (n \in DOMAIN ns /\ new[n].tree = ns[n].tree)
      /\ \A n \in DOMAIN new \ DOMAIN file.defs : n \in DOMAIN ns /\ new[n] = ns[n]
  BY <1>1, Zenon DEF Added, AddParseTree
<1> QED BY <1>1, <1>2, Zenon DEF WellFormed, IsFile

\* So do the walks of ParseTemplates.
LEMMA ContentAdded ==
  ASSUME Indexed, NEW env, NEW file, IsFile(file), NEW embedded,
         addTemplateContent(env, file, embedded)
  PROVE  Indexed'
<1>1. CASE file.parses
  <2>1. PICK new : new = Added(checkAddEnvironment(env), file.defs, embedded)
    BY Zenon
  <2>2. WellFormed(checkAddEnvironment(env))
    BY Zenon DEF Indexed, checkAddEnvironment
  <2>3. WellFormed(new)
    BY <2>1, <2>2, AddedWellFormed, Zenon
  <2>4. /\ envs' = [e \in DOMAIN envs \cup {env} |-> IF e = env THEN new ELSE envs[e]]
        /\ dir' = dir
    BY <1>1, <2>1, Zenon DEF addTemplateContent
  <2> QED BY <2>3, <2>4, Zenon DEF Indexed
<1>2. CASE ~file.parses
  BY <1>2, Zenon DEF addTemplateContent, Indexed
<1> QED BY <1>1, <1>2, Zenon

\* Nothing else changes an index.
LEMMA IndexKept == Indexed /\ [Next]_vars => Indexed'
<1> SUFFICES ASSUME Indexed, [Next]_vars PROVE Indexed'
  BY Zenon
<1>1. ParseTemplates \/ UNCHANGED templateVars
  BY Zenon DEF Next, Load, Request, RenderScript, RefuseRequest, RefuseTemplateSource, ServeTemplate,
         StartStatic, OpenForStatus, OpenToServe, ListingFails, Answered, Edit, Failed, vars
<1>2. dir \in DataDirs
  BY Zenon DEF Indexed
<1>3. CASE ParseEmbedded
  BY <1>2, <1>3, ContentAdded, TemplateConstants, Zenon DEF ParseEmbedded
<1>4. CASE ParseDisk
  BY <1>2, <1>4, ContentAdded, TemplateConstants, Zenon DEF ParseDisk
<1>5. CASE ParseOverride
  BY <1>2, <1>5, ContentAdded, TemplateConstants, Zenon DEF ParseOverride
<1>6. CASE WalkEnds \/ UNCHANGED templateVars
  BY <1>6, Zenon DEF WalkEnds, templateVars, Indexed
<1> QED BY <1>1, <1>3, <1>4, <1>5, <1>6, Zenon DEF ParseTemplates

\* addTemplateContent: every reachable index is made of the templates of the files.
THEOREM IndexIsWellFormed == Spec => []Indexed
<1>1. Init => Indexed
  BY DEF Init, TemplatesInit, Indexed, WellFormed
<1> QED BY <1>1, IndexKept, PTL DEF Spec

\* The empty name stands for the default environment.
LEMMA EnvOfKnown ==
  ASSUME Indexed
  PROVE  /\ \A env : EnvOf(EnvOf(env)) = EnvOf(env)
         /\ \A env \in DOMAIN envs \cup {NoName} : EnvOf(env) \in DOMAIN envs
BY TemplateConstants, Zenon DEF Indexed, EnvOf

\* ListVariables returns the variables of all templates that the chosen one
\* reaches, and no others: the visited set that collectVariables shares between
\* the calls cuts off cycles and nothing else.
THEOREM ListingIsExact == Spec => []ListingExact
<1>1. Indexed => ListingExact
  <2> SUFFICES ASSUME Indexed, NEW env \in DOMAIN envs \cup {NoName}, NEW n \in Names
               PROVE  LET ns == Index(EnvOf(env))
                      IN  ListVariables(n, env) = UNION {Variables(ns, m) : m \in Reachable(ns, n)}
    BY Zenon DEF ListingExact
  <2>1. PICK ns : ns = Index(EnvOf(env))
    BY Zenon
  <2>2. WellFormed(ns)
    BY <2>1, EnvOfKnown, Zenon DEF Index, Indexed
  <2>3. Collect(ns, n) = UNION {Variables(ns, m) : m \in Reachable(ns, n)}
    BY <2>2, CollectIsReachable, Zenon
  <2>4. ListVariables(n, env) = Collect(ns, n)
    BY <2>1, Zenon DEF ListVariables
  <2> QED BY <2>1, <2>3, <2>4, Zenon
<1> QED BY <1>1, IndexIsWellFormed, PTL

\* A template that is not in the index fails (ExecuteTemplate).
LEMMA UnknownFails ==
  ASSUME NEW ns, NEW name, NEW params, name \notin DOMAIN ns
  PROVE  Execute(ns, name, params).failed
<1>1. Execute(ns, name, params) = Failing(Started)
  BY Zenon DEF Execute
<1>2. Failing(Started).failed
  BY Zenon DEF Failing, Started
<1> QED BY <1>1, <1>2, Zenon

\* installerExtra is never absent: every other parameter is the request's own.
LEMMA OwnParameter ==
  ASSUME NEW q, NEW out, NEW k \in DOMAIN WithExtra(q, out), WithExtra(q, out)[k] = Absent
  PROVE  k \in DOMAIN q.params /\ q.params[k] = Absent
<1>1. PICK x : x = IF out = {} THEN NoExtra ELSE [type |-> "text", out |-> out]
  BY Zenon
<1>2. x # Absent
  BY <1>1, Zenon DEF NoExtra, Absent
<1>3. WithExtra(q, out) = Over(Extra(x), q.params)
  BY <1>1, Zenon DEF WithExtra
<1>4. DOMAIN Extra(x) = {"installerExtra"} /\ Extra(x)["installerExtra"] = x
  BY Zenon DEF Extra
<1> QED BY <1>2, <1>3, <1>4, Zenon DEF Over

\* What an answer for want of variables is.
LEMMA MissingMeans ==
  ASSUME Indexed, NEW q, RenderTemplate(q).kind = "missing"
  PROVE  \E out : LET e == AnsweringEnv(q)
                      params == WithExtra(q, out)
                  IN  /\ e \in DOMAIN envs /\ q.name \in DOMAIN envs[e]
                      /\ RenderTemplate(q).lost = Executed(envs[e], q.name, params).lost
                      /\ RenderTemplate(q).missing =
                           {v \in ListVariables(q.name, e) : ~KeyInMap(v, params)}
<1>1. PICK d, extra : d = EnvOf(q.env) /\ extra = IF HasExtra(q) THEN ExtraOutput(q, d) ELSE Started
  BY Zenon
<1>2. PICK params : params = WithExtra(q, extra.out)
  BY Zenon
<1>3. /\ Answer("panic").kind # "missing" /\ Answer("error").kind # "missing"
      /\ Answer("refused").kind # "missing"
  BY Zenon DEF Answer
<1>4. d \in DOMAIN envs /\ RenderTemplate(q) = Rendered(q, d, params)
  BY <1>1, <1>2, <1>3, ZenonT(30) DEF RenderTemplate
<1>5. PICK e, x : e = AnsweringEnv(q) /\ x = Execute(envs[e], q.name, params)
  BY Zenon
<1>6. e \in DOMAIN envs
  BY <1>1, <1>4, <1>5, Zenon DEF AnsweringEnv, Indexed
<1>7. PICK r : /\ RenderTemplate(q) = Checked(r, ListVariables(q.name, e), params)
               /\ r.lost = x.lost /\ r.failed = x.failed
  <2>1. PICK own : own = Execute(envs[d], q.name, params)
    BY Zenon
  <2>2. FellBack(q) <=> d # Default /\ own.failed
    BY <1>1, <1>2, <1>4, <2>1, ZenonT(30) DEF FellBack
  <2>3. CASE FellBack(q)
    <3>1. PICK r : r = [out |-> own.out \cup x.out, lost |-> x.lost, failed |-> x.failed]
      BY Zenon
    <3>2. e = Default
      BY <1>5, <2>3, Zenon DEF AnsweringEnv
    <3>3. RenderTemplate(q) = Checked(r, ListVariables(q.name, e), params)
      BY <1>4, <1>5, <2>1, <2>2, <2>3, <3>1, <3>2, Zenon DEF Rendered
    <3>4. r.lost = x.lost /\ r.failed = x.failed
      BY <3>1, Zenon
    <3> QED BY <3>3, <3>4, Zenon
  <2>4. CASE ~FellBack(q)
    <3>1. e = d
      BY <1>1, <1>5, <2>4, Zenon DEF AnsweringEnv
    <3>2. RenderTemplate(q) = Checked(x, ListVariables(q.name, e), params)
      BY <1>4, <1>5, <2>1, <2>2, <2>4, <3>1, Zenon DEF Rendered
    <3> QED BY <3>2, Zenon
  <2> QED BY <2>3, <2>4, Zenon
<1>8. ~r.failed
  BY <1>3, <1>7, Zenon DEF Checked
<1>9. q.name \in DOMAIN envs[e]
  BY <1>5, <1>7, <1>8, UnknownFails, Zenon
<1>10. x = Executed(envs[e], q.name, params)
  BY <1>5, <1>9, Zenon DEF Execute
<1>11. PICK missing : missing = {v \in ListVariables(q.name, e) : ~KeyInMap(v, params)}
  BY Zenon
<1>12. \/ RenderTemplate(q) = [Answer("missing") EXCEPT !.lost = r.lost, !.missing = missing]
       \/ RenderTemplate(q) = [Answer("ok") EXCEPT !.out = r.out]
  BY <1>7, <1>8, <1>11, Zenon DEF Checked
<1>13. RenderTemplate(q).lost = r.lost /\ RenderTemplate(q).missing = missing
  BY <1>12, Zenon DEF Answer
<1> QED BY <1>2, <1>5, <1>6, <1>7, <1>9, <1>10, <1>11, <1>13, Zenon

\* Where what is executed is what is indexed, the listing follows the calls of the
\* execution and sees what it reads, but for {{$.x}}.
LEMMA ListedAsRead ==
  ASSUME NEW ns, NEW R, \A m \in R : ~Emptied(ns, m)
  PROVE  \A m \in R : /\ Follows(ns, m) = Calls(ns, m)
                      /\ Reads(ns, m) \subseteq Variables(ns, m) \cup RootReads(ns, m)
<1> SUFFICES ASSUME NEW m \in R
             PROVE  /\ Follows(ns, m) = Calls(ns, m)
                    /\ Reads(ns, m) \subseteq Variables(ns, m) \cup RootReads(ns, m)
  BY Zenon
<1>1. CASE m \notin DOMAIN ns
  BY <1>1, Zenon DEF Follows, Calls, Reads
<1>2. CASE m \in DOMAIN ns
  <2>1. PICK b : b = ns[m].body
    BY Zenon
  <2>2. b = ns[m].tree
    BY <1>2, <2>1, Zenon DEF Emptied
  <2>3. Follows(ns, m) = Calls(ns, m)
    BY <1>2, <2>1, <2>2, Zenon DEF Follows, Calls
  <2>4. /\ Reads(ns, m) = {k.ident : k \in {j \in Range(b) : j.op \in Reading}}
        /\ Variables(ns, m) = {k.ident : k \in {j \in Range(b) : j.op \in Reading \ {"root"}}}
        /\ RootReads(ns, m) = {k.ident : k \in {j \in Range(b) : j.op = "root"}}
    BY <1>2, <2>1, <2>2, Zenon DEF Reads, Variables, RootReads
  <2> QED BY <2>3, <2>4, Zenon
<1> QED BY <1>1, <1>2, Zenon

\* RenderTemplate names every variable that its output lacks: the listing
\* follows every call that the execution follows.  What is lost and not named is
\* a parameter that the request gave as null, or read as {{$.x}}, or the template
\* reaches one whose last definition is empty.  After a fallback this is said of
\* the base's template.
THEOREM MissingAreNamed == Spec => []MissingNamed
<1>1. Indexed => MissingNamed
  <2> SUFFICES ASSUME Indexed, NEW q \in RenderRequests, NEW r, r = RenderTemplate(q),
                      r.kind = "missing", NEW v \in r.lost \ r.missing,
                      NEW ns, ns = envs[AnsweringEnv(q)],
                      \A m \in Reachable(ns, q.name) : v \notin RootReads(ns, m) /\ ~Emptied(ns, m)
               PROVE  KeyInMap(v, q.params) /\ q.params[Head(v)] = Absent
    BY Zenon DEF MissingNamed
  <2>2. PICK out : LET e == AnsweringEnv(q)
                       params == WithExtra(q, out)
                   IN  /\ e \in DOMAIN envs /\ q.name \in DOMAIN envs[e]
                       /\ r.lost = Executed(envs[e], q.name, params).lost
                       /\ r.missing = {w \in ListVariables(q.name, e) : ~KeyInMap(w, params)}
    BY MissingMeans, Zenon
  <2>3. PICK n, e, params, R :
          n = q.name /\ e = AnsweringEnv(q) /\ params = WithExtra(q, out) /\ R = Reachable(ns, n)
    BY Zenon
  <2>4. /\ e \in DOMAIN envs /\ n \in DOMAIN ns /\ ns = envs[e]
        /\ r.lost = Executed(ns, n, params).lost
        /\ r.missing = {w \in ListVariables(n, e) : ~KeyInMap(w, params)}
    BY <2>2, <2>3, Zenon
  <2>5. ListVariables(n, e) = Collect(ns, n)
    <3>1. EnvOf(e) = e
      <4>1. e = Default \/ e = EnvOf(q.env)
        BY <2>3, Zenon DEF AnsweringEnv
      <4>2. EnvOf(Default) = Default
        BY Zenon DEF EnvOf
      <4> QED BY <4>1, <4>2, EnvOfKnown, Zenon
    <3> QED BY <2>4, <3>1, Zenon DEF ListVariables, Index
  <2>6. n \in Names /\ WellFormed(ns)
    BY <2>4, Zenon DEF Indexed, WellFormed
  <2>7. n \in R /\ Closed(ns, R)
    BY <2>3, <2>6, ReachableClosed, Zenon
  <2>8. \A m \in R : /\ Follows(ns, m) = Calls(ns, m)
                     /\ Reads(ns, m) \subseteq Variables(ns, m) \cup RootReads(ns, m)
    <3>1. \A m \in R : ~Emptied(ns, m)
      BY <2>3, Zenon
    <3> QED BY <3>1, ListedAsRead, Zenon
  <2>9. v \in Lacking(ns, R, params)
    <3>1. Kept(ns, R)
      BY <2>7, <2>8, Zenon DEF Kept, Closed
    <3>2. Executed(ns, n, params).lost \subseteq Lacking(ns, R, params)
      BY <2>6, <2>7, <3>1, LostIsRead, Zenon
    <3> QED BY <2>4, <3>2, Zenon
  <2>10. v \in Collect(ns, n) /\ Eval(params, v) = Absent
    <3>1. PICK k \in R : v \in Reads(ns, k)
      BY <2>9, Zenon DEF Lacking
    <3>2. v \in Variables(ns, k)
      BY <2>3, <2>8, <3>1, Zenon
    <3>3. Collect(ns, n) = UNION {Variables(ns, m) : m \in Reachable(ns, n)}
      BY <2>6, CollectIsReachable
    <3>4. k \in Reachable(ns, n)
      BY <2>3, Zenon
    <3>5. v \in Collect(ns, n)
      BY <3>2, <3>3, <3>4, Zenon
    <3> QED BY <2>9, <3>5, Zenon DEF Lacking
  <2>11. KeyInMap(v, params)
    BY <2>4, <2>5, <2>10, Zenon
  <2>12. Len(v) = 1 /\ Head(v) \in DOMAIN params /\ params[Head(v)] = Absent
    BY <2>10, <2>11, Zenon DEF KeyInMap, Eval
  <2>13. Head(v) \in DOMAIN q.params /\ q.params[Head(v)] = Absent
    <3>1. PICK k : k = Head(v)
      BY Zenon
    <3>2. k \in DOMAIN WithExtra(q, out) /\ WithExtra(q, out)[k] = Absent
      BY <2>3, <2>12, <3>1, Zenon
    <3> QED BY <3>1, <3>2, OwnParameter, Zenon
  <2> QED BY <2>12, <2>13, Zenon DEF KeyInMap
<1> QED BY <1>1, IndexIsWellFormed, PTL
=============================================================================
