------------------------- MODULE ProvisioningProofs -------------------------
(***************************************************************************)
(* Proofs about structured policy, for any layers, parameters, queries and *)
(* environment.  What is stored and rendered is always a function of the   *)
(* layers: the inductive invariant says which one, and every property is   *)
(* then a fact about the merge, the resolution and the projection.         *)
(***************************************************************************)
EXTENDS Provisioning, TLAPS

\* A key that the upper map has keeps its value there; any other key is the
\* lower map's (setDefaultParam, and every merge of two maps).
LEMMA OverHas ==
  ASSUME NEW fields, NEW base, NEW k \in DOMAIN fields
  PROVE  k \in DOMAIN Over(fields, base) /\ Over(fields, base)[k] = fields[k]
BY Zenon DEF Over

LEMMA OverLacks ==
  ASSUME NEW fields, NEW base, NEW k, k \notin DOMAIN fields
  PROVE  /\ k \in DOMAIN Over(fields, base) <=> k \in DOMAIN base
         /\ k \in DOMAIN base => Over(fields, base)[k] = base[k]
BY Zenon DEF Over

LEMMA OverDomain ==
  ASSUME NEW fields, NEW base
  PROVE  DOMAIN Over(fields, base) = DOMAIN fields \cup DOMAIN base
BY Zenon DEF Over

\* The largest of some of the three layers.
LEMMA MaxOfThree ==
  ASSUME NEW S \in SUBSET (1 .. 3)
  PROVE  /\ 3 \in S => Max(S) = 3
         /\ 3 \notin S /\ 2 \in S => Max(S) = 2
         /\ 3 \notin S /\ 2 \notin S /\ 1 \in S => Max(S) = 1
<1>1. ASSUME NEW n \in S, \A y \in S : n >= y PROVE Max(S) = n
  <2>1. Max(S) \in S /\ \A y \in S : Max(S) >= y
    BY <1>1, Zenon DEF Max
  <2>2. Max(S) \in 1 .. 3 /\ n \in 1 .. 3
    BY <2>1, Zenon
  <2>3. Max(S) >= n /\ n >= Max(S)
    BY <1>1, <2>1, Zenon
  <2> QED BY <2>2, <2>3
<1>2. 3 \in S => \A y \in S : 3 >= y
  OBVIOUS
<1>3. 3 \notin S => \A y \in S : 2 >= y
  OBVIOUS
<1>4. 3 \notin S /\ 2 \notin S => \A y \in S : 1 >= y
  OBVIOUS
<1> QED BY <1>1, <1>2, <1>3, <1>4, Zenon

-----------------------------------------------------------------------------
(* The merge *)

\* Three maps merged as mergeProvisioningConfig merges the layers.
Threefold(a, b, c) == MergeFields(MergeFields(a, b), c)

LEMMA ThreefoldAt ==
  ASSUME NEW a, NEW b, NEW c, NEW k
  PROVE  /\ k \in DOMAIN Threefold(a, b, c) <=> k \in DOMAIN a \cup DOMAIN b \cup DOMAIN c
         /\ k \in DOMAIN c => Threefold(a, b, c)[k] = c[k]
         /\ k \notin DOMAIN c /\ k \in DOMAIN b => Threefold(a, b, c)[k] = b[k]
         /\ k \notin DOMAIN c /\ k \notin DOMAIN b /\ k \in DOMAIN a
              => Threefold(a, b, c)[k] = a[k]
BY Zenon DEF Threefold, MergeFields, Over

LEMMA MergedFields ==
  /\ Merged.scalars = Threefold(policy[1].scalars, policy[2].scalars, policy[3].scalars)
  /\ Merged.lists = Threefold(SetLists(policy[1].lists), SetLists(policy[2].lists),
                              SetLists(policy[3].lists))
  /\ Merged.configParams
       = Threefold(policy[1].configParams, policy[2].configParams, policy[3].configParams)
BY Zenon DEF Merged, Merge, Copy, Threefold
-----------------------------------------------------------------------------
(* The inductive invariant *)

\* What the installer is given: the projection of the session under a query,
\* which Debian's preseed checks and completes.
Given(query) ==
  \/ config = [params |-> Requested(query).params, users |-> Requested(query).users,
               modules |-> Requested(query).modules, query |-> query, debian |-> FALSE]
  \/ /\ ValidPreseed(Requested(query).params)
     /\ config = [params |-> Completed(Requested(query).params), users |-> Requested(query).users,
                  modules |-> Requested(query).modules, query |-> query, debian |-> TRUE]

\* Only a file that validates is served, and only a policy that resolves is
\* booted or selected; what is stored is that policy after JSON, which a second
\* conversion leaves as it is.
IInv ==
  /\ policy \in Policies /\ params \in LegacyParams
  /\ phase \in {"starting", "serving", "failed"}
  /\ phase = "serving" => \A i \in 1 .. 3 : ValidLayer(policy[i])
  /\ state # None => phase = "serving" /\ Resolves /\ state = Reloaded(Resolved)
  /\ script # None =>
       /\ phase = "serving" /\ Resolves
       /\ script \in {Project(params, Resolved), Project(params, Reloaded(Resolved))}
  /\ session # None =>
       /\ phase = "serving" /\ Resolves
       /\ session = [params |-> DecodedAll(params), policy |-> Reloaded(Resolved)]
       /\ script \in {Project(params, Resolved), Project(params, Reloaded(Resolved))}
  /\ config # None => session # None /\ \E query \in Query : Given(query)

\* A second conversion to JSON and back changes nothing.
LEMMA DecodedTwice ==
  ASSUME NEW fields
  PROVE  DecodedAll(DecodedAll(fields)) = DecodedAll(fields)
<1>1. \A v : Decoded(Decoded(v)) = Decoded(v)
  BY Zenon DEF Decoded
<1> QED BY <1>1, Zenon DEF DecodedAll

LEMMA ReloadedTwice ==
  ASSUME NEW m
  PROVE  Reloaded(Reloaded(m)) = Reloaded(m)
BY DecodedTwice, Zenon DEF Reloaded

\* The layers stay what they are, and so does all that follows from them.
LEMMA PolicyStays ==
  ASSUME policy' = policy
  PROVE  Merged' = Merged /\ Resolved' = Resolved /\ Resolves' <=> Resolves
<1>1. Merged' = Merged
  BY Zenon DEF Merged
<1> QED BY <1>1, Zenon DEF Resolved, Resolves

LEMMA GivenStays ==
  ASSUME NEW query, UNCHANGED <<session, config>>
  PROVE  Given(query)' <=> Given(query)
BY Zenon DEF Given, Requested

LEMMA InitInv == Init => IInv
BY Zenon DEF Init, IInv

\* A step that only reads.
LEMMA ReadingInv ==
  ASSUME IInv, UNCHANGED vars
  PROVE  IInv'
<1>1. UNCHANGED <<policy, params, phase, state, session, script, config>>
  BY Zenon DEF vars
<1>2. \A query : Given(query)' <=> Given(query)
  BY <1>1, GivenStays, Zenon
<1> QED BY <1>1, <1>2, PolicyStays, Zenon DEF IInv

LEMMA BootInv ==
  ASSUME IInv, NEW m, Boot(m), phase = "serving", Resolves, Reloaded(m) = Reloaded(Resolved),
         m \in {Resolved, Reloaded(Resolved)}, UNCHANGED <<policy, params, phase>>,
         state' \in {state, None}
  PROVE  IInv'
<1>1. session' = [params |-> DecodedAll(params), policy |-> Reloaded(Resolved)]
  BY Zenon DEF Boot
<1>2. script' \in {Project(params, Resolved), Project(params, Reloaded(Resolved))}
  BY Zenon DEF Boot
<1>3. config' = None
  BY Zenon DEF Boot
<1>4. /\ policy' = policy /\ params' = params /\ phase' = "serving"
      /\ Resolved' = Resolved /\ Resolves'
  BY PolicyStays, Zenon
<1>5. state' # None => state' = Reloaded(Resolved)
  BY Zenon DEF IInv
<1>6. policy' \in Policies /\ params' \in LegacyParams
  BY <1>4, Zenon DEF IInv
<1>7. \A i \in 1 .. 3 : ValidLayer(policy[i])
  BY Zenon DEF IInv
<1> QED BY <1>1, <1>2, <1>3, <1>4, <1>5, <1>6, <1>7, Zenon DEF IInv

LEMMA StepInv == IInv /\ [Next]_vars => IInv'
<1> SUFFICES ASSUME IInv, [Next]_vars PROVE IInv'
  BY Zenon
<1>1. CASE Load
  <2>1. UNCHANGED <<policy, params, state, session, script, config>>
    BY <1>1, Zenon DEF Load
  <2>2. state = None /\ session = None /\ script = None /\ config = None
    BY <1>1, Zenon DEF Load, IInv
  <2>3. /\ phase' \in {"starting", "serving", "failed"}
        /\ phase' = "serving" => \A i \in 1 .. 3 : ValidLayer(policy[i])
    BY <1>1, Zenon DEF Load
  <2> QED BY <2>1, <2>2, <2>3, Zenon DEF IInv
<1>2. CASE BootMatched
  <2>1. /\ Boot(Resolved) /\ phase = "serving" /\ Resolves
        /\ UNCHANGED <<policy, params, phase, state>>
    BY <1>2, Zenon DEF BootMatched
  <2> QED BY <2>1, BootInv, Zenon
<1>3. CASE Select
  <2>1. /\ phase = "serving" /\ Resolves /\ state' = Reloaded(Resolved)
        /\ UNCHANGED <<policy, params, phase, session, script, config>>
    BY <1>3, Zenon DEF Select
  <2>2. \A query : Given(query)' <=> Given(query)
    BY <2>1, GivenStays, Zenon
  <2> QED BY <2>1, <2>2, PolicyStays, Zenon DEF IInv
<1>4. CASE BootSelected
  <2>1. /\ state # None /\ Boot(state) /\ state' = None
        /\ UNCHANGED <<policy, params, phase>>
    BY <1>4, Zenon DEF BootSelected
  <2>2. phase = "serving" /\ Resolves /\ state = Reloaded(Resolved)
    BY <2>1, Zenon DEF IInv
  <2>3. Reloaded(state) = Reloaded(Resolved)
    BY <2>2, ReloadedTwice, Zenon
  <2> QED BY <2>1, <2>2, <2>3, BootInv, Zenon
<1>5. CASE \E query \in Query : Preseed(query) \/ Configure(query)
  <2>1. PICK query \in Query : Preseed(query) \/ Configure(query)
    BY <1>5, Zenon
  <2>2. /\ session # None
        /\ UNCHANGED <<policy, params, phase, state, session, script>>
    BY <2>1, Zenon DEF Preseed, Configure
  <2>3. Requested(query)' = Requested(query)
    BY <2>2, Zenon DEF Requested
  <2>4. Given(query)'
    BY <2>1, <2>3, Zenon DEF Given, Preseed, Configure
  <2> QED BY <2>2, <2>4, PolicyStays, Zenon DEF IInv
<1>6. CASE UNCHANGED vars
  BY <1>6, ReadingInv, Zenon
<1> QED
  BY <1>1, <1>2, <1>3, <1>4, <1>5, <1>6, Zenon
  DEF Next, Refuse, RefusePreseed, Failed

\* The stored selection, the session, the script and the configuration are what
\* genBootScript, UpdateTarget and resolveTemplateRequest compute from the three
\* layers, and from nothing that an earlier request left.
THEOREM ProvisioningInvariance == Spec => []IInv
BY InitInv, StepInv, PTL DEF Spec

-----------------------------------------------------------------------------
(* The merge, field by field *)

LEMMA LayerTyped ==
  ASSUME IInv, NEW i \in 1 .. 3
  PROVE  IsLayer(policy[i])
BY LayersAssumption, Zenon DEF IInv

\* What a session holds, in terms of the merge.
LEMMA SessionFields ==
  ASSUME IInv, session # None
  PROVE  /\ session.params = DecodedAll(params)
         /\ session.policy = Reloaded(Resolved)
         /\ session.policy.scalars = ResolvedScalars(Merged.scalars)
         /\ session.policy.lists = Merged.lists
         /\ session.policy.filesystems = Merged.filesystems
         /\ session.policy.absent = {}
         /\ session.policy.configParams = DecodedAll(Values(Merged.configParams))
         /\ session.policy.users
              = [n \in Accounts(Merged.users) |-> Values(Merged.users[n])]
<1>1. session = [params |-> DecodedAll(params), policy |-> Reloaded(Resolved)]
  BY Zenon DEF IInv
<1>2. PICK m : m = Merged
  BY Zenon
<1> QED BY <1>1, <1>2, Zenon DEF Reloaded, Resolved, Resolution

\* resolveStringValue changes a reference only.
LEMMA ResolvedScalarAt ==
  ASSUME NEW scalars, NEW f
  PROVE  /\ DOMAIN ResolvedScalars(scalars) = DOMAIN scalars
         /\ \/ ResolvedScalars(scalars)[f] = scalars[f]
            \/ /\ f = "storage_encryption_passphrase" /\ NeedsPassphrase(scalars)
               /\ ResolvedScalars(scalars)[f] = Value(scalars[f])
         /\ f # "storage_encryption_passphrase" => ResolvedScalars(scalars)[f] = scalars[f]
BY SMTT(30) DEF ResolvedScalars, NeedsPassphrase

\* The fields of one user in one layer, after the copy.
UserFields(i, n) == Entry(Copy(policy[i]).users, n)

LEMMA UserFieldsAt ==
  ASSUME NEW i, NEW n, NEW f
  PROVE  /\ f \in DOMAIN UserFields(i, n) =>
              /\ n \in DOMAIN policy[i].users /\ f \in DOMAIN policy[i].users[n]
              /\ UserFields(i, n)[f] = policy[i].users[n][f]
         /\ n \in DOMAIN policy[i].users /\ f \in DOMAIN policy[i].users[n]
              /\ policy[i].users[n][f].type # "list" => f \in DOMAIN UserFields(i, n)
<1>1. PICK users : users = policy[i].users
  BY Zenon
<1>2. Copy(policy[i]).users = [x \in DOMAIN users |-> CopyUser(users[x])]
  BY <1>1, Zenon DEF Copy
<1>3. CASE n \in DOMAIN users
  <2>1. UserFields(i, n) = CopyUser(users[n])
    BY <1>2, <1>3, Zenon DEF UserFields, Entry
  <2> QED BY <1>1, <1>3, <2>1, Zenon DEF CopyUser
<1>4. CASE n \notin DOMAIN users
  <2>1. UserFields(i, n) = <<>>
    BY <1>2, <1>4, Zenon DEF UserFields, Entry
  <2> QED BY <1>1, <1>4, <2>1
<1> QED BY <1>3, <1>4, Zenon

LEMMA MergedUsers ==
  /\ DOMAIN Merged.users
       = DOMAIN policy[1].users \cup DOMAIN policy[2].users \cup DOMAIN policy[3].users
  /\ \A n \in DOMAIN Merged.users :
       Merged.users[n] = Threefold(UserFields(1, n), UserFields(2, n), UserFields(3, n))
<1>1. PICK u1, u2, u3 : /\ u1 = Copy(policy[1]).users /\ u2 = Copy(policy[2]).users
                        /\ u3 = Copy(policy[3]).users
  BY Zenon
<1>2. /\ DOMAIN u1 = DOMAIN policy[1].users /\ DOMAIN u2 = DOMAIN policy[2].users
      /\ DOMAIN u3 = DOMAIN policy[3].users
  BY <1>1, Zenon DEF Copy
<1>3. PICK u12 : u12 = MergeUsers(u1, u2)
  BY Zenon
<1>4. Merged.users = MergeUsers(u12, u3)
  BY <1>1, <1>3, ZenonT(30) DEF Merged, Merge
<1>5. DOMAIN u12 = DOMAIN u1 \cup DOMAIN u2 /\ DOMAIN Merged.users = DOMAIN u12 \cup DOMAIN u3
  BY <1>3, <1>4, Zenon DEF MergeUsers
<1>6. ASSUME NEW n \in DOMAIN Merged.users
      PROVE  Merged.users[n] = Threefold(UserFields(1, n), UserFields(2, n), UserFields(3, n))
  <2>1. /\ UserFields(1, n) = Entry(u1, n) /\ UserFields(2, n) = Entry(u2, n)
        /\ UserFields(3, n) = Entry(u3, n)
    BY <1>1, Zenon DEF UserFields
  <2>2. Merged.users[n] = MergeFields(Entry(u12, n), Entry(u3, n))
    BY <1>4, <1>6, Zenon DEF MergeUsers
  <2>3. Entry(u12, n) = MergeFields(Entry(u1, n), Entry(u2, n))
    <3>1. CASE n \in DOMAIN u12
      BY <1>3, <3>1, Zenon DEF MergeUsers, Entry
    <3>2. CASE n \notin DOMAIN u12
      <4>1. Entry(u12, n) = <<>> /\ Entry(u1, n) = <<>> /\ Entry(u2, n) = <<>>
        BY <1>5, <3>2, Zenon DEF Entry
      <4>2. MergeFields(<<>>, <<>>) = <<>>
        BY DEF MergeFields, Over
      <4> QED BY <4>1, <4>2, Zenon
    <3> QED BY <3>1, <3>2, Zenon
  <2> QED BY <2>1, <2>2, <2>3, Zenon DEF Threefold
<1> QED BY <1>2, <1>5, <1>6, Zenon

-----------------------------------------------------------------------------
(* The last layer wins *)

\* The last of the three layers of a set.
LEMMA LastOfThree ==
  ASSUME NEW S \in SUBSET (1 .. 3), S # {}
  PROVE  \/ 3 \in S /\ Max(S) = 3
         \/ 3 \notin S /\ 2 \in S /\ Max(S) = 2
         \/ 3 \notin S /\ 2 \notin S /\ 1 \in S /\ Max(S) = 1
<1>1. PICK i \in S : TRUE
  BY Zenon
<1>2. i = 1 \/ i = 2 \/ i = 3
  OBVIOUS
<1> QED BY <1>1, <1>2, MaxOfThree, Zenon

LEMMA ScalarsLast ==
  ASSUME IInv, session # None, NEW f,
         NEW S, S = {i \in 1 .. 3 : f \in DOMAIN policy[i].scalars}, S # {}
  PROVE  LET v == policy[Max(S)].scalars[f]
         IN  \/ session.policy.scalars[f] = v
             \/ v.type = "env" /\ ~Unset(v) /\ session.policy.scalars[f] = Value(v)
<1>1. PICK v : v = policy[Max(S)].scalars[f]
  BY ZenonT(30)
<1>2. f \in DOMAIN Merged.scalars /\ Merged.scalars[f] = v
  BY <1>1, LastOfThree, ThreefoldAt, MergedFields
<1>3. CASE session.policy.scalars[f] = v
  BY <1>1, <1>3, Zenon
<1>4. CASE session.policy.scalars[f] # v
  <2>1. /\ f = "storage_encryption_passphrase" /\ NeedsPassphrase(Merged.scalars)
        /\ session.policy.scalars[f] = Value(v)
    BY <1>2, <1>4, SessionFields, ResolvedScalarAt
  <2>2. v.type = "env"
    BY <1>4, <2>1, Zenon DEF Value
  <2>3. ~Unset(Merged.scalars["storage_encryption_passphrase"])
    BY <2>1, Zenon DEF IInv, Resolves, MergeResolves, ProvisioningResolves
  <2>4. ~Unset(v)
    BY <1>2, <2>1, <2>3, ZenonT(30)
  <2> QED BY <1>1, <2>1, <2>2, <2>4, ZenonT(30)
<1> QED BY <1>3, <1>4, Zenon

LEMMA ListsLast ==
  ASSUME IInv, session # None, NEW f,
         NEW S, S = {i \in 1 .. 3 : f \in DOMAIN policy[i].lists /\ policy[i].lists[f] # <<>>},
         S # {}
  PROVE  session.policy.lists[f] = policy[Max(S)].lists[f]
<1>1. \A i \in 1 .. 3 : /\ f \in DOMAIN SetLists(policy[i].lists) <=> i \in S
                        /\ i \in S => SetLists(policy[i].lists)[f] = policy[i].lists[f]
  BY Zenon DEF SetLists
<1>2. PICK l1, l2, l3 : /\ l1 = SetLists(policy[1].lists) /\ l2 = SetLists(policy[2].lists)
                        /\ l3 = SetLists(policy[3].lists)
  BY Zenon
<1>3. Merged.lists = Threefold(l1, l2, l3)
  BY <1>2, MergedFields, Zenon
<1>4. /\ f \in DOMAIN l1 <=> 1 \in S
      /\ f \in DOMAIN l2 <=> 2 \in S
      /\ f \in DOMAIN l3 <=> 3 \in S
      /\ 1 \in S => l1[f] = policy[1].lists[f]
      /\ 2 \in S => l2[f] = policy[2].lists[f]
      /\ 3 \in S => l3[f] = policy[3].lists[f]
  BY <1>1, <1>2
<1>5. Merged.lists[f] = policy[Max(S)].lists[f]
  <2>1. \/ 3 \in S /\ Max(S) = 3
        \/ 3 \notin S /\ 2 \in S /\ Max(S) = 2
        \/ 3 \notin S /\ 2 \notin S /\ 1 \in S /\ Max(S) = 1
    <3>1. S \in SUBSET (1 .. 3)
      BY Zenon
    <3> QED BY <3>1, LastOfThree, Zenon
  <2>2. /\ 3 \in S => Merged.lists[f] = l3[f]
        /\ 3 \notin S /\ 2 \in S => Merged.lists[f] = l2[f]
        /\ 3 \notin S /\ 2 \notin S /\ 1 \in S => Merged.lists[f] = l1[f]
    <3>1. /\ f \in DOMAIN l3 => Threefold(l1, l2, l3)[f] = l3[f]
          /\ f \notin DOMAIN l3 /\ f \in DOMAIN l2 => Threefold(l1, l2, l3)[f] = l2[f]
          /\ f \notin DOMAIN l3 /\ f \notin DOMAIN l2 /\ f \in DOMAIN l1
               => Threefold(l1, l2, l3)[f] = l1[f]
      BY ThreefoldAt, SMTT(30)
    <3> QED BY <1>3, <1>4, <3>1, ZenonT(30)
  <2> QED BY <1>4, <2>1, <2>2, Zenon
<1> QED BY <1>5, SessionFields, ZenonT(30)

LEMMA UsersLast ==
  ASSUME IInv, session # None,
         NEW n \in DOMAIN policy[1].users \cup DOMAIN policy[2].users \cup DOMAIN policy[3].users,
         NEW S, S = {i \in 1 .. 3 : /\ n \in DOMAIN policy[i].users
                                    /\ "absent" \in DOMAIN policy[i].users[n]}
  PROVE  n \in DOMAIN session.policy.users <=>
           S = {} \/ ~IsTrue(policy[Max(S)].users[n], "absent")
<1>1. \A i \in 1 .. 3 : /\ "absent" \in DOMAIN UserFields(i, n) <=> i \in S
                        /\ i \in S => UserFields(i, n)["absent"] = policy[i].users[n]["absent"]
  <2> TAKE i \in 1 .. 3
  <2>1. ASSUME i \in S PROVE policy[i].users[n]["absent"].type # "list"
    BY <2>1, LayerTyped, ZenonT(30) DEF IsLayer
  <2> QED BY <2>1, UserFieldsAt
<1>2. n \in DOMAIN Merged.users
  BY MergedUsers, Zenon
<1>3. PICK user : user = Merged.users[n]
  BY Zenon
<1>4. user = Threefold(UserFields(1, n), UserFields(2, n), UserFields(3, n))
  BY <1>2, <1>3, MergedUsers, Zenon
<1>5. "absent" \in DOMAIN user <=> S # {}
  BY <1>1, <1>4, ThreefoldAt, SMTT(30)
<1>6. S # {} => user["absent"] = policy[Max(S)].users[n]["absent"]
  BY <1>1, <1>4, ThreefoldAt, LastOfThree, SMTT(30)
<1>7. S # {} => "absent" \in DOMAIN policy[Max(S)].users[n]
  BY LastOfThree, Zenon
<1>8. n \in DOMAIN session.policy.users <=> ~IsTrue(user, "absent")
  BY <1>2, <1>3, SessionFields, Zenon DEF Accounts
<1> QED BY <1>5, <1>6, <1>7, <1>8, ZenonT(30) DEF IsTrue

LEMMA LastLayerStep == IInv => LastLayerWins
<1> SUFFICES ASSUME IInv, session # None PROVE LastLayerWins
  BY Zenon DEF LastLayerWins
<1>1. ASSUME NEW f \in UNION {DOMAIN policy[i].scalars : i \in 1 .. 3}
      PROVE  LET v == policy[Max({i \in 1 .. 3 : f \in DOMAIN policy[i].scalars})].scalars[f]
             IN  \/ session.policy.scalars[f] = v
                 \/ v.type = "env" /\ ~Unset(v) /\ session.policy.scalars[f] = Value(v)
  <2>1. {i \in 1 .. 3 : f \in DOMAIN policy[i].scalars} # {}
    BY <1>1, Zenon
  <2> QED BY <2>1, ScalarsLast, Zenon
<1>2. ASSUME NEW f
      PROVE  LET S == {i \in 1 .. 3 : f \in DOMAIN policy[i].lists /\ policy[i].lists[f] # <<>>}
             IN  S # {} => session.policy.lists[f] = policy[Max(S)].lists[f]
  BY ListsLast, Zenon
<1>3. ASSUME NEW n \in UNION {DOMAIN policy[i].users : i \in 1 .. 3},
             NEW S, S = {i \in 1 .. 3 : /\ n \in DOMAIN policy[i].users
                                        /\ "absent" \in DOMAIN policy[i].users[n]}
      PROVE  n \in DOMAIN session.policy.users <=>
               S = {} \/ ~IsTrue(policy[Max(S)].users[n], "absent")
  <2>1. n \in DOMAIN policy[1].users \cup DOMAIN policy[2].users \cup DOMAIN policy[3].users
    BY <1>3
  <2> QED BY <1>3, <2>1, UsersLast, Zenon
<1>4. \A n : {i \in {j \in 1 .. 3 : n \in DOMAIN policy[j].users} :
                "absent" \in DOMAIN policy[i].users[n]}
             = {i \in 1 .. 3 : /\ n \in DOMAIN policy[i].users
                               /\ "absent" \in DOMAIN policy[i].users[n]}
  BY Zenon
<1> QED BY <1>1, <1>2, <1>3, <1>4, ZenonT(30) DEF LastLayerWins

\* In a session, the last layer that sets a field has decided it: a scalar, a
\* list that is not empty, and whether an account exists (mergeProvisioningConfig,
\* mergeUserConfigMap, resolveUsers).
THEOREM LastLayerDecides == Spec => []LastLayerWins
BY ProvisioningInvariance, LastLayerStep, PTL

-----------------------------------------------------------------------------
(* Type correctness *)

\* No value is a reference to the environment any more.
LookedUp(fields) == \A f \in DOMAIN fields : fields[f].type # "env"

LEMMA OverLookedUp ==
  ASSUME NEW fields, NEW base, LookedUp(fields), LookedUp(base)
  PROVE  LookedUp(Over(fields, base))
BY Zenon DEF LookedUp, Over

LEMMA EmptyLookedUp == LookedUp(<<>>)
BY DEF LookedUp

\* Every structured field is projected as text (setDefaultParamValue).
LEMMA StructuredLookedUp ==
  ASSUME NEW m
  PROVE  LookedUp(Structured(m))
<1>1. LookedUp(ScalarParams(m.scalars)) /\ LookedUp(ListParams(m.lists))
  BY Zenon DEF LookedUp, ScalarParams, ListParams, Text
<1>2. LookedUp(RAIDParams(m.lists))
  BY EmptyLookedUp, Zenon DEF LookedUp, RAIDParams, Text
<1>3. \A names, filesystems, field : LookedUp(FieldParams(names, filesystems, field))
  BY Zenon DEF LookedUp, FieldParams, Text
<1>4. LookedUp(SwapParams(m))
  BY EmptyLookedUp DEF LookedUp, SwapParams, Text
<1>5. LookedUp(FilesystemParams(m))
  BY <1>3, <1>4, OverLookedUp, Zenon DEF FilesystemParams
<1> QED BY <1>1, <1>2, <1>5, OverLookedUp, Zenon DEF Structured

LEMMA FlatLookedUp ==
  ASSUME NEW given, NEW m, LookedUp(given), LookedUp(m.configParams)
  PROVE  LookedUp(Flat(given, m))
<1>1. LookedUp(WipeParams(m.lists))
  BY EmptyLookedUp DEF LookedUp, WipeParams, Text
<1>2. LookedUp(Stated(given, m))
  BY <1>1, StructuredLookedUp, OverLookedUp, Zenon DEF Stated
<1>3. LookedUp(DerivedParams(Stated(given, m)))
  BY EmptyLookedUp, SMTT(30) DEF LookedUp, DerivedParams, Text
<1>4. LookedUp(Builtin)
  BY SMTT(30) DEF LookedUp, Builtin, Text
<1> QED BY <1>2, <1>3, <1>4, OverLookedUp, Zenon DEF Flat, Filled

LEMMA CompletedLookedUp ==
  ASSUME NEW p, LookedUp(p)
  PROVE  LookedUp(Completed(p))
<1>1. \A devices : LookedUp(Members(devices))
  BY DEF LookedUp, Members, Text
<1> QED BY <1>1, OverLookedUp, Zenon DEF Completed

LEMMA DecodedLookedUp ==
  ASSUME NEW fields, LookedUp(fields)
  PROVE  LookedUp(DecodedAll(fields))
BY Zenon DEF LookedUp, DecodedAll, Decoded

LEMMA ValuesLookedUp ==
  ASSUME NEW fields
  PROVE  LookedUp(Values(fields))
BY Zenon DEF LookedUp, Values, Value, Text

\* What a boot script or an installer's configuration was rendered with is the
\* projection of the resolved policy, before or after JSON.
LEMMA Rendered ==
  ASSUME IInv, NEW r \in {script, config} \ {None}
  PROVE  /\ Resolves
         /\ r.users = [n \in Accounts(Merged.users) |-> Values(Merged.users[n])]
         /\ LookedUp(r.params)
<1>1. LookedUp(params) /\ \A query \in Query : LookedUp(query)
  BY ParamsAssumption, Zenon DEF IInv, LookedUp, IsParams, IsValue
<1>2. PICK m : m = Merged
  BY Zenon
<1>3. /\ Resolved.users = [n \in Accounts(Merged.users) |-> Values(Merged.users[n])]
      /\ Reloaded(Resolved).users = Resolved.users
      /\ Resolved.configParams = Values(Merged.configParams)
      /\ Reloaded(Resolved).configParams = DecodedAll(Values(Merged.configParams))
  BY <1>2, ZenonT(30) DEF Resolved, Resolution, Reloaded
<1>4. LookedUp(Resolved.configParams) /\ LookedUp(Reloaded(Resolved).configParams)
  BY <1>3, ValuesLookedUp, DecodedLookedUp, ZenonT(30)
<1>5. CASE r = script
  <2>1. Resolves /\ script \in {Project(params, Resolved), Project(params, Reloaded(Resolved))}
    BY <1>5, Zenon DEF IInv
  <2>2. PICK x \in {Resolved, Reloaded(Resolved)} : script = Project(params, x)
    BY <2>1, Zenon
  <2>3. script.params = Flat(params, x) /\ script.users = x.users
    BY <2>2, Zenon DEF Project
  <2> QED BY <1>1, <1>3, <1>4, <1>5, <2>1, <2>2, <2>3, FlatLookedUp
<1>6. CASE r = config
  <2>1. PICK query \in Query : session # None /\ Given(query)
    BY <1>6, Zenon DEF IInv
  <2>2. PICK q : q = Requested(query)
    BY Zenon
  <2>3. PICK given : given = Over(query, session.params)
    BY Zenon
  <2>4. q.params = Flat(given, Reloaded(Resolved)) /\ q.users = Resolved.users
    BY <1>3, <2>1, <2>2, <2>3, SessionFields, ZenonT(30) DEF Requested, Project
  <2>5. LookedUp(session.params)
    BY <1>1, <2>1, SessionFields, DecodedLookedUp, Zenon
  <2>6. LookedUp(given)
    BY <1>1, <2>3, <2>5, OverLookedUp, Zenon
  <2>7. LookedUp(q.params)
    BY <1>4, <2>4, <2>6, FlatLookedUp, Zenon
  <2>8. config.users = q.users /\ config.params \in {q.params, Completed(q.params)}
    BY <2>1, <2>2 DEF Given
  <2>9. Resolves
    BY <2>1, Zenon DEF IInv
  <2> QED BY <1>3, <1>6, <2>4, <2>7, <2>8, <2>9, CompletedLookedUp, ZenonT(30)
<1> QED BY <1>5, <1>6, Zenon

\* Whether an account is absent or primary is never looked up.
LEMMA UserFlag ==
  ASSUME IInv, NEW n \in DOMAIN Merged.users, NEW f \in {"absent", "primary"},
         f \in DOMAIN Merged.users[n]
  PROVE  Merged.users[n][f].type = "string"
<1>1. \A i \in 1 .. 3 : f \in DOMAIN UserFields(i, n) => UserFields(i, n)[f].type = "string"
  <2> SUFFICES ASSUME NEW i \in 1 .. 3, f \in DOMAIN UserFields(i, n)
               PROVE  UserFields(i, n)[f].type = "string"
    BY Zenon
  <2>1. /\ n \in DOMAIN policy[i].users /\ f \in DOMAIN policy[i].users[n]
        /\ UserFields(i, n)[f] = policy[i].users[n][f]
    BY UserFieldsAt, SMTT(30)
  <2> QED BY <2>1, LayerTyped, SMTT(30) DEF IsLayer
<1>2. Merged.users[n] = Threefold(UserFields(1, n), UserFields(2, n), UserFields(3, n))
  BY MergedUsers, Zenon
<1> QED BY <1>1, <1>2, ThreefoldAt, SMTT(30)

LEMMA ResolvedFlag ==
  ASSUME IInv, NEW n \in DOMAIN Merged.users, NEW f \in {"absent", "primary"}
  PROVE  IsTrue(Values(Merged.users[n]), f) <=> IsTrue(Merged.users[n], f)
<1>1. f \in DOMAIN Merged.users[n] => Value(Merged.users[n][f]) = Merged.users[n][f]
  BY UserFlag, Zenon DEF Value
<1> QED BY <1>1, Zenon DEF IsTrue, Values

LEMMA TypeStep == IInv => TypeOK
<1> SUFFICES ASSUME IInv PROVE TypeOK
  BY Zenon
<1>1. ASSUME NEW r \in {script, config} \ {None}
      PROVE  /\ Cardinality(Primaries(r.users)) <= 1
             /\ Accounts(r.users) = DOMAIN r.users
             /\ \A k \in DOMAIN r.params : r.params[k].type # "env"
  <2>1. PICK users : users = r.users
    BY Zenon
  <2>2. /\ DOMAIN users = Accounts(Merged.users)
        /\ \A n \in DOMAIN users : users[n] = Values(Merged.users[n])
    BY <2>1, Rendered, ZenonT(30)
  <2>3. \A n \in DOMAIN users : n \in DOMAIN Merged.users
    BY <2>2, Zenon DEF Accounts
  <2>4. \A n \in DOMAIN users : ~IsTrue(users[n], "absent")
    BY <2>2, <2>3, ResolvedFlag, Zenon DEF Accounts
  <2>5. \A n \in DOMAIN users : IsTrue(users[n], "primary") <=> IsTrue(Merged.users[n], "primary")
    BY <2>2, <2>3, ResolvedFlag, Zenon
  <2>6. Accounts(users) = DOMAIN users
    BY <2>4, Zenon DEF Accounts
  <2>7. Primaries(users) = Primaries(Merged.users)
    BY <2>2, <2>5, <2>6, Zenon DEF Primaries
  <2>8. Cardinality(Primaries(Merged.users)) <= 1
    BY Rendered, Zenon DEF Resolves, MergeResolves, UsersResolve
  <2> QED BY <2>1, <2>6, <2>7, <2>8, Rendered, Zenon DEF LookedUp
<1> QED BY <1>1, Zenon DEF IInv, TypeOK

\* What is rendered has at most one primary user, no absent one, and no reference
\* to the environment that resolveUsers or resolveParamValue left as it was.
THEOREM TypeCorrect == Spec => []TypeOK
BY ProvisioningInvariance, TypeStep, PTL

-----------------------------------------------------------------------------
(* The projection, parameter by parameter *)

LEMMA StatedAt ==
  ASSUME NEW given, NEW m, NEW k
  PROVE  /\ k \in DOMAIN Stated(given, m) <=>
              k \in DOMAIN given \cup DOMAIN Structured(m) \cup DOMAIN m.configParams
                      \cup DOMAIN WipeParams(m.lists)
         /\ k \in DOMAIN given => Stated(given, m)[k] = given[k]
         /\ k \notin DOMAIN given /\ k \in DOMAIN Structured(m)
              => Stated(given, m)[k] = Structured(m)[k]
         /\ k \notin DOMAIN given \cup DOMAIN Structured(m) /\ k \in DOMAIN m.configParams
              => Stated(given, m)[k] = m.configParams[k]
         /\ k \notin DOMAIN given \cup DOMAIN Structured(m) \cup DOMAIN m.configParams
              /\ k \in DOMAIN WipeParams(m.lists)
              => Stated(given, m)[k] = WipeParams(m.lists)[k]
<1>1. PICK s, w : s = Structured(m) /\ w = WipeParams(m.lists)
  BY Zenon
<1>2. Stated(given, m) = Over(given, Over(s, Over(m.configParams, w)))
  BY <1>1, Zenon DEF Stated
<1> QED BY <1>1, <1>2, Zenon DEF Over

LEMMA StructuredAt ==
  ASSUME NEW m, NEW k
  PROVE  /\ k \in DOMAIN Structured(m) <=>
              k \in DOMAIN ScalarParams(m.scalars) \cup DOMAIN ListParams(m.lists)
                      \cup DOMAIN RAIDParams(m.lists) \cup DOMAIN FilesystemParams(m)
         /\ k \in DOMAIN ScalarParams(m.scalars)
              => Structured(m)[k] = ScalarParams(m.scalars)[k]
         /\ k \notin DOMAIN ScalarParams(m.scalars) \cup DOMAIN ListParams(m.lists)
              /\ k \in DOMAIN RAIDParams(m.lists)
              => Structured(m)[k] = RAIDParams(m.lists)[k]
<1>1. PICK a, b, c, d : /\ a = ScalarParams(m.scalars) /\ b = ListParams(m.lists)
                        /\ c = RAIDParams(m.lists) /\ d = FilesystemParams(m)
  BY Zenon
<1>2. Structured(m) = Over(a, Over(b, Over(c, d)))
  BY <1>1, Zenon DEF Structured
<1> QED BY <1>1, <1>2, Zenon DEF Over

LEMMA FilledAt ==
  ASSUME NEW p, NEW k
  PROVE  /\ k \in DOMAIN Filled(p) <=> k \in DOMAIN p \cup DOMAIN DerivedParams(p) \cup DOMAIN Builtin
         /\ k \in DOMAIN p => Filled(p)[k] = p[k]
         /\ k \notin DOMAIN p /\ k \in DOMAIN DerivedParams(p) => Filled(p)[k] = DerivedParams(p)[k]
         /\ k \notin DOMAIN p \cup DOMAIN DerivedParams(p) /\ k \in DOMAIN Builtin
              => Filled(p)[k] = Builtin[k]
<1>1. PICK d, b : d = DerivedParams(p) /\ b = Builtin
  BY Zenon
<1>2. Filled(p) = Over(p, Over(d, b))
  BY <1>1, Zenon DEF Filled
<1> QED BY <1>1, <1>2, Zenon DEF Over

\* The parameters that only file system entries give.
LEMMA FilesystemKeys ==
  ASSUME NEW m
  PROVE  DOMAIN FilesystemParams(m)
           \subseteq {"swap_enabled", "swap_min_size_mib", "root_min_size_mib", "boot_fstype",
                      "root_fstype"}
<1>1. DOMAIN SwapParams(m) \subseteq {"swap_enabled"}
  BY DEF SwapParams
<1>2. \A filesystems : DOMAIN FieldParams(SizeParam, filesystems, "sizeMiB")
                         \subseteq {"swap_min_size_mib", "root_min_size_mib"}
  BY DEF FieldParams, SizeParam
<1>3. \A filesystems : DOMAIN FieldParams(FstypeParam, filesystems, "fstype")
                         \subseteq {"boot_fstype", "root_fstype"}
  BY DEF FieldParams, FstypeParam
<1>4. PICK a, b, c : /\ a = SwapParams(m)
                     /\ b = FieldParams(SizeParam, m.filesystems, "sizeMiB")
                     /\ c = FieldParams(FstypeParam, m.filesystems, "fstype")
  BY Zenon
<1>5. DOMAIN FilesystemParams(m) = DOMAIN a \cup (DOMAIN b \cup DOMAIN c)
  BY <1>4, OverDomain, ZenonT(30) DEF FilesystemParams
<1> QED BY <1>1, <1>2, <1>3, <1>4, <1>5, Zenon

LEMMA RAIDKeys ==
  ASSUME NEW lists
  PROVE  DOMAIN RAIDParams(lists)
           \subseteq {"storage_raid_devices", "storage_wipe_disks", "storage_raid_device_0",
                      "storage_raid_device_1"}
BY DEF RAIDParams

\* A scalar field is the caller's, then the policy's, then the installer
\* parameters'.
LEMMA ScalarStated ==
  ASSUME NEW given, NEW m, NEW k \in Scalars \ {"boot_firmware"}, DOMAIN m.lists \subseteq Lists
  PROVE  /\ k \in DOMAIN Stated(given, m)
              <=> k \in DOMAIN given \cup DOMAIN m.scalars \cup DOMAIN m.configParams
         /\ k \in DOMAIN given => Stated(given, m)[k] = given[k]
         /\ k \notin DOMAIN given /\ k \in DOMAIN m.scalars
              => Stated(given, m)[k] = Text(Sprint(m.scalars[k]))
         /\ k \notin DOMAIN given \cup DOMAIN m.scalars /\ k \in DOMAIN m.configParams
              => Stated(given, m)[k] = m.configParams[k]
<1>1. k \notin DOMAIN ListParams(m.lists)
  BY Zenon DEF ListParams, Lists, Scalars, Flags
<1>2. k \notin DOMAIN RAIDParams(m.lists)
  BY RAIDKeys, Zenon DEF Scalars, Flags
<1>3. k \notin DOMAIN FilesystemParams(m)
  BY FilesystemKeys, Zenon DEF Scalars, Flags
<1>4. k \notin DOMAIN WipeParams(m.lists)
  BY DEF WipeParams, Scalars, Flags
<1>5. /\ k \in DOMAIN ScalarParams(m.scalars) <=> k \in DOMAIN m.scalars
      /\ k \in DOMAIN m.scalars => ScalarParams(m.scalars)[k] = Text(Sprint(m.scalars[k]))
  BY Zenon DEF ScalarParams
<1>6. /\ k \in DOMAIN Structured(m) <=> k \in DOMAIN m.scalars
      /\ k \in DOMAIN m.scalars => Structured(m)[k] = Text(Sprint(m.scalars[k]))
  BY <1>1, <1>2, <1>3, <1>5, StructuredAt, ZenonT(30)
<1> QED BY <1>4, <1>6, StatedAt, Zenon

LEMMA ScalarFlat ==
  ASSUME NEW given, NEW m, NEW k \in Scalars \ {"boot_firmware"}, DOMAIN m.lists \subseteq Lists
  PROVE  /\ k \in DOMAIN Flat(given, m) <=>
              k \in DOMAIN given \cup DOMAIN m.scalars \cup DOMAIN m.configParams \cup DOMAIN Builtin
         /\ k \in DOMAIN given => Flat(given, m)[k] = given[k]
         /\ k \notin DOMAIN given /\ k \in DOMAIN m.scalars
              => Flat(given, m)[k] = Text(Sprint(m.scalars[k]))
         /\ k \notin DOMAIN given \cup DOMAIN m.scalars /\ k \in DOMAIN m.configParams
              => Flat(given, m)[k] = m.configParams[k]
         /\ k \notin DOMAIN given \cup DOMAIN m.scalars \cup DOMAIN m.configParams
              /\ k \in DOMAIN Builtin => Flat(given, m)[k] = Builtin[k]
<1>1. PICK p : p = Stated(given, m)
  BY Zenon
<1>2. k \notin DOMAIN DerivedParams(p)
  BY SMTT(30) DEF DerivedParams, Scalars, Flags
<1>3. Flat(given, m) = Filled(p)
  BY <1>1, Zenon DEF Flat
<1> QED BY <1>1, <1>2, <1>3, ScalarStated, FilledAt, SMTT(30)

-----------------------------------------------------------------------------
(* The fields of the merged policy come from the layers *)

\* A scalar of a layer: its type, and what validateProvisioningConfig says of it.
ScalarTyped(f, v) ==
  /\ f \in Scalars
  /\ v.type = "env" => f = "storage_encryption_passphrase"
  /\ v.text \in Seq(STRING)
  /\ f \in Flags => v.text \in {<<"true">>, <<"false">>}
  /\ f = "storage_encryption_key_size" => v.text \notin NoText
ScalarValid(f, v) == f \in DOMAIN OneOf => \E word \in OneOf[f] : v.text = <<word>>

LEMMA MergedScalars ==
  ASSUME IInv, NEW f \in DOMAIN Merged.scalars
  PROVE  /\ ScalarTyped(f, Merged.scalars[f])
         /\ phase = "serving" => ScalarValid(f, Merged.scalars[f])
<1>1. PICK i \in 1 .. 3 : /\ f \in DOMAIN policy[i].scalars
                          /\ Merged.scalars[f] = policy[i].scalars[f]
  BY ThreefoldAt, MergedFields
<1>2. PICK v : v = Merged.scalars[f]
  BY Zenon
<1>3. IsLayer(policy[i])
  BY LayerTyped, Zenon
<1>4. ScalarTyped(f, v)
  BY <1>1, <1>2, <1>3, Zenon DEF IsLayer, IsValue, ScalarTyped
<1>5. ASSUME phase = "serving" PROVE ScalarValid(f, v)
  <2>1. ValidLayer(policy[i])
    BY <1>5, Zenon DEF IInv
  <2> QED BY <1>1, <1>2, <2>1, ZenonT(30) DEF ValidLayer, Is, ScalarValid
<1> QED BY <1>2, <1>4, <1>5, Zenon

LEMMA MergedLists ==
  ASSUME IInv
  PROVE  /\ DOMAIN Merged.lists \subseteq Lists
         /\ \A f \in DOMAIN Merged.lists : Merged.lists[f] \in Seq(STRING) /\ Merged.lists[f] # <<>>
<1> SUFFICES ASSUME NEW f \in DOMAIN Merged.lists
             PROVE  f \in Lists /\ Merged.lists[f] \in Seq(STRING) /\ Merged.lists[f] # <<>>
  BY Zenon
<1>1. PICK i \in 1 .. 3 : /\ f \in DOMAIN SetLists(policy[i].lists)
                          /\ Merged.lists[f] = SetLists(policy[i].lists)[f]
  BY ThreefoldAt, MergedFields
<1>2. /\ f \in DOMAIN policy[i].lists /\ Merged.lists[f] = policy[i].lists[f]
      /\ policy[i].lists[f] # <<>>
  BY <1>1, Zenon DEF SetLists
<1>3. IsLayer(policy[i])
  BY LayerTyped, Zenon
<1> QED BY <1>2, <1>3, Zenon DEF IsLayer

LEMMA MergedConfigParams ==
  ASSUME IInv, NEW f \in DOMAIN Merged.configParams
  PROVE  IsValue(Merged.configParams[f], {"string", "number", "env"})
<1>1. PICK i \in 1 .. 3 : /\ f \in DOMAIN policy[i].configParams
                          /\ Merged.configParams[f] = policy[i].configParams[f]
  BY ThreefoldAt, MergedFields
<1>2. IsLayer(policy[i])
  BY LayerTyped, Zenon
<1> QED BY <1>1, <1>2, ZenonT(30) DEF IsLayer, IsParams

\* What the installer was given, in terms of the session.
LEMMA ConfigIs ==
  ASSUME IInv, config # None
  PROVE  /\ session # None /\ config.query \in Query
         /\ LET p == Flat(Over(config.query, session.params), session.policy)
            IN  \/ config.params = p /\ ~config.debian
                \/ config.params = Completed(p) /\ config.debian /\ ValidPreseed(p)
         /\ config.users = session.policy.users
         /\ config.modules = PartmanModules(Over(config.query, session.params), session.policy)
<1>1. PICK query \in Query : session # None /\ Given(query)
  BY Zenon DEF IInv
<1>2. PICK q : q = Requested(query)
  BY Zenon
<1>3. PICK given : given = Over(query, session.params)
  BY Zenon
<1>4. /\ q.params = Flat(given, session.policy) /\ q.users = session.policy.users
      /\ q.modules = PartmanModules(given, session.policy)
  BY <1>2, <1>3, Zenon DEF Requested, Project
<1>5. /\ config.query = query /\ config.users = q.users /\ config.modules = q.modules
      /\ \/ config.params = q.params /\ ~config.debian
         \/ config.params = Completed(q.params) /\ config.debian /\ ValidPreseed(q.params)
  BY <1>1, <1>2 DEF Given
<1> QED BY <1>1, <1>3, <1>4, <1>5, ZenonT(30)

\* The preseed adds parameters and changes none.
LEMMA CompletedKeeps ==
  ASSUME NEW p, NEW k \in DOMAIN p
  PROVE  k \in DOMAIN Completed(p) /\ Completed(p)[k] = p[k]
BY OverHas, Zenon DEF Completed

LEMMA ConfigKeeps ==
  ASSUME IInv, config # None,
         NEW k \in DOMAIN Flat(Over(config.query, session.params), session.policy)
  PROVE  /\ k \in DOMAIN config.params
         /\ config.params[k] = Flat(Over(config.query, session.params), session.policy)[k]
<1>1. PICK p : p = Flat(Over(config.query, session.params), session.policy)
  BY Zenon
<1>2. config.params = p \/ config.params = Completed(p)
  BY <1>1, ConfigIs, ZenonT(30)
<1> QED BY <1>1, <1>2, CompletedKeeps, Zenon

-----------------------------------------------------------------------------
(* The disks that are wiped *)

\* The disks to wipe, by the order in which projectProvisioningParams looks.
Unnamed(given, m, stated) ==
  /\ "storage_wipe_disks" \notin DOMAIN given \cup DOMAIN m.configParams
  /\ "raid_devices" \notin DOMAIN m.lists /\ "wipe_patterns" \notin DOMAIN m.lists
  /\ "storage_disk" \notin DOMAIN stated
WipeSource(given, m, stated, v) ==
  \/ "storage_wipe_disks" \in DOMAIN given /\ v = given["storage_wipe_disks"]
  \/ "raid_devices" \in DOMAIN m.lists /\ v = Text(m.lists["raid_devices"])
  \/ "storage_wipe_disks" \in DOMAIN m.configParams /\ v = m.configParams["storage_wipe_disks"]
  \/ "wipe_patterns" \in DOMAIN m.lists /\ v = Text(m.lists["wipe_patterns"])
  \/ "storage_disk" \in DOMAIN stated /\ v = Text(stated["storage_disk"].text)

LEMMA WipeFlat ==
  ASSUME NEW given, NEW m, DOMAIN m.lists \subseteq Lists, DOMAIN m.scalars \subseteq Scalars
  PROVE  /\ "storage_wipe_disks" \in DOMAIN Flat(given, m)
         /\ \/ /\ Unnamed(given, m, Stated(given, m))
               /\ Flat(given, m)["storage_wipe_disks"] = Builtin["storage_wipe_disks"]
            \/ WipeSource(given, m, Stated(given, m), Flat(given, m)["storage_wipe_disks"])
<1>0. PICK p, t : p = Flat(given, m) /\ t = Stated(given, m)
  BY Zenon
<1> DEFINE w == "storage_wipe_disks"
<1>1. w \notin DOMAIN ScalarParams(m.scalars)
  BY Zenon DEF ScalarParams, Scalars, Flags
<1>2. w \notin DOMAIN ListParams(m.lists)
  BY Zenon DEF ListParams, Lists
<1>3. w \notin DOMAIN FilesystemParams(m)
  BY FilesystemKeys
<1>4. /\ w \in DOMAIN RAIDParams(m.lists) <=> "raid_devices" \in DOMAIN m.lists
      /\ "raid_devices" \in DOMAIN m.lists
           => RAIDParams(m.lists)[w] = Text(m.lists["raid_devices"])
  BY SMTT(30) DEF RAIDParams
<1>5. /\ w \in DOMAIN Structured(m) <=> "raid_devices" \in DOMAIN m.lists
      /\ "raid_devices" \in DOMAIN m.lists => Structured(m)[w] = Text(m.lists["raid_devices"])
  BY <1>1, <1>2, <1>3, <1>4, StructuredAt, ZenonT(30)
<1>6. /\ w \in DOMAIN WipeParams(m.lists) <=> "wipe_patterns" \in DOMAIN m.lists
      /\ "wipe_patterns" \in DOMAIN m.lists
           => WipeParams(m.lists)[w] = Text(m.lists["wipe_patterns"])
  BY DEF WipeParams
<1>7. \/ w \in DOMAIN given /\ w \in DOMAIN t /\ t[w] = given[w]
      \/ /\ "raid_devices" \in DOMAIN m.lists /\ w \in DOMAIN t
         /\ t[w] = Text(m.lists["raid_devices"])
      \/ w \in DOMAIN m.configParams /\ w \in DOMAIN t /\ t[w] = m.configParams[w]
      \/ /\ "wipe_patterns" \in DOMAIN m.lists /\ w \in DOMAIN t
         /\ t[w] = Text(m.lists["wipe_patterns"])
      \/ /\ w \notin DOMAIN t /\ w \notin DOMAIN given \cup DOMAIN m.configParams
         /\ "raid_devices" \notin DOMAIN m.lists /\ "wipe_patterns" \notin DOMAIN m.lists
  <2>1. PICK s, x, c : s = Structured(m) /\ x = WipeParams(m.lists) /\ c = m.configParams
    BY Zenon
  <2>2. /\ w \in DOMAIN t <=> w \in DOMAIN given \cup DOMAIN s \cup DOMAIN c \cup DOMAIN x
        /\ w \in DOMAIN given => t[w] = given[w]
        /\ w \notin DOMAIN given /\ w \in DOMAIN s => t[w] = s[w]
        /\ w \notin DOMAIN given \cup DOMAIN s /\ w \in DOMAIN c => t[w] = c[w]
        /\ w \notin DOMAIN given \cup DOMAIN s \cup DOMAIN c /\ w \in DOMAIN x => t[w] = x[w]
    BY <1>0, <2>1, StatedAt, SMTT(30)
  <2>3. /\ w \in DOMAIN s <=> "raid_devices" \in DOMAIN m.lists
        /\ "raid_devices" \in DOMAIN m.lists => s[w] = Text(m.lists["raid_devices"])
        /\ w \in DOMAIN x <=> "wipe_patterns" \in DOMAIN m.lists
        /\ "wipe_patterns" \in DOMAIN m.lists => x[w] = Text(m.lists["wipe_patterns"])
    BY <1>5, <1>6, <2>1, Zenon
  <2> QED BY <2>1, <2>2, <2>3, Zenon
<1>8. /\ w \in DOMAIN DerivedParams(t) <=> "storage_disk" \in DOMAIN t
      /\ "storage_disk" \in DOMAIN t => DerivedParams(t)[w] = Text(t["storage_disk"].text)
  BY DEF DerivedParams
<1>9. p = Filled(t)
  BY <1>0, Zenon DEF Flat
<1>10. w \in DOMAIN Builtin
  BY ZenonT(30) DEF Builtin
<1>11. /\ w \in DOMAIN p
       /\ w \in DOMAIN t => p[w] = t[w]
       /\ w \notin DOMAIN t /\ "storage_disk" \in DOMAIN t => p[w] = Text(t["storage_disk"].text)
       /\ w \notin DOMAIN t /\ "storage_disk" \notin DOMAIN t => p[w] = Builtin[w]
  BY <1>8, <1>9, <1>10, FilledAt, Zenon
<1>12. (Unnamed(given, m, t) /\ p[w] = Builtin[w]) \/ WipeSource(given, m, t, p[w])
  BY <1>7, <1>11, Zenon DEF Unnamed, WipeSource
<1> QED BY <1>0, <1>11, <1>12, Zenon

\* Naming a disk in a map.
OnDisks(fields) == Disks(fields, {"storage_wipe_disks", "storage_disk"})

LEMMA DisksHas ==
  ASSUME NEW fields, NEW k \in {"storage_wipe_disks", "storage_disk"}, k \in DOMAIN fields
  PROVE  Range(fields[k].text) \subseteq OnDisks(fields)
BY Zenon DEF Disks, OnDisks

LEMMA DisksNone ==
  ASSUME NEW fields, "storage_wipe_disks" \notin DOMAIN fields, "storage_disk" \notin DOMAIN fields
  PROVE  OnDisks(fields) = {}
BY Zenon DEF Disks, OnDisks

LEMMA WipesStep == IInv => WipesOnlyNamed
<1> DEFINE wiped == config.params["storage_wipe_disks"]
<1> SUFFICES ASSUME IInv, config # None, DisksNamed(config) # {}
             PROVE  \/ Range(wiped.text) \subseteq TargetDisks(config)
                    \/ TargetDisks(config) = {} /\ wiped = Builtin["storage_wipe_disks"]
  BY Zenon DEF WipesOnlyNamed
<1>1. session # None
  BY ConfigIs, Zenon
<1>2. PICK given, m, p, t : /\ given = Over(config.query, session.params) /\ m = session.policy
                            /\ p = Flat(given, m) /\ t = Stated(given, m)
  BY Zenon
<1>3. /\ m.scalars = ResolvedScalars(Merged.scalars) /\ m.lists = Merged.lists
  BY <1>1, <1>2, SessionFields, ZenonT(30)
<1>4. DOMAIN m.lists \subseteq Lists /\ DOMAIN m.scalars \subseteq Scalars
  BY <1>3, MergedLists, MergedScalars, ResolvedScalarAt, ZenonT(30) DEF ScalarTyped
<1>5. PICK w : w = Range(wiped.text)
  BY Zenon
<1>6. PICK lists : lists = UNION {Range(m.lists[f]) :
                                    f \in {"raid_devices", "wipe_patterns"} \cap DOMAIN m.lists}
  BY Zenon
<1>7. TargetDisks(config)
        = OnDisks(given) \cup OnDisks(m.scalars) \cup OnDisks(m.configParams) \cup lists
  BY <1>2, <1>6, ZenonT(30) DEF TargetDisks, OnDisks
<1>8. /\ "storage_wipe_disks" \in DOMAIN p
      /\ wiped = p["storage_wipe_disks"] /\ w = Range(p["storage_wipe_disks"].text)
  <2>1. "storage_wipe_disks" \in DOMAIN p
    BY <1>2, <1>4, WipeFlat, Zenon
  <2>2. config.params["storage_wipe_disks"] = p["storage_wipe_disks"]
    BY <1>2, <2>1, ConfigKeeps, Zenon
  <2> QED BY <1>5, <2>1, <2>2, Zenon
<1>9. \A words : Text(words).text = words
  BY Zenon DEF Text
<1>10. \A f \in {"raid_devices", "wipe_patterns"} \cap DOMAIN m.lists :
         Range(m.lists[f]) \subseteq lists
  BY <1>6, Zenon
<1>11. "storage_disk" \in DOMAIN t =>
         Range(t["storage_disk"].text)
           \subseteq OnDisks(given) \cup OnDisks(m.scalars) \cup OnDisks(m.configParams)
  <2> SUFFICES ASSUME "storage_disk" \in DOMAIN t
               PROVE  Range(t["storage_disk"].text)
                        \subseteq OnDisks(given) \cup OnDisks(m.scalars) \cup OnDisks(m.configParams)
    BY Zenon
  <2>1. "storage_disk" \in Scalars \ {"boot_firmware"}
    BY Zenon DEF Scalars
  <2>2. \/ "storage_disk" \in DOMAIN given /\ t["storage_disk"] = given["storage_disk"]
        \/ /\ "storage_disk" \in DOMAIN m.scalars
           /\ t["storage_disk"] = Text(Sprint(m.scalars["storage_disk"]))
        \/ /\ "storage_disk" \in DOMAIN m.configParams
           /\ t["storage_disk"] = m.configParams["storage_disk"]
    BY <1>2, <1>4, <2>1, ScalarStated, SMTT(30)
  <2>3. ASSUME "storage_disk" \in DOMAIN m.scalars
        PROVE  Sprint(m.scalars["storage_disk"]) = m.scalars["storage_disk"].text
    <3>1. /\ "storage_disk" \in DOMAIN Merged.scalars
          /\ m.scalars["storage_disk"] = Merged.scalars["storage_disk"]
      BY <1>3, <2>3, ResolvedScalarAt, Zenon
    <3>2. ScalarTyped("storage_disk", Merged.scalars["storage_disk"])
      BY <3>1, MergedScalars, Zenon
    <3> QED BY <3>1, <3>2, ZenonT(30) DEF ScalarTyped, Sprint
  <2> QED BY <1>9, <2>2, <2>3, DisksHas, Zenon
<1>12. CASE Unnamed(given, m, t) /\ p["storage_wipe_disks"] = Builtin["storage_wipe_disks"]
  <2>1. "storage_disk" \in Scalars \ {"boot_firmware"} /\ "storage_wipe_disks" \notin Scalars
    BY Zenon DEF Scalars, Flags
  <2>2. "storage_disk" \notin DOMAIN given \cup DOMAIN m.scalars \cup DOMAIN m.configParams
    BY <1>2, <1>4, <1>12, <2>1, ScalarStated, ZenonT(30) DEF Unnamed
  <2>3. OnDisks(given) = {} /\ OnDisks(m.scalars) = {} /\ OnDisks(m.configParams) = {}
    BY <1>4, <1>12, <2>1, <2>2, DisksNone, Zenon DEF Unnamed
  <2>4. lists = {}
    BY <1>6, <1>12, Zenon DEF Unnamed
  <2> QED BY <1>7, <1>8, <1>12, <2>3, <2>4, Zenon
<1>13. CASE WipeSource(given, m, t, p["storage_wipe_disks"])
  <2>2. w \subseteq OnDisks(given) \cup OnDisks(m.scalars) \cup OnDisks(m.configParams) \cup lists
    <3>1. w = Range(p["storage_wipe_disks"].text)
      BY <1>8, Zenon
    <3> QED BY <1>9, <1>10, <1>11, <1>13, <3>1, DisksHas, ZenonT(30) DEF WipeSource
  <2> QED BY <1>5, <1>7, <2>2, Zenon
<1> QED BY <1>2, <1>4, <1>12, <1>13, WipeFlat, ZenonT(30)

\* Once the policy, its installer parameters or the caller names a disk, only
\* disks so named are wiped, unless all that is named is member disks in flat
\* parameters: then projectProvisioningParams fills in its built-in list.
THEOREM OnlyNamedDisksAreWiped == Spec => []WipesOnlyNamed
BY ProvisioningInvariance, WipesStep, PTL
=============================================================================
