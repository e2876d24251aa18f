--------------------------- MODULE MCBootTarget ----------------------------
(* Mappings files, identities and forms for TLC: two targets, up to two     *)
(* rules of different kinds, parameters and structured fields on any layer. *)
EXTENDS BootTarget, TLC

CONSTANTS t1, t2, t3   \* t3 is never configured

Str(w) == [type |-> "string", text |-> <<w>>]
Num(w) == [type |-> "number", text |-> <<w>>]
Float(w) == [type |-> "float", text |-> <<w>>]
Env(w) == [type |-> "env", text |-> <<w>>]
Malformed == [type |-> "malformed", text |-> <<>>]

Identities == [ip : {"ip1", "ip2"}, name : {<<>>, <<"web">>}]
Variables == [v \in {<<"SET">>} |-> <<"value">>]
Digits == [t \in {<<"1e+06">>} |-> <<"1000000">>]
MacText == <<"mac">>
Forms == {<<>>, "hostname" :> Str("posted"), "release" :> Str("posted")}

\* Parameters of a rule, of a target and of the defaults.
RuleParams == {<<>>, "hostname" :> Num("7"), "hostname" :> Env("SET"),
               "linuxargs" :> Env("MISSING"), "linuxargs" :> Malformed}
TargetParams == {<<>>, ("hostname" :> Str("db")) @@ ("linuxargs" :> Str("legacy"))
                         @@ ("port" :> Num("22")) @@ ("size" :> Float("1e+06"))}
DefaultParams == {<<>>, ("hostnamePrefix" :> Str("rack")) @@ ("release" :> Str("old"))}

Structured == {<<>>, ("hostname" :> Str("srv")) @@ ("release" :> Str("new"))
                       @@ ("linuxargs" :> Str("quiet"))}

Rule(kind, of, default, targets, params) ==
  [kind |-> kind, of |-> of, default |-> default, targets |-> targets,
   params |-> params, structured |-> <<>>]

FirstRules ==
  {Rule("hostname", {<<"web">>}, d, ts, p) :
     d \in {None, t1}, ts \in {{t1}, {t1, t2}}, p \in RuleParams}
  \cup {Rule("network", {"ip1", "ip2"}, t2, {t1}, <<>>),
        Rule("network", {"ip1", "ip2"}, t3, {t1}, <<>>),
        Rule("ip", {"ip2"}, None, {t3}, <<>>)}
SecondRules ==
  {Rule("ip", {"ip2"}, d, {t2}, <<>>) : d \in {None, t2}}
  \cup {Rule("mac", {}, None, {t1, t2}, <<>>)}

\* No rule, one, or one followed by one of a kind that comes before it.
RuleLists == {<<>>} \cup {<<r>> : r \in FirstRules}
               \cup {<<r, q>> : r \in FirstRules, q \in SecondRules}

Files ==
  {[defaults |-> [params |-> dp, structured |-> <<>>],
    targets |-> (t1 :> [params |-> tp, structured |-> s]) @@ (t2 :> NoLayer),
    rules |-> rs] :
     dp \in DefaultParams, tp \in TargetParams, s \in Structured, rs \in RuleLists}
=============================================================================
