--------------------------- MODULE MCConfigServer ----------------------------
(***************************************************************************)
(* Data directories and requests for TLC: a boot script, an installer      *)
(* template without structured encryption, Debian's preseed, a partial and *)
(* a static helper; each file defines one or two of them.                  *)
(***************************************************************************)
EXTENDS ConfigServer, TLC

MCNames == {"boot", "kickstart", "preseed", "partial", "helper"}

Mark(t) == [op |-> "text", text |-> t]
Show(ident) == [op |-> "print", ident |-> ident]
ShowRoot(ident) == [op |-> "root", ident |-> ident]
Apply(ident) == [op |-> "apply", ident |-> ident]
Call(n) == [op |-> "call", name |-> n]
When(ident, n) == [op |-> "when", ident |-> ident, name |-> n]

Host == <<"hostname">>
Admin == <<"users", "admin">>

File(defs) == [parses |-> TRUE, defs |-> defs]
Unparsable == [parses |-> FALSE, defs |-> <<>>]

ShippedKickstart == <<Mark("shipped"), Show(<<"installerExtra">>)>>
Shipped ==
  File(("kickstart" :> ShippedKickstart)
         @@ ("preseed" :> <<Mark("preseed"), Call("partial")>>)
         @@ ("partial" :> <<Show(Admin)>>))

Copied == File("kickstart" :> ShippedKickstart)
Changed == File("kickstart" :> <<Mark("base")>>)

\* Files of the data directory
DiskFiles ==
  {File("boot" :> <<Mark("base"), When(Host, "partial")>>),
   Copied,
   File("kickstart" :> <<Mark("base"), Show(Host)>>),
   File("kickstart" :> <<>>),
   File("helper" :> <<Mark("base"), Call("partial")>>),
   File("partial" :> <<Show(Host), Call("partial")>>)}

\* Files of an environment
OverrideFiles ==
  {File("boot" :> <<Mark("env"), Apply(Host)>>),
   Copied,
   File("kickstart" :> <<Mark("env"), Show(Admin), Apply(Host)>>),
   File(("kickstart" :> <<>>) @@ ("partial" :> <<>>)),
   File("helper" :> <<Mark("env"), Show(Host)>>),
   File(("partial" :> <<Mark("env"), Show(Host)>>)
          @@ ("boot" :> <<ShowRoot(Admin), Call("partial")>>))}

In(e) == {[env |-> e, file |-> f] : f \in OverrideFiles}

\* Pairs of files that define what others define too.  The environments are walked
\* in the order of their names.
Shared(e) == {o \in In(e) : {"kickstart", "partial"} \cap DOMAIN o.file.defs # {}}
Twice == Shared("testing") \X Shared("testing")
Pairs == (Shared("canary") \X Shared("default")) \cup (Shared("default") \X Shared("testing"))

MCDataDirs ==
  [embedded : {<<Shipped>>}, disk : {<<f>> : f \in DiskFiles} \cup {<<Copied, Changed>>},
   overrides : {<<>>} \cup {<<o>> : o \in In("testing")}]
  \cup [embedded : {<<Shipped>>}, disk : {<<>>}, overrides : Pairs]
  \cup [embedded : {<<Shipped>>}, disk : {<<>>, <<Changed, Copied>>}, overrides : Twice]
  \cup [embedded : {<<Shipped>>}, disk : {<<Unparsable>>}, overrides : {<<>>}]

Value(type) == [type |-> type, out |-> {}]
MCParams ==
  {<<>>, "hostname" :> Value("text"),
   ("hostname" :> Value("text")) @@ ("users" :> Value("map")), "users" :> Value("text")}

MCRequests ==
  [name : {"boot", "kickstart"}, env : {NoName, "testing"}, params : MCParams,
   extra : {NoName, "partial"}, encrypted : BOOLEAN, layout : {TRUE}]
  \cup [name : {"preseed"}, env : {NoName, "testing"}, params : MCParams,
        extra : {NoName}, encrypted : {TRUE}, layout : BOOLEAN]
  \cup [name : {"kickstart"}, env : {NoName, "testing"}, params : {"hostname" :> Absent},
        extra : {NoName}, encrypted : {FALSE}, layout : {TRUE}]
  \cup [name : {"helper"}, env : {NoName, "testing"}, params : {"hostname" :> Value("text")},
        extra : {NoName}, encrypted : {FALSE}, layout : {TRUE}]
=============================================================================
