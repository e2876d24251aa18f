-------------------------- MODULE MCProvisioning ---------------------------
(***************************************************************************)
(* Layers for TLC.  Each of the three places of a policy takes a part of a *)
(* layout that only a merge completes, a part that overrides another, one  *)
(* that does not validate, or nothing.                                     *)
(***************************************************************************)
EXTENDS Provisioning, TLC

Empty ==
  [scalars |-> <<>>, lists |-> <<>>, filesystems |-> <<>>, configParams |-> <<>>,
   users |-> <<>>]

True == Text(<<"true">>)
False == Text(<<"false">>)
Env(name) == [type |-> "env", text |-> <<name>>]
Number(digits) == [type |-> "number", text |-> <<digits>>]
Scalar(f, word) == f :> Text(<<word>>)

Raid ==
  [Empty EXCEPT !.scalars = Scalar("storage_mode", "raid") @@ Scalar("boot_firmware", "uefi")
                              @@ Scalar("storage_raid_level", "1")]
MemberDisks == [Empty EXCEPT !.lists = "raid_devices" :> <<"sda", "sdb">>]
OneMember == [Empty EXCEPT !.lists = "raid_devices" :> <<"sdc">>]
NoMembers == [Empty EXCEPT !.lists = "raid_devices" :> <<>>,
                           !.scalars = Scalar("boot_firmware", "bios")]
RaidAlone == [Empty EXCEPT !.scalars = Scalar("storage_mode", "raid"),
                           !.lists = "raid_devices" :> <<"sda">>]
GlobMembers == [Empty EXCEPT !.lists = "raid_devices" :> <<"sda", "sd*">>]
Mode(word) == [Empty EXCEPT !.scalars = Scalar("storage_mode", word)]
Regular ==
  [Empty EXCEPT !.scalars = Scalar("storage_mode", "regular") @@ Scalar("storage_disk", "sdd")]

Encrypted == [Empty EXCEPT !.scalars = "storage_encryption_enabled" :> True]
Plain == [Empty EXCEPT !.scalars = "storage_encryption_enabled" :> False]
Passphrase(v) == [Empty EXCEPT !.scalars = "storage_encryption_passphrase" :> v]
Cipher(word) == [Empty EXCEPT !.scalars = Scalar("storage_encryption_cipher", word)]
KeySize == [Empty EXCEPT !.scalars = "storage_encryption_key_size" :> Number("0")]
Tpm == [Empty EXCEPT !.scalars = "storage_encryption_tpm_enabled" :> True]

Patterns == [Empty EXCEPT !.lists = "wipe_patterns" :> <<"sde", "sdf">>]
Packages(list) == [Empty EXCEPT !.lists = "packages_install" :> list]

Xfs ==
  [Empty EXCEPT !.filesystems = ("root" :> Scalar("fstype", "xfs"))
                                  @@ ("swap" :> Scalar("sizeMiB", "4096"))]
NoSwap == [Empty EXCEPT !.filesystems = "swap" :> ("absent" :> True)]
Negative == [Empty EXCEPT !.filesystems = "root" :> Scalar("sizeMiB", "-1")]

Admin == [Empty EXCEPT !.users = "admin" :> (("primary" :> True) @@ ("password" :> Env("SET")))]
Second == [Empty EXCEPT !.users = "ops" :> (("primary" :> True)
                                              @@ ("groups" :> [type |-> "list", text |-> <<>>]))]
NoAdmin == [Empty EXCEPT !.users = "admin" :> ("absent" :> True)]
BackAdmin == [Empty EXCEPT !.users = "admin" :> (("absent" :> False)
                                                   @@ ("password" :> Env("UNSET")))]

Size(v) == [Empty EXCEPT !.configParams = "size" :> v]
Modules == [Empty EXCEPT !.configParams = "modules" :> Text(<<"partman-btrfs">>)]
RaidByHand ==
  [Empty EXCEPT !.configParams = Scalar("storage_mode", "raid")
                  @@ ("storage_raid_devices" :> Text(<<"sdk", Blank, "sdl">>))]

DefaultLayers ==
  {Empty, Raid, MemberDisks, Encrypted, Passphrase(Env("SET")), Passphrase(Env("EMPTY")),
   Mode("lvm"), NoSwap, Xfs, Admin, Packages(<<"vim">>), Size(Number("20000000"))}
TargetLayers ==
  {Empty, Raid, MemberDisks, OneMember, Regular, Encrypted, Tpm, Passphrase(Text(<<"secret">>)),
   Passphrase(Number("1")), Xfs, NoSwap, Second, NoAdmin, Modules, RaidByHand, Patterns,
   Negative, GlobMembers, Cipher("blank")}
RuleLayers ==
  {Empty, MemberDisks, NoMembers, RaidAlone, Mode("manual"), KeySize, Regular, Plain, Encrypted,
   Tpm, Xfs, NoSwap, BackAdmin, Packages(<<>>), Packages(<<Blank>>), Size(Env("UNSET")),
   Size(Number("1"))}

MCPolicies == {<<d, t, r>> : d \in DefaultLayers, t \in TargetLayers, r \in RuleLayers}
MCLegacyParams == {<<>>, ("limit" :> Number("20000000")) @@ Scalar("storage_wipe_disks", "sdg")}
MCQuery ==
  {<<>>, Scalar("root_fstype", "btrfs") @@ Scalar("storage_disk", "sdh"),
   Scalar("storage_mode", "raid"), "storage_raid_devices" :> Text(<<"sdi", "sdj">>),
   "storage_encryption_enabled" :> True, "storage_encryption_tpm_enabled" :> True}
MCGlobs == {"sd*"}
MCEnviron == (<<"SET">> :> <<"found">>) @@ (<<"EMPTY">> :> <<>>)
MCPrinted == <<"20000000">> :> <<"2e+07">>

\* No action reads config, so a second fetch gives what it would have given as
\* the first one: states with a configuration are checked, not explored.
Unfetched == config = None
=============================================================================
