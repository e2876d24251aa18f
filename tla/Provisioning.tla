--------------------------- MODULE Provisioning ----------------------------
(***************************************************************************)
(* Structured policy on its way to the installer: the defaults, the target *)
(* and the matched rule are validated, merged and resolved; a selection is *)
(* stored as JSON until the host polls again; the boot script is rendered  *)
(* and the same data stored, as JSON, in a boot session; and the           *)
(* installer's configuration is rendered from that session.                *)
(*                                                                         *)
(* Data: a layer keeps the fields that are set, by the way they merge:     *)
(* strings and pointers (scalars), lists, file systems, installer          *)
(* parameters and users.  A field with a flat parameter has its name.  A   *)
(* value has the type YAML gave it and a text, a sequence of words.  Of    *)
(* the three Debian layouts, which are computed alike, one is kept.        *)
(***************************************************************************)
EXTENDS Integers, Sequences, FiniteSets, FiniteSetsExt

CONSTANTS
  Policies,      \* <<defaults, target, rule>>: the layers of one mappings file
  LegacyParams,  \* parameters that the resolver merged from params sections
  Query,         \* query parameters an installer may add to its request
  Environ,       \* the environment variables that are set, with their texts
  Printed,       \* the digits of a large number -> how Go prints it as a float
  Globs,         \* words that are no explicit path of a device
  Blank,         \* a word of white space
  None           \* no selection, no session, nothing rendered yet

Text(words) == [type |-> "string", text |-> words]
NoText == {<<>>, <<Blank>>}
IsTrue(fields, f) == f \in DOMAIN fields /\ fields[f].text = <<"true">>
Is(fields, f, word) == f \in DOMAIN fields /\ fields[f].text = <<word>>
Entry(map, n) == IF n \in DOMAIN map THEN map[n] ELSE <<>>

\* A map of fields over another one, whose other fields it keeps.
Over(fields, base) ==
  [f \in DOMAIN fields \cup DOMAIN base |-> IF f \in DOMAIN fields THEN fields[f] ELSE base[f]]

\* The fields of ProvisioningConfig that are projected, by their parameters.
Flags ==
  {"storage_encryption_enabled", "storage_encryption_tpm_enabled",
   "storage_encryption_tpm_require_sha256_bank", "storage_raid_boot_degraded",
   "time_utc", "time_ntp", "storage_wipe", "repo_firmware", "repo_contrib", "repo_non_free"}
Scalars ==
  Flags \cup
  {"locale_language", "locale_keyboard", "time_timezone", "hostname", "network_bootproto",
   "packages_update_policy", "storage_disk", "storage_mode", "vg_name", "storage_raid_level",
   "storage_encryption_passphrase", "storage_encryption_cipher", "storage_encryption_hash",
   "storage_encryption_key_size", "storage_encryption_tpm_device", "storage_encryption_tpm_pcrs",
   "storage_encryption_tpm_initramfs", "boot_firmware", "boot_timeout_seconds", "release",
   "repo_mirror", "installer_config_template"}
Lists ==
  {"nameservers", "packages_install", "packages_groups", "wipe_patterns", "raid_devices",
   "linuxargs", "boot_installed_args", "installer_late_commands"}

IsValue(v, types) == v.type \in types /\ v.text \in Seq(STRING)
IsParams(fields, types) == \A f \in DOMAIN fields : IsValue(fields[f], types)

\* ProvisioningConfig and the users beside it.  A *bool is "true" or "false" and
\* a *int has digits; only the passphrase can be a reference to the environment.
IsLayer(l) ==
  /\ DOMAIN l = {"scalars", "lists", "filesystems", "configParams", "users"}
  /\ DOMAIN l.scalars \subseteq Scalars
  /\ \A f \in DOMAIN l.scalars :
       /\ IsValue(l.scalars[f], {"string", "number"}
                                  \cup {t \in {"env"} : f = "storage_encryption_passphrase"})
       /\ f \in Flags => l.scalars[f].text \in {<<"true">>, <<"false">>}
       /\ f = "storage_encryption_key_size" => l.scalars[f].text \notin NoText
  /\ DOMAIN l.lists \subseteq Lists /\ \A f \in DOMAIN l.lists : l.lists[f] \in Seq(STRING)
  /\ \A n \in DOMAIN l.filesystems :
       /\ DOMAIN l.filesystems[n] \subseteq {"absent", "fstype", "sizeMiB"}
       /\ IsParams(l.filesystems[n], {"string", "number"})
  /\ IsParams(l.configParams, {"string", "number", "env"})
  /\ \A n \in DOMAIN l.users :
       /\ DOMAIN l.users[n] \subseteq {"absent", "primary", "password", "groups"}
       /\ \A f \in {"absent", "primary"} \cap DOMAIN l.users[n] : l.users[n][f].type = "string"

ASSUME LayersAssumption == \A p \in Policies : \A i \in 1 .. 3 : IsLayer(p[i])

\* The resolver looked the parameters up; a query is text.
ASSUME ParamsAssumption ==
  /\ \A p \in LegacyParams : IsParams(p, {"string", "number"})
  /\ \A q \in Query : IsParams(q, {"string"})

ASSUME WordsAssumption ==
  /\ \A e \in DOMAIN Environ : Environ[e] \in Seq(STRING)
  /\ \A t \in DOMAIN Printed : Printed[t] \in Seq(STRING)
  /\ Blank \in STRING \ {"512"}

VARIABLES
  policy,   \* the three layers
  params,   \* the legacy parameters
  phase,    \* "starting", "serving" or "failed"
  state,    \* the stored selection
  session,  \* the stored boot session
  script,   \* what the boot script was rendered with
  config    \* what the installer's configuration was rendered with

vars == <<policy, params, phase, state, session, script, config>>

Init ==
  /\ policy \in Policies /\ params \in LegacyParams
  /\ phase = "starting"
  /\ state = None /\ session = None /\ script = None /\ config = None

-----------------------------------------------------------------------------
(* Validation of one layer *)

OneOf ==
  [storage_mode |-> {"regular", "plain", "lvm", "raid", "manual"},
   network_bootproto |-> {"dhcp", "static"}, boot_firmware |-> {"uefi", "bios"},
   storage_encryption_tpm_initramfs |-> {"dracut"}, storage_encryption_tpm_pcrs |-> {"7", "11"}]

\* validateRAIDConfig; what must be complete is so only after the merge.
ValidRAID(layer, complete) ==
  LET raid == Is(layer.scalars, "storage_mode", "raid")
      given == "raid_devices" \in DOMAIN layer.lists
      firmware == "boot_firmware" \in DOMAIN layer.scalars
  IN  /\ "storage_raid_level" \in DOMAIN layer.scalars
           => Is(layer.scalars, "storage_raid_level", "1")
      /\ given => Range(layer.lists["raid_devices"]) \cap (Globs \cup {Blank}) = {}
      /\ raid /\ given => Len(layer.lists["raid_devices"]) = 2
      /\ raid /\ (firmware \/ complete) => Is(layer.scalars, "boot_firmware", "uefi")
      /\ raid /\ complete => given /\ "storage_raid_level" \in DOMAIN layer.scalars

\* validateStorageEncryptionConfig
ValidEncryption(scalars, complete) ==
  LET given == "storage_encryption_passphrase" \in DOMAIN scalars
      enabled == IsTrue(scalars, "storage_encryption_enabled")
  IN  /\ given => /\ scalars["storage_encryption_passphrase"].type \in {"string", "env"}
                  /\ scalars["storage_encryption_passphrase"].text \notin NoText
      /\ ~Is(scalars, "storage_encryption_key_size", "0")
      /\ complete /\ enabled => given
      /\ complete /\ IsTrue(scalars, "storage_encryption_tpm_enabled") => enabled

\* validateProvisioningConfig
ValidLayer(layer) ==
  /\ \A f \in DOMAIN layer.scalars \cap DOMAIN OneOf :
       \E word \in OneOf[f] : Is(layer.scalars, f, word)
  /\ \A f \in DOMAIN layer.lists : Blank \notin Range(layer.lists[f])
  /\ \A n \in DOMAIN layer.filesystems :
       IsTrue(layer.filesystems[n], "absent") \/ ~Is(layer.filesystems[n], "sizeMiB", "-1")
  /\ ValidRAID(layer, FALSE)
  /\ ValidEncryption(layer.scalars, FALSE)

\* The server starts only with a file that validates.
Load ==
  /\ phase = "starting"
  /\ phase' = IF \A i \in 1 .. 3 : ValidLayer(policy[i]) THEN "serving" ELSE "failed"
  /\ UNCHANGED <<policy, params, state, session, script, config>>

-----------------------------------------------------------------------------
(* The merge *)

\* NewResolver copies every layer, and append([]string(nil), ...) makes an
\* empty list an unset one.
SetLists(lists) == [f \in {g \in DOMAIN lists : lists[g] # <<>>} |-> lists[f]]
CopyUser(user) ==
  [f \in {g \in DOMAIN user : user[g].type = "list" => user[g].text # <<>>} |-> user[f]]
Copy(layer) ==
  [scalars |-> layer.scalars, lists |-> SetLists(layer.lists),
   filesystems |-> layer.filesystems, absent |-> {}, configParams |-> layer.configParams,
   users |-> [n \in DOMAIN layer.users |-> CopyUser(layer.users[n])]]

\* A string that is not empty, a pointer or list that is not nil, and a key of
\* configParams override what is inherited.
MergeFields(base, override) == Over(override, base)

\* mergeFilesystemConfigMapWithAbsent: an absent entry deletes the inherited
\* one and is remembered; a later entry starts afresh.
Gone(override) == {n \in DOMAIN override : IsTrue(override[n], "absent")}
MergeFilesystems(base, override) ==
  [n \in (DOMAIN base \cup DOMAIN override) \ Gone(override) |->
     MergeFields(Entry(base, n), Entry(override, n))]
MergeAbsent(base, override) == (base \ DOMAIN override) \cup Gone(override)

\* mergeUserConfigMap
MergeUsers(base, override) ==
  [n \in DOMAIN base \cup DOMAIN override |-> MergeFields(Entry(base, n), Entry(override, n))]

\* Mutant: the inherited scalar wins.
Merge_BaseWins(base, override) ==
  [scalars |-> MergeFields(override.scalars, base.scalars),
   lists |-> MergeFields(base.lists, override.lists),
   filesystems |-> MergeFilesystems(base.filesystems, override.filesystems),
   absent |-> MergeAbsent(base.absent, override.filesystems),
   configParams |-> MergeFields(base.configParams, override.configParams),
   users |-> MergeUsers(base.users, override.users)]

\* mergeProvisioningConfig and mergeUserConfigMap
Merge(base, override) ==
  [scalars |-> MergeFields(base.scalars, override.scalars),
   lists |-> MergeFields(base.lists, override.lists),
   filesystems |-> MergeFilesystems(base.filesystems, override.filesystems),
   absent |-> MergeAbsent(base.absent, override.filesystems),
   configParams |-> MergeFields(base.configParams, override.configParams),
   users |-> MergeUsers(base.users, override.users)]

Merged == Merge(Merge(Copy(policy[1]), Copy(policy[2])), Copy(policy[3]))

-----------------------------------------------------------------------------
(* Resolution *)

\* envReference: a malformed reference fails as one to a missing variable does,
\* and is one whose text no environment sets.
Unset(v) == v.type = "env" /\ v.text \notin DOMAIN Environ
Value(v) == IF v.type = "env" THEN Text(Environ[v.text]) ELSE v
Values(fields) == [f \in DOMAIN fields |-> Value(fields[f])]
AnyUnset(fields) == \E f \in DOMAIN fields : Unset(fields[f])

\* resolveStringValue of every field of a user
UserResolves(user) == ~AnyUnset(user) /\ \A f \in DOMAIN user : user[f].type # "number"

Accounts(users) == {n \in DOMAIN users : ~IsTrue(users[n], "absent")}
Primaries(users) == {n \in Accounts(users) \ {"root"} : IsTrue(users[n], "primary")}

\* Mutant: any number of primary users.
UsersResolve_AnyPrimary(users) == \A n \in Accounts(users) : UserResolves(users[n])

\* resolveUsers
UsersResolve(users) ==
  /\ \A n \in Accounts(users) : UserResolves(users[n])
  /\ Cardinality(Primaries(users)) <= 1

\* Only the passphrase of an encrypted host is looked up.
NeedsPassphrase(scalars) ==
  IsTrue(scalars, "storage_encryption_enabled")
    /\ "storage_encryption_passphrase" \in DOMAIN scalars

ResolvedScalars(scalars) ==
  IF NeedsPassphrase(scalars)
    THEN [scalars EXCEPT !["storage_encryption_passphrase"] = Value(@)] ELSE scalars

\* Mutant: the merged policy is only checked as one layer is.
ProvisioningResolves_AsLayer(m) ==
  /\ ~AnyUnset(m.configParams)
  /\ NeedsPassphrase(m.scalars) => ~Unset(m.scalars["storage_encryption_passphrase"])
  /\ ValidRAID(m, FALSE) /\ ValidEncryption(ResolvedScalars(m.scalars), FALSE)

\* resolveProvisioning
ProvisioningResolves(m) ==
  /\ ~AnyUnset(m.configParams)
  /\ NeedsPassphrase(m.scalars) => ~Unset(m.scalars["storage_encryption_passphrase"])
  /\ ValidRAID(m, TRUE) /\ ValidEncryption(ResolvedScalars(m.scalars), TRUE)

MergeResolves(m) == UsersResolve(m.users) /\ ProvisioningResolves(m)
Resolves == MergeResolves(Merged)

\* What Resolve returns; only an account that is not absent is resolved.
Resolution(m) ==
  [scalars |-> ResolvedScalars(m.scalars), lists |-> m.lists,
   filesystems |-> m.filesystems, absent |-> m.absent, configParams |-> Values(m.configParams),
   users |-> [n \in Accounts(m.users) |-> Values(m.users[n])]]
Resolved == Resolution(Merged)

-----------------------------------------------------------------------------
(* JSON *)

\* encoding/json makes every number of an untyped map a float.
Decoded(v) ==
  IF v.type = "number"
    THEN [type |-> "float",
          text |-> IF v.text \in DOMAIN Printed THEN Printed[v.text] ELSE v.text]
    ELSE v
DecodedAll(fields) == [f \in DOMAIN fields |-> Decoded(fields[f])]

\* Mutant: the installer's parameters are not written.
Reloaded_NoConfigParams(m) ==
  [scalars |-> m.scalars, lists |-> m.lists, filesystems |-> m.filesystems, absent |-> {},
   configParams |-> <<>>, users |-> m.users]

\* Policy that was written and read back; absentFilesystems is not exported.
Reloaded(m) ==
  [scalars |-> m.scalars, lists |-> m.lists, filesystems |-> m.filesystems, absent |-> {},
   configParams |-> DecodedAll(m.configParams), users |-> m.users]

-----------------------------------------------------------------------------
(* The projection to flat parameters *)

\* setProvisioningDefaults
Builtin ==
  [storage_mode |-> Text(<<"regular">>), storage_disk |-> Text(<<"nvme0n1">>),
   storage_wipe_disks |-> Text(<<"nvme0n1", "nvme1n1">>),
   storage_encryption_enabled |-> Text(<<"false">>),
   storage_encryption_cipher |-> Text(<<"aes">>), storage_encryption_hash |-> Text(<<"sha512">>),
   storage_encryption_key_size |-> Text(<<"512">>),
   storage_encryption_tpm_enabled |-> Text(<<"false">>),
   storage_encryption_tpm_device |-> Text(<<"auto">>),
   storage_encryption_tpm_pcrs |-> Text(<<"7">>),
   storage_encryption_tpm_initramfs |-> Text(<<"dracut">>),
   storage_encryption_tpm_require_sha256_bank |-> Text(<<"true">>),
   storage_raid_boot_degraded |-> Text(<<"true">>),
   storage_raid_level |-> Text(<<"1">>), packages_install |-> Text(<<"ssh">>),
   swap_enabled |-> Text(<<"true">>), swap_min_size_mib |-> Text(<<"8192">>),
   root_min_size_mib |-> Text(<<"20000">>),
   boot_fstype |-> Text(<<"ext4">>), root_fstype |-> Text(<<"ext4">>)]

\* fmt.Sprint; a reference that was not looked up is printed as a map.
Sprint(v) == IF v.type = "env" THEN <<"map[env]">> \o v.text ELSE v.text

ScalarParams(scalars) ==
  [f \in DOMAIN scalars \ {"boot_firmware"} |-> Text(Sprint(scalars[f]))]

ListParams(lists) ==
  [f \in DOMAIN lists \ {"raid_devices", "wipe_patterns"} |-> Text(lists[f])]

\* projectRAIDParams: member disks are what is wiped, whatever the mode is.
RAIDParams(lists) ==
  IF "raid_devices" \notin DOMAIN lists THEN <<>>
  ELSE LET devices == lists["raid_devices"]
       IN  [k \in {"storage_raid_devices", "storage_wipe_disks", "storage_raid_device_0"}
                    \cup {d \in {"storage_raid_device_1"} : Len(devices) > 1} |->
              Text(IF k = "storage_raid_device_0" THEN <<devices[1]>>
                   ELSE IF k = "storage_raid_device_1" THEN <<devices[2]>> ELSE devices)]

WipeParams(lists) ==
  IF "wipe_patterns" \notin DOMAIN lists THEN <<>>
  ELSE [storage_wipe_disks |-> Text(lists["wipe_patterns"])]

\* debianPartmanModule; module names as a set, their order is layout.
Module(fstype) ==
  CASE fstype \in {<<"ext2">>, <<"ext3">>, <<"ext4">>} -> {"partman-ext4"}
    [] fstype = <<"xfs">> -> {"partman-xfs"}
    [] fstype = <<"btrfs">> -> {"partman-btrfs"}
    [] OTHER -> {}

\* debianRegularPartmanModules: of the boot and root entries that are left.
EntryModules(filesystems) ==
  UNION {LET fs == Entry(filesystems, n)
         IN  IF IsTrue(fs, "absent") THEN {}
             ELSE Module(IF "fstype" \in DOMAIN fs THEN fs["fstype"].text ELSE <<"ext4">>) :
           n \in {"boot", "root"}}

\* debianPartmanModulesForFinalParams
FinalModules(p) == Module(p["boot_fstype"].text) \cup Module(p["root_fstype"].text)

SizeParam == [swap |-> "swap_min_size_mib", root |-> "root_min_size_mib"]
FstypeParam == [boot |-> "boot_fstype", root |-> "root_fstype"]

\* The parameters that entries give through one of their fields.
FieldParams(names, filesystems, field) ==
  LET giving == {n \in DOMAIN names : /\ field \in DOMAIN Entry(filesystems, n)
                                      /\ ~IsTrue(filesystems[n], "absent")}
  IN  [k \in {names[n] : n \in giving} |->
         Text(filesystems[CHOOSE n \in giving : names[n] = k][field].text)]

\* projectDebianRegularFilesystemParams and its two siblings
SwapParams(m) ==
  IF IsTrue(Entry(m.filesystems, "swap"), "absent") \/ "swap" \in m.absent
    THEN [swap_enabled |-> Text(<<"false">>)] ELSE <<>>
FilesystemParams(m) ==
  Over(SwapParams(m), Over(FieldParams(SizeParam, m.filesystems, "sizeMiB"),
                           FieldParams(FstypeParam, m.filesystems, "fstype")))

\* Mutant: the disk to wipe does not follow the disk of the installation.
DerivedParams_None(p) == <<>>

\* What remains is derived from the flat parameters themselves.
DerivedParams(p) ==
  IF "storage_disk" \in DOMAIN p
    THEN [storage_wipe_disks |-> Text(p["storage_disk"].text)] ELSE <<>>

\* projectProvisioningParams: the caller's parameters first, then the
\* structured fields, the installer's parameters, what they imply and the
\* built-in values.
Structured(m) ==
  Over(ScalarParams(m.scalars), Over(ListParams(m.lists),
       Over(RAIDParams(m.lists), FilesystemParams(m))))
Stated(given, m) ==
  Over(given, Over(Structured(m), Over(m.configParams, WipeParams(m.lists))))
Filled(p) == Over(p, Over(DerivedParams(p), Builtin))
Flat(given, m) == Filled(Stated(given, m))

\* The modules follow the final file systems unless they are given.  Those of
\* the entries are set before the installer's parameters.
PartmanModules(given, m) ==
  IF "modules" \notin DOMAIN given \cup DOMAIN m.configParams THEN FinalModules(Flat(given, m))
  ELSE IF "modules" \in DOMAIN given THEN Range(given["modules"].text)
  ELSE IF EntryModules(m.filesystems) # {} /\ DOMAIN m.filesystems # {}
    THEN EntryModules(m.filesystems)
  ELSE Range(m.configParams["modules"].text)

Project(given, m) ==
  [params |-> Flat(given, m), users |-> m.users, modules |-> PartmanModules(given, m)]

-----------------------------------------------------------------------------
(* The checks of Debian's preseed when it is rendered *)

Flag(p, f) == p[f].text \in {<<"true">>, <<"false">>}

\* strings.Fields: the places of the words that are no white space.
Words(text) == {i \in DOMAIN text : text[i] # Blank}
TwoWords(text) == \E i, j \in DOMAIN text : i # j /\ Words(text) = {i, j}

\* validateDebianRAIDPreseedParams
ValidPreseedRAID(p) ==
  /\ p["storage_raid_level"].text = <<"1">>
  /\ "storage_raid_devices" \in DOMAIN p
  /\ LET devices == p["storage_raid_devices"].text
     IN  TwoWords(devices) /\ \A i \in Words(devices) : devices[i] \notin Globs
  /\ Flag(p, "storage_raid_boot_degraded")

\* validateDebianTPMPreseedParams
ValidPreseedTPM(p) ==
  /\ Flag(p, "storage_encryption_tpm_enabled")
  /\ IsTrue(p, "storage_encryption_tpm_enabled") =>
       /\ IsTrue(p, "storage_encryption_enabled")
       /\ p["storage_mode"].text # <<"lvm">>
       /\ Is(p, "storage_encryption_tpm_initramfs", "dracut")
       /\ p["storage_encryption_tpm_device"].text \notin NoText
       /\ \E word \in OneOf.storage_encryption_tpm_pcrs : Is(p, "storage_encryption_tpm_pcrs", word)
       /\ Flag(p, "storage_encryption_tpm_require_sha256_bank")

\* Mutant: a host may be encrypted without a passphrase.
ValidPreseedEncryption_NoPassphrase(p) ==
  Flag(p, "storage_encryption_enabled") /\ ValidPreseedTPM(p)

\* validateDebianEncryptionPreseedParams
ValidPreseedEncryption(p) ==
  /\ Flag(p, "storage_encryption_enabled") /\ ValidPreseedTPM(p)
  /\ IsTrue(p, "storage_encryption_enabled") =>
       /\ "storage_encryption_passphrase" \in DOMAIN p
       /\ \A f \in {"storage_encryption_passphrase", "storage_encryption_cipher",
                    "storage_encryption_hash"} : p[f].text \notin NoText
       /\ p["storage_encryption_key_size"].text \notin NoText \cup {<<"0">>}

\* validateDebianPreseedParams
ValidPreseed(p) ==
  /\ p["storage_mode"].text \in {<<"regular">>, <<"lvm">>, <<"raid">>}
  /\ p["storage_mode"].text = <<"raid">> => ValidPreseedRAID(p)
  /\ ValidPreseedEncryption(p)

\* It gives the member disks that are not parameters yet.
Members(devices) ==
  [storage_raid_device_0 |-> Text(<<devices[Min(Words(devices))]>>),
   storage_raid_device_1 |-> Text(<<devices[Max(Words(devices))]>>)]
Completed(p) ==
  IF p["storage_mode"].text = <<"raid">>
    THEN Over(p, Members(p["storage_raid_devices"].text)) ELSE p

-----------------------------------------------------------------------------
(* Requests *)

\* genBootScript: store the session, render the script.
Boot(m) ==
  /\ script' = Project(params, m)
  /\ session' = [params |-> DecodedAll(params), policy |-> Reloaded(m)]
  /\ config' = None

\* A poll that a rule boots.
BootMatched ==
  /\ phase = "serving" /\ Resolves
  /\ Boot(Resolved)
  /\ UNCHANGED <<policy, params, phase, state>>

\* UpdateTarget: the resolved policy is stored with the host's state.
Select ==
  /\ phase = "serving" /\ Resolves
  /\ state' = Reloaded(Resolved)
  /\ UNCHANGED <<policy, params, phase, session, script, config>>

\* A poll that finds a selection.
BootSelected ==
  /\ state # None
  /\ Boot(state)
  /\ state' = None
  /\ UNCHANGED <<policy, params, phase>>

\* A poll or a selection whose policy does not resolve is refused.
Refuse ==
  /\ phase = "serving" /\ ~Resolves
  /\ UNCHANGED vars

\* resolveTemplateRequest with a ref: the query wins over the session.
Requested(query) == Project(Over(query, session.params), session.policy)

\* The installer fetches Debian's preseed.
Preseed(query) ==
  LET r == Requested(query)
  IN  /\ session # None /\ ValidPreseed(r.params)
      /\ config' = [params |-> Completed(r.params), users |-> r.users, modules |-> r.modules,
                    query |-> query, debian |-> TRUE]
      /\ UNCHANGED <<policy, params, phase, state, session, script>>

RefusePreseed(query) ==
  /\ session # None /\ ~ValidPreseed(Requested(query).params)
  /\ UNCHANGED vars

\* It fetches another template, whose parameters are not checked.
Configure(query) ==
  LET r == Requested(query)
  IN  /\ session # None
      /\ config' = [params |-> r.params, users |-> r.users, modules |-> r.modules,
                    query |-> query, debian |-> FALSE]
      /\ UNCHANGED <<policy, params, phase, state, session, script>>

Failed == phase = "failed" /\ UNCHANGED vars

Next ==
  \/ Load
  \/ BootMatched \/ Select \/ BootSelected \/ Refuse
  \/ \E query \in Query : Preseed(query) \/ RefusePreseed(query) \/ Configure(query)
  \/ Failed

Spec == Init /\ [][Next]_vars

-----------------------------------------------------------------------------
(* Properties *)

\* Type correctness; what is rendered has at most one primary user, no absent
\* one, and a text for every parameter (resolveUsers, resolveParamValue).
TypeOK ==
  /\ policy \in Policies /\ params \in LegacyParams
  /\ phase \in {"starting", "serving", "failed"}
  /\ \A r \in {script, config} \ {None} :
       /\ Cardinality(Primaries(r.users)) <= 1
       /\ Accounts(r.users) = DOMAIN r.users
       /\ \A k \in DOMAIN r.params : r.params[k].type # "env"

\* Whoever set a parameter by hand answers for it.
ByHand(r, k) ==
  k \in DOMAIN params \cup DOMAIN r.query \cup DOMAIN session.policy.configParams

\* The installer never gets half a layout, from whichever layers its parts
\* come and through however many conversions: RAID has level 1 and two member
\* disks, the same ones under both their names; encryption has its passphrase,
\* the one the policy says once it is looked up; a TPM has an encrypted disk;
\* and every file system has the partitioner's module for it.  Debian's preseed
\* is that strict with the parameters that were set by hand too.
LayoutComplete ==
  config # None =>
    LET p == config.params
        Strict(k) == config.debian \/ ~ByHand(config, k)
    IN  /\ p["storage_mode"].text = <<"raid">> /\ Strict("storage_mode") =>
             /\ "storage_raid_devices" \in DOMAIN p
             /\ Strict("storage_raid_devices") => TwoWords(p["storage_raid_devices"].text)
             /\ Strict("storage_raid_level") => p["storage_raid_level"].text = <<"1">>
             /\ \/ \E k \in {"storage_raid_devices", "storage_raid_device_0",
                             "storage_raid_device_1"} : ByHand(config, k)
                \/ p["storage_raid_devices"].text
                     = p["storage_raid_device_0"].text \o p["storage_raid_device_1"].text
        /\ IsTrue(p, "storage_encryption_enabled") /\ Strict("storage_encryption_enabled") =>
             /\ "storage_encryption_passphrase" \in DOMAIN p
             /\ Strict("storage_encryption_passphrase") =>
                  p["storage_encryption_passphrase"].text \notin NoText
             /\ \/ ByHand(config, "storage_encryption_enabled")
                \/ ByHand(config, "storage_encryption_passphrase")
                \/ p["storage_encryption_passphrase"].text
                     = Value(Merged.scalars["storage_encryption_passphrase"]).text
        /\ IsTrue(p, "storage_encryption_tpm_enabled") /\ Strict("storage_encryption_tpm_enabled")
             /\ Strict("storage_encryption_enabled")
             => IsTrue(p, "storage_encryption_enabled")
        /\ ~ByHand(config, "modules") =>
             Module(p["boot_fstype"].text) \cup Module(p["root_fstype"].text)
               \subseteq config.modules

\* What the preseed refuses although the resolver accepts it: a mode without a
\* recipe, a TPM with LVM, and white space in place of a value.
Unchecked(p) ==
  \/ p["storage_mode"].text \in {<<"plain">>, <<"manual">>}
  \/ IsTrue(p, "storage_encryption_tpm_enabled") /\ p["storage_mode"].text = <<"lvm">>
  \/ \E f \in {"storage_encryption_cipher", "storage_encryption_hash",
               "storage_encryption_tpm_device"} : p[f].text \in NoText

\* A host that was given a boot script is not refused its preseed: what the
\* resolver checks of the merged policy, before JSON and the projection, implies
\* what RenderTemplate checks of the parameters, but for what Unchecked says.
\* Parameters that are set by hand are left out.
BootedIsAnswered ==
  session # None /\ DOMAIN params = {} /\ DOMAIN session.policy.configParams \cap DOMAIN Builtin = {}
    => LET p == Requested(<<>>).params
       IN  ValidPreseed(p) \/ Unchecked(p)

\* The disks that the caller, the policy or its installer parameters name, as
\* the disk of the system or as disks to wipe, or in the structured RAID section.
Disks(fields, keys) == UNION {Range(fields[k].text) : k \in keys \cap DOMAIN fields}
TargetDisks(r) ==
  LET m == session.policy
      keys == {"storage_wipe_disks", "storage_disk"}
  IN  Disks(Over(r.query, session.params), keys) \cup Disks(m.scalars, keys)
      \cup Disks(m.configParams, keys)
      \cup UNION {Range(m.lists[f]) : f \in {"raid_devices", "wipe_patterns"} \cap DOMAIN m.lists}

\* The member disks that flat parameters name.
MemberDisksByHand(r) ==
  LET keys == {"storage_raid_devices", "storage_raid_device_0", "storage_raid_device_1"}
  IN  Disks(Over(r.query, session.params), keys) \cup Disks(session.policy.configParams, keys)
DisksNamed(r) == TargetDisks(r) \cup MemberDisksByHand(r)

\* Debian's installer wipes no disk but those that the merged policy or the caller
\* names, once either names one, whatever layer, list or query the name is in.
\* One case is excepted, in which the code does wipe disks that nobody named:
\* if the only disks named are member disks in flat parameters
\* (storage_raid_devices, storage_raid_device_0 and _1), which the preseed
\* accepts, projectProvisioningParams fills in its built-in list.
WipesOnlyNamed ==
  config # None /\ DisksNamed(config) # {} =>
    LET wiped == config.params["storage_wipe_disks"]
    IN  \/ Range(wiped.text) \subseteq TargetDisks(config)
        \/ TargetDisks(config) = {} /\ wiped = Builtin.storage_wipe_disks

\* The last layer with an entry for a file system says that it is absent.
Suppressed(n) ==
  LET naming == {i \in 1 .. 3 : n \in DOMAIN policy[i].filesystems}
  IN  naming # {} /\ IsTrue(policy[Max(naming)].filesystems[n], "absent")

\* The installer's configuration sees what the boot script saw, although the
\* policy went through JSON once or twice: the same parameters with the same
\* texts, but for the member disks that the preseed adds, the same users and the
\* same modules.  Left out are a large number, which a float prints in another
\* way, and a swap entry that was suppressed.
ConfigMatchesScript ==
  config # None /\ DOMAIN config.query = {} =>
    LET Large(k) == k \in DOMAIN script.params /\ script.params[k].text \in DOMAIN Printed
    IN  /\ config.users = script.users
        /\ config.modules = script.modules
             \/ \E k \in {"modules", "boot_fstype", "root_fstype"} : Large(k)
        /\ DOMAIN script.params \subseteq DOMAIN config.params
        /\ DOMAIN config.params \ DOMAIN script.params
             \subseteq {"storage_raid_device_0", "storage_raid_device_1"}
        /\ \A k \in DOMAIN script.params :
             \/ config.params[k].text = script.params[k].text
             \/ Large(k)
             \/ k = "swap_enabled" /\ Suppressed("swap")

\* The last layer that sets a field decides it, in what the installer gets
\* too: scalars, lists that are not empty, and whether an account exists.
LastLayerWins ==
  session # None =>
    LET m == session.policy
        Setting(f) == {i \in 1 .. 3 : f \in DOMAIN policy[i].scalars}
        Listing(f) == {i \in 1 .. 3 : /\ f \in DOMAIN policy[i].lists
                                      /\ policy[i].lists[f] # <<>>}
        Naming(n) == {i \in 1 .. 3 : n \in DOMAIN policy[i].users}
        Judging(n) == {i \in Naming(n) : "absent" \in DOMAIN policy[i].users[n]}
    IN  /\ \A f \in UNION {DOMAIN policy[i].scalars : i \in 1 .. 3} :
             LET v == policy[Max(Setting(f))].scalars[f]
             IN  \/ m.scalars[f] = v
                 \/ v.type = "env" /\ ~Unset(v) /\ m.scalars[f] = Value(v)
        /\ \A f \in UNION {DOMAIN policy[i].lists : i \in 1 .. 3} :
             Listing(f) # {} => m.lists[f] = policy[Max(Listing(f))].lists[f]
        /\ \A n \in UNION {DOMAIN policy[i].users : i \in 1 .. 3} :
             n \in DOMAIN m.users <=>
               Judging(n) = {} \/ ~IsTrue(policy[Max(Judging(n))].users[n], "absent")

\* docs/provisioning-overrides.md: "set `absent: true` on a filesystem entry to
\* suppress an inherited entry".  The installer creates no swap that an earlier
\* layer configures and the last one suppresses.
SwapSuppressed ==
  /\ config # None /\ Suppressed("swap")
  /\ \E i \in 1 .. 3 : LET fs == Entry(policy[i].filesystems, "swap")
                       IN  DOMAIN fs # {} /\ ~IsTrue(fs, "absent")
  => config.params["swap_enabled"].text = <<"false">>
=============================================================================
