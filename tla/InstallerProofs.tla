-------------------------- MODULE InstallerProofs --------------------------
(***************************************************************************)
(* What the installer is given, for any layers, parameters, queries and    *)
(* environment: a preseed for every host that was booted, a complete       *)
(* layout, and the values of the boot script.  All of it follows from the  *)
(* inductive invariant of ProvisioningProofs.                              *)
(***************************************************************************)
EXTENDS ProvisioningProofs

(* What resolution accepts, the preseed accepts *)

\* A parameter that nobody set by hand is the merged policy's, or built in.
LEMMA PolicyParam ==
  ASSUME IInv, session # None, NEW given,
         NEW k \in Scalars \ {"boot_firmware", "storage_encryption_passphrase"},
         k \notin DOMAIN given \cup DOMAIN session.policy.configParams
  PROVE  LET p == Flat(given, session.policy)
         IN  /\ k \in DOMAIN Merged.scalars =>
                  /\ k \in DOMAIN p /\ p[k].text = Merged.scalars[k].text
                  /\ ScalarTyped(k, Merged.scalars[k]) /\ ScalarValid(k, Merged.scalars[k])
             /\ k \notin DOMAIN Merged.scalars /\ k \in DOMAIN Builtin
                  => k \in DOMAIN p /\ p[k] = Builtin[k]
<1>1. PICK m, p : m = session.policy /\ p = Flat(given, session.policy)
  BY Zenon
<1>2. m.scalars = ResolvedScalars(Merged.scalars) /\ m.lists = Merged.lists
  BY <1>1, SessionFields, Zenon
<1>3. DOMAIN m.lists \subseteq Lists
  BY <1>2, MergedLists, Zenon
<1>4. /\ k \in DOMAIN m.scalars <=> k \in DOMAIN Merged.scalars
      /\ m.scalars[k] = Merged.scalars[k]
  BY <1>2, ResolvedScalarAt
<1>5. /\ k \in DOMAIN p <=>
           k \in DOMAIN given \cup DOMAIN m.scalars \cup DOMAIN m.configParams \cup DOMAIN Builtin
      /\ k \notin DOMAIN given /\ k \in DOMAIN m.scalars => p[k] = Text(Sprint(m.scalars[k]))
      /\ k \notin DOMAIN given \cup DOMAIN m.scalars \cup DOMAIN m.configParams
           /\ k \in DOMAIN Builtin => p[k] = Builtin[k]
  BY <1>1, <1>3, ScalarFlat
<1>6. ASSUME k \in DOMAIN Merged.scalars
      PROVE  /\ k \in DOMAIN p /\ p[k].text = Merged.scalars[k].text
             /\ ScalarTyped(k, Merged.scalars[k]) /\ ScalarValid(k, Merged.scalars[k])
  <2>1. phase = "serving"
    BY Zenon DEF IInv
  <2>2. ScalarTyped(k, Merged.scalars[k]) /\ ScalarValid(k, Merged.scalars[k])
    BY <1>6, <2>1, MergedScalars, Zenon
  <2>3. Sprint(Merged.scalars[k]) = Merged.scalars[k].text
    BY <2>2, Zenon DEF ScalarTyped, Sprint
  <2>4. p[k] = Text(Merged.scalars[k].text) /\ k \in DOMAIN p
    BY <1>4, <1>5, <1>6, <2>3, Zenon
  <2> QED BY <2>2, <2>4 DEF Text
<1>7. k \notin DOMAIN Merged.scalars /\ k \in DOMAIN Builtin => k \in DOMAIN p /\ p[k] = Builtin[k]
  BY <1>1, <1>4, <1>5, Zenon
<1> QED BY <1>1, <1>6, <1>7, Zenon

\* The member disks of the merged policy.
LEMMA MemberParams ==
  ASSUME IInv, session # None, NEW given, "raid_devices" \in DOMAIN Merged.lists
  PROVE  LET p == Flat(given, session.policy)
             devices == Merged.lists["raid_devices"]
         IN  /\ "storage_raid_devices" \notin DOMAIN given =>
                  "storage_raid_devices" \in DOMAIN p /\ p["storage_raid_devices"].text = devices
             /\ "storage_raid_device_0" \notin DOMAIN given =>
                  /\ "storage_raid_device_0" \in DOMAIN p
                  /\ p["storage_raid_device_0"].text = <<devices[1]>>
             /\ "storage_raid_device_1" \notin DOMAIN given /\ Len(devices) > 1 =>
                  /\ "storage_raid_device_1" \in DOMAIN p
                  /\ p["storage_raid_device_1"].text = <<devices[2]>>
<1>1. PICK m, p, devices : /\ m = session.policy /\ p = Flat(given, session.policy)
                           /\ devices = Merged.lists["raid_devices"]
  BY Zenon
<1>2. m.scalars = ResolvedScalars(Merged.scalars) /\ m.lists = Merged.lists
  BY <1>1, SessionFields, Zenon
<1>3. DOMAIN m.lists \subseteq Lists /\ DOMAIN m.scalars \subseteq Scalars
  BY <1>2, MergedLists, MergedScalars, ResolvedScalarAt, Zenon DEF ScalarTyped
<1>4. ASSUME NEW k \in {"storage_raid_devices", "storage_raid_device_0", "storage_raid_device_1"},
             k \in DOMAIN RAIDParams(m.lists), k \notin DOMAIN given
      PROVE  k \in DOMAIN p /\ p[k] = RAIDParams(m.lists)[k]
  <2>1. k \notin DOMAIN ScalarParams(m.scalars)
    BY <1>3, Zenon DEF ScalarParams, Scalars, Flags
  <2>2. k \notin DOMAIN ListParams(m.lists)
    BY <1>3, Zenon DEF ListParams, Lists
  <2>3. k \in DOMAIN Structured(m) /\ Structured(m)[k] = RAIDParams(m.lists)[k]
    BY <1>4, <2>1, <2>2, StructuredAt, Zenon
  <2>4. PICK t : t = Stated(given, m)
    BY Zenon
  <2>5. k \in DOMAIN t /\ t[k] = RAIDParams(m.lists)[k]
    BY <1>4, <2>3, <2>4, StatedAt
  <2>6. p = Filled(t)
    BY <1>1, <2>4, Zenon DEF Flat
  <2> QED BY <2>5, <2>6, FilledAt, Zenon
<1>5. PICK r : r = RAIDParams(m.lists)
  BY Zenon
<1>6. /\ "storage_raid_devices" \in DOMAIN r /\ r["storage_raid_devices"] = Text(devices)
      /\ "storage_raid_device_0" \in DOMAIN r /\ r["storage_raid_device_0"] = Text(<<devices[1]>>)
      /\ Len(devices) > 1 => /\ "storage_raid_device_1" \in DOMAIN r
                             /\ r["storage_raid_device_1"] = Text(<<devices[2]>>)
  BY <1>1, <1>2, <1>5, Zenon DEF RAIDParams
<1> QED BY <1>1, <1>4, <1>5, <1>6 DEF Text

\* Devices without white space are as many words.
LEMMA WordsAre ==
  ASSUME NEW devices \in Seq(STRING), Blank \notin Range(devices)
  PROVE  /\ Words(devices) = DOMAIN devices
         /\ TwoWords(devices) <=> Len(devices) = 2
<1>1. \A i \in DOMAIN devices : devices[i] # Blank
  BY Zenon DEF Range
<1>2. Words(devices) = DOMAIN devices
  BY <1>1, Zenon DEF Words
<1>3. PICK n \in Nat : n = Len(devices) /\ DOMAIN devices = 1 .. n
  OBVIOUS
<1>4. ASSUME NEW i \in 1 .. n, NEW j \in 1 .. n, i # j, 1 .. n = {i, j} PROVE n = 2
  <2>1. n >= 2
    BY <1>4
  <2>2. ASSUME n > 2 PROVE FALSE
    <3>1. 1 \in 1 .. n /\ 2 \in 1 .. n /\ 3 \in 1 .. n
      BY <2>2
    <3>2. 1 \in {i, j} /\ 2 \in {i, j} /\ 3 \in {i, j}
      BY <1>4, <3>1, Zenon
    <3> QED BY <3>2
  <2> QED BY <2>1, <2>2
<1>5. n = 2 => 1 \in 1 .. n /\ 2 \in 1 .. n /\ 1 .. n = {1, 2}
  OBVIOUS
<1> QED BY <1>2, <1>3, <1>4, <1>5 DEF TwoWords

\* What resolveProvisioning has checked of the merged policy of a session.
LEMMA SessionResolved ==
  ASSUME IInv, session # None
  PROVE  ValidRAID(Merged, TRUE) /\ ValidEncryption(ResolvedScalars(Merged.scalars), TRUE)
BY Zenon DEF IInv, Resolves, MergeResolves, ProvisioningResolves

\* RAID in the merged policy is complete.
LEMMA MergedRAID ==
  ASSUME IInv, session # None
  PROVE  /\ "storage_raid_level" \in DOMAIN Merged.scalars
              => Merged.scalars["storage_raid_level"].text = <<"1">>
         /\ "raid_devices" \in DOMAIN Merged.lists =>
              Range(Merged.lists["raid_devices"]) \cap (Globs \cup {Blank}) = {}
         /\ Is(Merged.scalars, "storage_mode", "raid") =>
              /\ "storage_raid_level" \in DOMAIN Merged.scalars
              /\ "raid_devices" \in DOMAIN Merged.lists
              /\ Len(Merged.lists["raid_devices"]) = 2
<1>1. PICK m : m = Merged
  BY Zenon
<1>2. ValidRAID(m, TRUE)
  BY <1>1, SessionResolved, ZenonT(30)
<1> QED BY <1>1, <1>2, Zenon DEF ValidRAID, Is

\* So is encryption, and its passphrase is looked up.
LEMMA MergedEncryption ==
  ASSUME IInv, session # None
  PROVE  /\ ~Is(Merged.scalars, "storage_encryption_key_size", "0")
         /\ IsTrue(Merged.scalars, "storage_encryption_tpm_enabled")
              => IsTrue(Merged.scalars, "storage_encryption_enabled")
         /\ IsTrue(Merged.scalars, "storage_encryption_enabled") =>
              /\ "storage_encryption_passphrase" \in DOMAIN Merged.scalars
              /\ ResolvedScalars(Merged.scalars)["storage_encryption_passphrase"]
                   = Value(Merged.scalars["storage_encryption_passphrase"])
              /\ Value(Merged.scalars["storage_encryption_passphrase"]).type # "env"
              /\ Value(Merged.scalars["storage_encryption_passphrase"]).text \notin NoText
<1>1. PICK s, r : s = Merged.scalars /\ r = ResolvedScalars(Merged.scalars)
  BY Zenon
<1>2. ValidEncryption(r, TRUE)
  BY <1>1, SessionResolved, Zenon
<1>3. /\ DOMAIN r = DOMAIN s
      /\ \A f : f # "storage_encryption_passphrase" => r[f] = s[f]
  BY <1>1, ResolvedScalarAt, Zenon
<1>4. \A f, word : f # "storage_encryption_passphrase" => (Is(r, f, word) <=> Is(s, f, word))
  BY <1>3, Zenon DEF Is
<1>5. \A f : f # "storage_encryption_passphrase" => (IsTrue(r, f) <=> IsTrue(s, f))
  BY <1>3, Zenon DEF IsTrue
<1>6. /\ "storage_encryption_passphrase" \in DOMAIN r
           => r["storage_encryption_passphrase"].text \notin NoText
      /\ ~Is(r, "storage_encryption_key_size", "0")
      /\ IsTrue(r, "storage_encryption_enabled") => "storage_encryption_passphrase" \in DOMAIN r
      /\ IsTrue(r, "storage_encryption_tpm_enabled") => IsTrue(r, "storage_encryption_enabled")
  BY <1>2, Zenon DEF ValidEncryption
<1>7. ASSUME IsTrue(s, "storage_encryption_enabled")
      PROVE  /\ "storage_encryption_passphrase" \in DOMAIN s
             /\ r["storage_encryption_passphrase"] = Value(s["storage_encryption_passphrase"])
  <2>1. "storage_encryption_passphrase" \in DOMAIN s
    BY <1>3, <1>5, <1>6, <1>7, Zenon
  <2>2. NeedsPassphrase(s)
    BY <1>7, <2>1, Zenon DEF NeedsPassphrase
  <2> QED BY <1>1, <2>1, <2>2, Zenon DEF ResolvedScalars
<1>8. \A v : Value(v).type # "env"
  BY Zenon DEF Value, Text
<1> QED BY <1>1, <1>3, <1>4, <1>5, <1>6, <1>7, <1>8, Zenon

\* The built-in values satisfy the preseed (setProvisioningDefaults).
LEMMA BuiltinTexts ==
  /\ Builtin["storage_mode"].text = <<"regular">>
  /\ Builtin["storage_encryption_enabled"].text = <<"false">>
  /\ Builtin["storage_encryption_tpm_enabled"].text = <<"false">>
  /\ Builtin["storage_encryption_tpm_require_sha256_bank"].text = <<"true">>
  /\ Builtin["storage_encryption_tpm_initramfs"].text = <<"dracut">>
  /\ Builtin["storage_encryption_tpm_pcrs"].text = <<"7">>
  /\ Builtin["storage_encryption_key_size"].text = <<"512">>
  /\ Builtin["storage_raid_boot_degraded"].text = <<"true">>
  /\ Builtin["storage_raid_level"].text = <<"1">>
BY Zenon DEF Builtin, Text

BuiltinScalars ==
  {"storage_mode", "storage_encryption_enabled", "storage_encryption_tpm_enabled",
   "storage_encryption_tpm_require_sha256_bank", "storage_encryption_tpm_initramfs",
   "storage_encryption_tpm_pcrs", "storage_encryption_key_size", "storage_raid_boot_degraded",
   "storage_raid_level", "storage_encryption_cipher", "storage_encryption_hash",
   "storage_encryption_tpm_device"}

LEMMA BuiltinScalar ==
  /\ BuiltinScalars \subseteq DOMAIN Builtin
  /\ BuiltinScalars \subseteq Scalars \ {"boot_firmware", "storage_encryption_passphrase"}
<1>1. BuiltinScalars \subseteq DOMAIN Builtin
  BY Zenon DEF BuiltinScalars, Builtin
<1>2. BuiltinScalars \subseteq Scalars \ {"boot_firmware", "storage_encryption_passphrase"}
  BY Zenon DEF BuiltinScalars, Scalars, Flags
<1> QED BY <1>1, <1>2, Zenon

\* The passphrase of an encrypted host is what was looked up.
LEMMA PassphraseParam ==
  ASSUME IInv, session # None, NEW given, IsTrue(Merged.scalars, "storage_encryption_enabled")
  PROVE  LET p == Flat(given, session.policy)
         IN  /\ "storage_encryption_passphrase" \in DOMAIN p
             /\ "storage_encryption_passphrase" \notin DOMAIN given =>
                  /\ p["storage_encryption_passphrase"].text
                       = Value(Merged.scalars["storage_encryption_passphrase"]).text
                  /\ p["storage_encryption_passphrase"].text \notin NoText
<1> DEFINE k == "storage_encryption_passphrase"
<1>1. PICK m, p, v : /\ m = session.policy /\ p = Flat(given, session.policy)
                     /\ v = Value(Merged.scalars[k])
  BY Zenon
<1>2. m.scalars = ResolvedScalars(Merged.scalars) /\ m.lists = Merged.lists
  BY <1>1, SessionFields, Zenon
<1>3. k \in DOMAIN m.scalars /\ m.scalars[k] = v /\ v.type # "env" /\ v.text \notin NoText
  BY <1>1, <1>2, MergedEncryption, ResolvedScalarAt, Zenon
<1>4. DOMAIN m.lists \subseteq Lists
  BY <1>2, MergedLists, Zenon
<1>5. k \in Scalars \ {"boot_firmware"}
  BY Zenon DEF Scalars
<1>6. /\ k \in DOMAIN p
      /\ k \notin DOMAIN given => p[k] = Text(Sprint(v))
  BY <1>1, <1>3, <1>4, <1>5, ScalarFlat, SMTT(30)
<1>7. Text(Sprint(v)).text = v.text
  BY <1>3, Zenon DEF Text, Sprint
<1> QED BY <1>1, <1>3, <1>6, <1>7, Zenon

LEMMA AnsweredStep == IInv => BootedIsAnswered
<1> SUFFICES ASSUME IInv, session # None, DOMAIN params = {},
                    DOMAIN session.policy.configParams \cap DOMAIN Builtin = {},
                    ~Unchecked(Requested(<<>>).params)
             PROVE  ValidPreseed(Requested(<<>>).params)
  BY Zenon DEF BootedIsAnswered
<1>1. PICK given, p, s : /\ given = Over(<<>>, session.params)
                         /\ p = Flat(given, session.policy) /\ s = Merged.scalars
  BY Zenon
<1>2. Requested(<<>>).params = p
  BY <1>1, Zenon DEF Requested, Project
<1>3. DOMAIN given = {}
  <2>1. DOMAIN session.params = {}
    BY SessionFields, Zenon DEF DecodedAll
  <2> QED BY <1>1, <2>1 DEF Over
<1>4. ASSUME NEW k \in BuiltinScalars
      PROVE  /\ k \in DOMAIN p
             /\ k \in DOMAIN s =>
                  p[k].text = s[k].text /\ ScalarTyped(k, s[k]) /\ ScalarValid(k, s[k])
             /\ k \notin DOMAIN s => p[k] = Builtin[k]
  <2>1. k \notin DOMAIN given \cup DOMAIN session.policy.configParams
    BY <1>3, BuiltinScalar, Zenon
  <2> QED BY <1>1, <2>1, BuiltinScalar, PolicyParam, Zenon
<1>5. \A k \in BuiltinScalars : k \in DOMAIN p
  BY <1>4, Zenon
<1>6. ASSUME NEW k \in BuiltinScalars \cap Flags PROVE Flag(p, k)
  BY <1>4, <1>6, BuiltinTexts, ZenonT(30) DEF Flag, ScalarTyped, BuiltinScalars, Flags
<1>7. ASSUME NEW k \in BuiltinScalars, NEW word,
             Builtin[k].text # <<word>>, p[k].text = <<word>>
      PROVE  k \in DOMAIN s /\ s[k].text = <<word>>
  BY <1>4, <1>7, Zenon
<1>8. p["storage_mode"].text \in {<<"regular">>, <<"lvm">>, <<"raid">>}
  <2>1. p["storage_mode"].text \notin {<<"plain">>, <<"manual">>}
    BY <1>2, Zenon DEF Unchecked
  <2>2. "storage_mode" \in BuiltinScalars
    BY Zenon DEF BuiltinScalars
  <2>3. "storage_mode" \in DOMAIN OneOf
          /\ OneOf["storage_mode"] = {"regular", "plain", "lvm", "raid", "manual"}
    BY Zenon DEF OneOf
  <2>4. CASE "storage_mode" \in DOMAIN s
    BY <1>4, <2>1, <2>2, <2>3, <2>4, ZenonT(30) DEF ScalarValid
  <2>5. CASE "storage_mode" \notin DOMAIN s
    BY <1>4, <2>2, <2>5, BuiltinTexts, ZenonT(30)
  <2> QED BY <2>4, <2>5, Zenon
<1>9. ASSUME p["storage_mode"].text = <<"raid">> PROVE ValidPreseedRAID(p)
  <2>1. Is(s, "storage_mode", "raid")
    BY <1>7, <1>9, BuiltinTexts DEF Is, BuiltinScalars
  <2>2. PICK devices : devices = Merged.lists["raid_devices"]
    BY Zenon
  <2>3. /\ "storage_raid_level" \in DOMAIN s /\ s["storage_raid_level"].text = <<"1">>
        /\ "raid_devices" \in DOMAIN Merged.lists /\ Len(devices) = 2
        /\ Range(devices) \cap (Globs \cup {Blank}) = {}
    BY <1>1, <2>1, <2>2, MergedRAID, Zenon
  <2>4. devices \in Seq(STRING)
    BY <2>2, <2>3, MergedLists, Zenon
  <2>5. "storage_raid_devices" \in DOMAIN p /\ p["storage_raid_devices"].text = devices
    BY <1>1, <1>3, <2>2, <2>3, MemberParams, Zenon
  <2>6. TwoWords(devices)
    <3>1. Blank \notin Range(devices)
      BY <2>3, Zenon
    <3> QED BY <2>3, <2>4, <3>1, WordsAre, Zenon
  <2>7. \A i \in Words(devices) : devices[i] \notin Globs
    BY <2>3, Zenon DEF Words, Range
  <2>8. p["storage_raid_level"].text = <<"1">>
    BY <1>4, <2>3, Zenon DEF BuiltinScalars
  <2>9. Flag(p, "storage_raid_boot_degraded")
    BY <1>6, Zenon DEF BuiltinScalars, Flags
  <2> QED BY <2>5, <2>6, <2>7, <2>8, <2>9, Zenon DEF ValidPreseedRAID
<1>10. ASSUME NEW k \in {"storage_encryption_enabled", "storage_encryption_tpm_enabled"}
       PROVE  IsTrue(p, k) => IsTrue(s, k)
  BY <1>4, BuiltinTexts DEF IsTrue, BuiltinScalars
<1>11. IsTrue(s, "storage_encryption_enabled") => IsTrue(p, "storage_encryption_enabled")
  BY <1>4, Zenon DEF IsTrue, BuiltinScalars
<1>12. ValidPreseedTPM(p)
  <2>1. Flag(p, "storage_encryption_tpm_enabled")
    BY <1>6, Zenon DEF BuiltinScalars, Flags
  <2> SUFFICES ASSUME IsTrue(p, "storage_encryption_tpm_enabled")
               PROVE  /\ IsTrue(p, "storage_encryption_enabled")
                      /\ p["storage_mode"].text # <<"lvm">>
                      /\ Is(p, "storage_encryption_tpm_initramfs", "dracut")
                      /\ p["storage_encryption_tpm_device"].text \notin NoText
                      /\ \E word \in OneOf.storage_encryption_tpm_pcrs :
                           Is(p, "storage_encryption_tpm_pcrs", word)
                      /\ Flag(p, "storage_encryption_tpm_require_sha256_bank")
    BY <2>1, Zenon DEF ValidPreseedTPM
  <2>2. IsTrue(p, "storage_encryption_enabled")
    BY <1>1, <1>10, <1>11, MergedEncryption, Zenon
  <2>3. p["storage_mode"].text # <<"lvm">> /\ p["storage_encryption_tpm_device"].text \notin NoText
    BY <1>2, Zenon DEF Unchecked
  <2>4. Flag(p, "storage_encryption_tpm_require_sha256_bank")
    BY <1>6, Zenon DEF BuiltinScalars, Flags
  <2>5. /\ "storage_encryption_tpm_initramfs" \in DOMAIN OneOf
        /\ OneOf["storage_encryption_tpm_initramfs"] = {"dracut"}
        /\ "storage_encryption_tpm_pcrs" \in DOMAIN OneOf
        /\ OneOf["storage_encryption_tpm_pcrs"] = {"7", "11"}
    BY Zenon DEF OneOf
  <2>6. /\ "storage_encryption_tpm_initramfs" \in BuiltinScalars
        /\ "storage_encryption_tpm_pcrs" \in BuiltinScalars
    BY Zenon DEF BuiltinScalars
  <2>7. Is(p, "storage_encryption_tpm_initramfs", "dracut")
    BY <1>4, <2>5, <2>6, BuiltinTexts, Zenon DEF Is, ScalarValid
  <2>8. \E word \in {"7", "11"} : Is(p, "storage_encryption_tpm_pcrs", word)
    BY <1>4, <2>5, <2>6, BuiltinTexts, Zenon DEF Is, ScalarValid
  <2> QED BY <2>2, <2>3, <2>4, <2>5, <2>7, <2>8, Zenon
<1>13. ASSUME IsTrue(p, "storage_encryption_enabled")
       PROVE  /\ "storage_encryption_passphrase" \in DOMAIN p
              /\ p["storage_encryption_passphrase"].text \notin NoText
  BY <1>1, <1>3, <1>10, <1>13, PassphraseParam, Zenon
<1>14. p["storage_encryption_key_size"].text \notin NoText \cup {<<"0">>}
  <2>1. "storage_encryption_key_size" \in BuiltinScalars
    BY Zenon DEF BuiltinScalars
  <2>2. CASE "storage_encryption_key_size" \in DOMAIN s
    BY <1>1, <1>4, <2>1, <2>2, MergedEncryption, Zenon DEF ScalarTyped, Is
  <2>3. CASE "storage_encryption_key_size" \notin DOMAIN s
    <3>1. p["storage_encryption_key_size"].text = <<"512">>
      BY <1>4, <2>1, <2>3, BuiltinTexts, Zenon
    <3>2. <<"512">> \notin {<<>>, <<Blank>>, <<"0">>}
      BY WordsAssumption, Zenon
    <3> QED BY <3>1, <3>2, Zenon DEF NoText
  <2> QED BY <2>2, <2>3, Zenon
<1>15. /\ p["storage_encryption_cipher"].text \notin NoText
       /\ p["storage_encryption_hash"].text \notin NoText
  BY <1>2, Zenon DEF Unchecked
<1>16. Flag(p, "storage_encryption_enabled")
  BY <1>6, Zenon DEF BuiltinScalars, Flags
<1>17. ValidPreseedEncryption(p)
  BY <1>12, <1>13, <1>14, <1>15, <1>16, Zenon DEF ValidPreseedEncryption
<1> QED BY <1>2, <1>8, <1>9, <1>17, Zenon DEF ValidPreseed

\* A host that was given a boot script is not refused its preseed, but for what
\* Unchecked says: resolveProvisioning checks as much of the merged policy as
\* validateDebianPreseedParams does of the parameters it is projected to.
THEOREM BootedHostIsAnswered == Spec => []BootedIsAnswered
BY ProvisioningInvariance, AnsweredStep, PTL

-----------------------------------------------------------------------------
(* Complete layouts *)

\* The caller's parameters come first, and a built-in one is always there.
LEMMA GivenFlat ==
  ASSUME NEW given, NEW m, NEW k
  PROVE  /\ k \in DOMAIN given => k \in DOMAIN Flat(given, m) /\ Flat(given, m)[k] = given[k]
         /\ k \in DOMAIN Builtin => k \in DOMAIN Flat(given, m)
<1>1. PICK t : t = Stated(given, m)
  BY Zenon
<1>2. Flat(given, m) = Filled(t)
  BY <1>1, Zenon DEF Flat
<1>3. k \in DOMAIN given => k \in DOMAIN t /\ t[k] = given[k]
  BY <1>1, StatedAt
<1> QED BY <1>2, <1>3, FilledAt

\* Member disks that nobody set by hand are the merged policy's.
LEMMA MembersSource ==
  ASSUME IInv, session # None, NEW given,
         "storage_raid_devices" \in DOMAIN Flat(given, session.policy),
         "storage_raid_devices" \notin DOMAIN given \cup DOMAIN session.policy.configParams
  PROVE  "raid_devices" \in DOMAIN Merged.lists
<1> DEFINE k == "storage_raid_devices"
<1>1. PICK m, t : m = session.policy /\ t = Stated(given, m)
  BY Zenon
<1>2. m.scalars = ResolvedScalars(Merged.scalars) /\ m.lists = Merged.lists
  BY <1>1, SessionFields, Zenon
<1>3. DOMAIN m.lists \subseteq Lists /\ DOMAIN m.scalars \subseteq Scalars
  BY <1>2, MergedLists, MergedScalars, ResolvedScalarAt, Zenon DEF ScalarTyped
<1>4. k \in DOMAIN t
  <2>1. k \notin DOMAIN DerivedParams(t)
    BY DEF DerivedParams
  <2>2. k \notin DOMAIN Builtin
    BY Zenon DEF Builtin
  <2>3. k \in DOMAIN Filled(t)
    BY <1>1, Zenon DEF Flat
  <2> QED BY <2>1, <2>2, <2>3, FilledAt, Zenon
<1>5. k \notin DOMAIN WipeParams(m.lists)
  BY DEF WipeParams
<1>6. k \in DOMAIN Structured(m)
  BY <1>1, <1>4, <1>5, StatedAt, Zenon
<1>7. k \notin DOMAIN ScalarParams(m.scalars)
  BY <1>3, Zenon DEF ScalarParams, Scalars, Flags
<1>8. k \notin DOMAIN ListParams(m.lists)
  BY <1>3, Zenon DEF ListParams, Lists
<1>9. k \notin DOMAIN FilesystemParams(m)
  BY FilesystemKeys
<1>10. k \in DOMAIN RAIDParams(m.lists)
  BY <1>6, <1>7, <1>8, <1>9, StructuredAt, Zenon
<1> QED BY <1>2, <1>10 DEF RAIDParams

LEMMA NotByHand ==
  ASSUME IInv, config # None, NEW k, ~ByHand(config, k)
  PROVE  k \notin DOMAIN Over(config.query, session.params) \cup DOMAIN session.policy.configParams
<1>1. DOMAIN session.params = DOMAIN params
  BY ConfigIs, SessionFields, Zenon DEF DecodedAll
<1>2. DOMAIN Over(config.query, session.params) = DOMAIN config.query \cup DOMAIN session.params
  BY OverDomain, ZenonT(30)
<1> QED BY <1>1, <1>2, Zenon DEF ByHand

\* What is projected for a configuration that was rendered.
Projected == Flat(Over(config.query, session.params), session.policy)

LEMMA PolicyMode ==
  ASSUME IInv, config # None, ~ByHand(config, "storage_mode"),
         Projected["storage_mode"].text = <<"raid">>
  PROVE  Is(Merged.scalars, "storage_mode", "raid")
<1> DEFINE k == "storage_mode"
<1>1. PICK given : given = Over(config.query, session.params)
  BY Zenon
<1>2. /\ k \notin DOMAIN given \cup DOMAIN session.policy.configParams /\ session # None
  BY <1>1, NotByHand, ConfigIs, Zenon
<1>3. k \in BuiltinScalars
  BY Zenon DEF BuiltinScalars
<1>4. Projected = Flat(given, session.policy)
  BY <1>1, Zenon DEF Projected
<1>5. /\ k \in DOMAIN Merged.scalars => Projected[k].text = Merged.scalars[k].text
      /\ k \notin DOMAIN Merged.scalars => Projected[k] = Builtin[k]
  BY <1>2, <1>3, <1>4, BuiltinScalar, PolicyParam, Zenon
<1> QED BY <1>5, BuiltinTexts DEF Is

LEMMA PolicyFlag ==
  ASSUME IInv, config # None,
         NEW k \in {"storage_encryption_enabled", "storage_encryption_tpm_enabled"},
         ~ByHand(config, k)
  PROVE  IsTrue(Projected, k) <=> IsTrue(Merged.scalars, k)
<1>1. PICK given : given = Over(config.query, session.params)
  BY Zenon
<1>2. /\ k \notin DOMAIN given \cup DOMAIN session.policy.configParams /\ session # None
  BY <1>1, NotByHand, ConfigIs, Zenon
<1>3. k \in BuiltinScalars
  BY Zenon DEF BuiltinScalars
<1>4. Projected = Flat(given, session.policy)
  BY <1>1, Zenon DEF Projected
<1>5. /\ k \in DOMAIN Projected
      /\ k \in DOMAIN Merged.scalars => Projected[k].text = Merged.scalars[k].text
      /\ k \notin DOMAIN Merged.scalars => Projected[k] = Builtin[k]
  BY <1>2, <1>3, <1>4, BuiltinScalar, PolicyParam, Zenon
<1> QED BY <1>5, BuiltinTexts DEF IsTrue

\* Debian's preseed was checked, and adds to what is projected.
LEMMA ConfigCases ==
  ASSUME IInv, config # None
  PROVE  /\ session # None
         /\ config.debian => ValidPreseed(Projected)
         /\ \A k \in DOMAIN Projected : k \in DOMAIN config.params /\ config.params[k] = Projected[k]
         /\ DOMAIN Builtin \subseteq DOMAIN Projected
<1>1. session # None /\ (config.debian => ValidPreseed(Projected))
  BY ConfigIs, Zenon DEF Projected
<1>2. \A k \in DOMAIN Projected : k \in DOMAIN config.params /\ config.params[k] = Projected[k]
  BY ConfigKeeps, Zenon DEF Projected
<1>3. DOMAIN Builtin \subseteq DOMAIN Projected
  BY GivenFlat, Zenon DEF Projected
<1> QED BY <1>1, <1>2, <1>3, Zenon

LEMMA RaidComplete ==
  ASSUME IInv, config # None, config.params["storage_mode"].text = <<"raid">>,
         config.debian \/ ~ByHand(config, "storage_mode")
  PROVE  LET p == config.params
             Strict(k) == config.debian \/ ~ByHand(config, k)
         IN  /\ "storage_raid_devices" \in DOMAIN p
             /\ Strict("storage_raid_devices") => TwoWords(p["storage_raid_devices"].text)
             /\ Strict("storage_raid_level") => p["storage_raid_level"].text = <<"1">>
             /\ \/ \E k \in {"storage_raid_devices", "storage_raid_device_0",
                             "storage_raid_device_1"} : ByHand(config, k)
                \/ p["storage_raid_devices"].text
                     = p["storage_raid_device_0"].text \o p["storage_raid_device_1"].text
<1>1. PICK given, p, f, devices :
        /\ given = Over(config.query, session.params) /\ p = config.params
        /\ f = Projected /\ devices = Merged.lists["raid_devices"]
  BY Zenon
<1>2. /\ session # None /\ (config.debian => ValidPreseed(f))
      /\ \A k \in DOMAIN f : k \in DOMAIN p /\ p[k] = f[k]
      /\ DOMAIN Builtin \subseteq DOMAIN f
      /\ f = Flat(given, session.policy)
  BY <1>1, ConfigCases, Zenon DEF Projected
<1>3. /\ "storage_mode" \in DOMAIN Builtin /\ "storage_raid_level" \in DOMAIN Builtin
  BY Zenon DEF Builtin
<1>4. f["storage_mode"].text = <<"raid">> /\ p["storage_raid_level"] = f["storage_raid_level"]
  BY <1>1, <1>2, <1>3, Zenon
<1>5. \/ config.debian /\ ValidPreseedRAID(f)
      \/ ~config.debian /\ Is(Merged.scalars, "storage_mode", "raid")
  BY <1>1, <1>2, <1>4, PolicyMode, Zenon DEF ValidPreseed
<1>6. "raid_devices" \in DOMAIN Merged.lists =>
        devices \in Seq(STRING) /\ Range(devices) \cap (Globs \cup {Blank}) = {}
  BY <1>1, <1>2, MergedLists, MergedRAID, Zenon
<1>7. ASSUME "raid_devices" \in DOMAIN Merged.lists
      PROVE  /\ "storage_raid_devices" \notin DOMAIN given =>
                  "storage_raid_devices" \in DOMAIN f /\ f["storage_raid_devices"].text = devices
             /\ "storage_raid_device_0" \notin DOMAIN given =>
                  /\ "storage_raid_device_0" \in DOMAIN f
                  /\ f["storage_raid_device_0"].text = <<devices[1]>>
             /\ "storage_raid_device_1" \notin DOMAIN given /\ Len(devices) > 1 =>
                  /\ "storage_raid_device_1" \in DOMAIN f
                  /\ f["storage_raid_device_1"].text = <<devices[2]>>
  BY <1>1, <1>2, <1>7, MemberParams, Zenon
<1>8. "storage_raid_devices" \in DOMAIN f
  <2>1. CASE config.debian
    BY <1>5, <2>1, Zenon DEF ValidPreseedRAID
  <2>2. CASE ~config.debian
    <3>1. "raid_devices" \in DOMAIN Merged.lists
      BY <1>2, <1>5, <2>2, MergedRAID, Zenon
    <3> QED BY <1>2, <1>7, <3>1, GivenFlat, Zenon
  <2> QED BY <2>1, <2>2, Zenon
<1>9. \A k : ~ByHand(config, k) => k \notin DOMAIN given \cup DOMAIN session.policy.configParams
  BY <1>1, NotByHand, Zenon
<1>10. ASSUME ~ByHand(config, "storage_raid_devices")
       PROVE  /\ "raid_devices" \in DOMAIN Merged.lists /\ Len(devices) = 2
              /\ f["storage_raid_devices"].text = devices
  <2>1. "raid_devices" \in DOMAIN Merged.lists
    BY <1>2, <1>8, <1>9, <1>10, MembersSource, Zenon
  <2>2. f["storage_raid_devices"].text = devices
    BY <1>7, <1>9, <1>10, <2>1, Zenon
  <2>3. TwoWords(devices) <=> Len(devices) = 2
    BY <1>6, <2>1, WordsAre, Zenon
  <2>4. CASE config.debian
    BY <1>5, <2>1, <2>2, <2>3, <2>4, Zenon DEF ValidPreseedRAID
  <2>5. CASE ~config.debian
    BY <1>1, <1>2, <1>5, <2>1, <2>2, <2>5, MergedRAID, Zenon
  <2> QED BY <2>4, <2>5, Zenon
<1>11. ASSUME config.debian \/ ~ByHand(config, "storage_raid_devices")
       PROVE  TwoWords(f["storage_raid_devices"].text)
  <2>1. CASE config.debian
    BY <1>5, <2>1, Zenon DEF ValidPreseedRAID
  <2>2. CASE ~config.debian
    <3>1. Blank \notin Range(devices) /\ devices \in Seq(STRING)
      BY <1>6, <1>10, <1>11, <2>2, Zenon
    <3> QED BY <1>10, <1>11, <2>2, <3>1, WordsAre, ZenonT(30)
  <2> QED BY <2>1, <2>2, Zenon
<1>12. ASSUME config.debian \/ ~ByHand(config, "storage_raid_level")
       PROVE  f["storage_raid_level"].text = <<"1">>
  <2>1. CASE config.debian
    BY <1>5, <2>1, Zenon DEF ValidPreseedRAID
  <2>2. CASE ~config.debian
    <3>1. /\ "storage_raid_level" \in DOMAIN Merged.scalars
          /\ Merged.scalars["storage_raid_level"].text = <<"1">>
      BY <1>2, <1>5, <2>2, MergedRAID, Zenon
    <3>2. "storage_raid_level" \in BuiltinScalars
      BY Zenon DEF BuiltinScalars
    <3>3. f["storage_raid_level"].text = Merged.scalars["storage_raid_level"].text
      BY <1>2, <1>9, <1>12, <2>2, <3>1, <3>2, BuiltinScalar, PolicyParam, Zenon
    <3> QED BY <3>1, <3>3, Zenon
  <2> QED BY <2>1, <2>2, Zenon
<1>13. ASSUME \A k \in {"storage_raid_devices", "storage_raid_device_0",
                        "storage_raid_device_1"} : ~ByHand(config, k)
       PROVE  p["storage_raid_devices"].text
                = p["storage_raid_device_0"].text \o p["storage_raid_device_1"].text
  <2>1. /\ "raid_devices" \in DOMAIN Merged.lists /\ Len(devices) = 2
        /\ f["storage_raid_devices"].text = devices
    BY <1>10, <1>13, Zenon
  <2>2. /\ "storage_raid_device_0" \in DOMAIN f /\ f["storage_raid_device_0"].text = <<devices[1]>>
        /\ "storage_raid_device_1" \in DOMAIN f /\ f["storage_raid_device_1"].text = <<devices[2]>>
    BY <1>7, <1>9, <1>13, <2>1
  <2>3. devices = <<devices[1]>> \o <<devices[2]>>
    BY <1>6, <2>1
  <2>4. /\ p["storage_raid_devices"] = f["storage_raid_devices"]
        /\ p["storage_raid_device_0"] = f["storage_raid_device_0"]
        /\ p["storage_raid_device_1"] = f["storage_raid_device_1"]
    BY <1>2, <1>8, <2>2, Zenon
  <2> QED BY <2>1, <2>2, <2>3, <2>4, ZenonT(30)
<1>14. "storage_raid_devices" \in DOMAIN p /\ p["storage_raid_devices"] = f["storage_raid_devices"]
  BY <1>2, <1>8, Zenon
<1> QED BY <1>1, <1>4, <1>11, <1>12, <1>13, <1>14, ZenonT(30)

LEMMA EncryptionComplete ==
  ASSUME IInv, config # None, IsTrue(config.params, "storage_encryption_enabled"),
         config.debian \/ ~ByHand(config, "storage_encryption_enabled")
  PROVE  LET p == config.params
             Strict(k) == config.debian \/ ~ByHand(config, k)
         IN  /\ "storage_encryption_passphrase" \in DOMAIN p
             /\ Strict("storage_encryption_passphrase") =>
                  p["storage_encryption_passphrase"].text \notin NoText
             /\ \/ ByHand(config, "storage_encryption_enabled")
                \/ ByHand(config, "storage_encryption_passphrase")
                \/ p["storage_encryption_passphrase"].text
                     = Value(Merged.scalars["storage_encryption_passphrase"]).text
<1> DEFINE k == "storage_encryption_passphrase"
<1>1. PICK given, p, f : /\ given = Over(config.query, session.params) /\ p = config.params
                         /\ f = Projected
  BY Zenon
<1>2. /\ session # None /\ (config.debian => ValidPreseed(f))
      /\ \A x \in DOMAIN f : x \in DOMAIN p /\ p[x] = f[x]
      /\ DOMAIN Builtin \subseteq DOMAIN f
      /\ f = Flat(given, session.policy)
  BY <1>1, ConfigCases, Zenon DEF Projected
<1>3. "storage_encryption_enabled" \in DOMAIN Builtin
  BY Zenon DEF Builtin
<1>4. IsTrue(f, "storage_encryption_enabled")
  BY <1>1, <1>2, <1>3, Zenon DEF IsTrue
<1>5. config.debian => k \in DOMAIN f /\ f[k].text \notin NoText
  BY <1>2, <1>4, Zenon DEF ValidPreseed, ValidPreseedEncryption
<1>6. ASSUME ~ByHand(config, "storage_encryption_enabled")
      PROVE  /\ k \in DOMAIN f
             /\ k \notin DOMAIN given =>
                  /\ f[k].text = Value(Merged.scalars[k]).text
                  /\ f[k].text \notin NoText
  <2>1. IsTrue(Merged.scalars, "storage_encryption_enabled")
    BY <1>1, <1>4, <1>6, PolicyFlag, Zenon
  <2> QED BY <1>2, <2>1, PassphraseParam, Zenon
<1>7. ~ByHand(config, k) => k \notin DOMAIN given
  BY <1>1, NotByHand, Zenon
<1>8. k \in DOMAIN f
  BY <1>5, <1>6, Zenon
<1>9. k \in DOMAIN p /\ p[k] = f[k]
  BY <1>2, <1>8, Zenon
<1> QED BY <1>1, <1>5, <1>6, <1>7, <1>9, Zenon

LEMMA LayoutStep == IInv => LayoutComplete
<1> SUFFICES ASSUME IInv, config # None PROVE LayoutComplete
  BY Zenon DEF LayoutComplete
<1>1. PICK p, f : p = config.params /\ f = Projected
  BY Zenon
<1>2. /\ session # None /\ (config.debian => ValidPreseed(f))
      /\ \A k \in DOMAIN f : k \in DOMAIN p /\ p[k] = f[k]
      /\ DOMAIN Builtin \subseteq DOMAIN f
  BY <1>1, ConfigCases, Zenon
<1>3. ASSUME NEW k \in DOMAIN Builtin PROVE k \in DOMAIN p /\ k \in DOMAIN f /\ p[k] = f[k]
  BY <1>2, Zenon
<1>4. /\ "storage_encryption_enabled" \in DOMAIN Builtin
      /\ "storage_encryption_tpm_enabled" \in DOMAIN Builtin
      /\ "boot_fstype" \in DOMAIN Builtin /\ "root_fstype" \in DOMAIN Builtin
  BY Zenon DEF Builtin
<1>5. /\ IsTrue(p, "storage_encryption_enabled") <=> IsTrue(f, "storage_encryption_enabled")
      /\ IsTrue(p, "storage_encryption_tpm_enabled") <=> IsTrue(f, "storage_encryption_tpm_enabled")
  BY <1>3, <1>4, Zenon DEF IsTrue
<1>6. ASSUME IsTrue(p, "storage_encryption_tpm_enabled"),
             config.debian \/ ~ByHand(config, "storage_encryption_tpm_enabled"),
             config.debian \/ ~ByHand(config, "storage_encryption_enabled")
      PROVE  IsTrue(p, "storage_encryption_enabled")
  <2>1. CASE config.debian
    BY <1>2, <1>5, <1>6, <2>1, Zenon DEF ValidPreseed, ValidPreseedEncryption, ValidPreseedTPM
  <2>2. CASE ~config.debian
    <3>1. IsTrue(Merged.scalars, "storage_encryption_tpm_enabled")
      BY <1>1, <1>5, <1>6, <2>2, PolicyFlag, Zenon
    <3>2. IsTrue(Merged.scalars, "storage_encryption_enabled")
      BY <1>2, <3>1, MergedEncryption, Zenon
    <3> QED BY <1>1, <1>5, <1>6, <2>2, <3>2, PolicyFlag, Zenon
  <2> QED BY <2>1, <2>2, Zenon
<1>7. ASSUME ~ByHand(config, "modules")
      PROVE  Module(p["boot_fstype"].text) \cup Module(p["root_fstype"].text)
               \subseteq config.modules
  <2>1. "modules" \notin DOMAIN Over(config.query, session.params)
                           \cup DOMAIN session.policy.configParams
    BY <1>7, NotByHand, Zenon
  <2>2. config.modules = FinalModules(f)
    BY <1>1, <2>1, ConfigIs, Zenon DEF PartmanModules, Projected
  <2>3. p["boot_fstype"] = f["boot_fstype"] /\ p["root_fstype"] = f["root_fstype"]
    BY <1>3, <1>4, Zenon
  <2> QED BY <2>2, <2>3, Zenon DEF FinalModules
<1> QED BY <1>1, <1>6, <1>7, RaidComplete, EncryptionComplete, ZenonT(30) DEF LayoutComplete

\* The installer never gets half a layout, whatever the layers, the parameters
\* and the query are: resolveProvisioning, projectProvisioningParams and
\* validateDebianPreseedParams together leave none.
THEOREM LayoutsAreComplete == Spec => []LayoutComplete
BY ProvisioningInvariance, LayoutStep, PTL

-----------------------------------------------------------------------------
(* The configuration matches the script *)

\* Two maps say the same of a parameter, but for a large number in the first.
Agree(p, q, k) ==
  /\ k \in DOMAIN p <=> k \in DOMAIN q
  /\ k \in DOMAIN p => q[k].text = p[k].text \/ p[k].text \in DOMAIN Printed

LEMMA SameAgree ==
  ASSUME NEW p, NEW k
  PROVE  Agree(p, p, k)
BY Zenon DEF Agree

LEMMA OverAgree ==
  ASSUME NEW a, NEW b, NEW c, NEW d, NEW k, Agree(a, b, k), Agree(c, d, k)
  PROVE  Agree(Over(a, c), Over(b, d), k)
<1>1. CASE k \in DOMAIN a
  <2>1. k \in DOMAIN b
    BY <1>1, Zenon DEF Agree
  <2> QED BY <1>1, <2>1, OverHas, SMTT(30) DEF Agree
<1>2. CASE k \notin DOMAIN a
  <2>1. k \notin DOMAIN b
    BY <1>2, Zenon DEF Agree
  <2> QED BY <1>2, <2>1, OverLacks, SMTT(30) DEF Agree
<1> QED BY <1>1, <1>2, Zenon

\* JSON changes the text of a large number only.
LEMMA DecodedAgree ==
  ASSUME NEW fields, NEW k
  PROVE  Agree(fields, DecodedAll(fields), k)
BY Zenon DEF Agree, DecodedAll, Decoded

\* Policies that differ only in numbers among the installer's parameters, and
\* perhaps in the suppressed swap, project alike.
LEMMA AgreeFlat ==
  ASSUME NEW g, NEW h, NEW m, NEW n, \A k : Agree(g, h, k),
         m.scalars = n.scalars, m.lists = n.lists, m.filesystems = n.filesystems,
         \A k : Agree(m.configParams, n.configParams, k),
         NEW k, k # "swap_enabled" \/ SwapParams(m) = SwapParams(n)
  PROVE  Agree(Flat(g, m), Flat(h, n), k)
<1>1. ASSUME NEW x, x # "swap_enabled" \/ SwapParams(m) = SwapParams(n)
      PROVE  Agree(Stated(g, m), Stated(h, n), x)
  <2>1. PICK a, b, c, d, e, s, t : /\ a = ScalarParams(m.scalars) /\ b = ListParams(m.lists)
                                   /\ c = RAIDParams(m.lists)
                                   /\ d = FieldParams(SizeParam, m.filesystems, "sizeMiB")
                                   /\ e = FieldParams(FstypeParam, m.filesystems, "fstype")
                                   /\ s = SwapParams(m) /\ t = SwapParams(n)
    BY Zenon
  <2>2. Agree(s, t, x)
    <3>1. DOMAIN s \subseteq {"swap_enabled"} /\ DOMAIN t \subseteq {"swap_enabled"}
      BY <2>1 DEF SwapParams
    <3>2. CASE x # "swap_enabled"
      BY <3>1, <3>2, Zenon DEF Agree
    <3>3. CASE s = t
      BY <3>3, SameAgree, Zenon
    <3> QED BY <1>1, <2>1, <3>2, <3>3, Zenon
  <2>3. FilesystemParams(m) = Over(s, Over(d, e)) /\ FilesystemParams(n) = Over(t, Over(d, e))
    BY <2>1, ZenonT(30) DEF FilesystemParams
  <2>4. Agree(FilesystemParams(m), FilesystemParams(n), x)
    BY <2>2, <2>3, SameAgree, OverAgree, Zenon
  <2>5. PICK y, z, w : /\ y = FilesystemParams(m) /\ z = FilesystemParams(n)
                       /\ w = WipeParams(m.lists)
    BY Zenon
  <2>6. /\ Structured(m) = Over(a, Over(b, Over(c, y)))
        /\ Structured(n) = Over(a, Over(b, Over(c, z)))
    BY <2>1, <2>5, ZenonT(30) DEF Structured
  <2>7. Agree(Structured(m), Structured(n), x)
    <3>1. Agree(Over(c, y), Over(c, z), x)
      BY <2>4, <2>5, SameAgree, OverAgree, Zenon
    <3>2. Agree(Over(b, Over(c, y)), Over(b, Over(c, z)), x)
      BY <3>1, SameAgree, OverAgree, Zenon
    <3> QED BY <2>6, <3>2, SameAgree, OverAgree, Zenon
  <2>8. /\ Stated(g, m) = Over(g, Over(Structured(m), Over(m.configParams, w)))
        /\ Stated(h, n) = Over(h, Over(Structured(n), Over(n.configParams, w)))
    BY <2>5, ZenonT(30) DEF Stated
  <2>9. Agree(Over(m.configParams, w), Over(n.configParams, w), x)
    BY SameAgree, OverAgree, Zenon
  <2>10. Agree(Over(Structured(m), Over(m.configParams, w)),
               Over(Structured(n), Over(n.configParams, w)), x)
    BY <2>7, <2>9, OverAgree, Zenon
  <2> QED BY <2>8, <2>10, OverAgree, Zenon
<1>2. PICK p, q : p = Stated(g, m) /\ q = Stated(h, n)
  BY Zenon
<1>3. Agree(p, q, k) /\ Agree(p, q, "storage_disk")
  BY <1>1, <1>2, Zenon
<1>4. Agree(DerivedParams(p), DerivedParams(q), k)
  BY <1>3, SMTT(30) DEF Agree, DerivedParams, Text
<1>5. Agree(Over(DerivedParams(p), Builtin), Over(DerivedParams(q), Builtin), k)
  BY <1>4, SameAgree, OverAgree, Zenon
<1>6. Agree(Filled(p), Filled(q), k)
  BY <1>3, <1>5, OverAgree, Zenon DEF Filled
<1> QED BY <1>2, <1>6, Zenon DEF Flat

\* A swap that the merge remembers as absent was suppressed by the last layer
\* that has an entry for it.
LEMMA AbsentSuppressed ==
  ASSUME NEW n \in Merged.absent
  PROVE  Suppressed(n)
<1>1. PICK f1, f2, f3 : /\ f1 = policy[1].filesystems /\ f2 = policy[2].filesystems
                        /\ f3 = policy[3].filesystems
  BY Zenon
<1>2. Merged.absent = MergeAbsent(MergeAbsent({}, f2), f3)
  BY <1>1, ZenonT(30) DEF Merged, Merge, Copy
<1>3. \/ n \in DOMAIN f3 /\ IsTrue(f3[n], "absent")
      \/ n \notin DOMAIN f3 /\ n \in DOMAIN f2 /\ IsTrue(f2[n], "absent")
  BY <1>2, Zenon DEF MergeAbsent, Gone
<1>4. PICK naming : naming = {i \in 1 .. 3 : n \in DOMAIN policy[i].filesystems}
  BY ZenonT(30)
<1>5. naming # {} /\ IsTrue(policy[Max(naming)].filesystems[n], "absent")
  <2>1. naming \in SUBSET (1 .. 3)
    BY <1>4, Zenon
  <2>2. CASE n \in DOMAIN f3
    <3>1. 3 \in naming
      BY <1>1, <1>4, <2>2, SMTT(30)
    <3> QED BY <1>1, <1>3, <2>1, <2>2, <3>1, MaxOfThree, Zenon
  <2>3. CASE n \notin DOMAIN f3
    <3>1. 3 \notin naming /\ 2 \in naming
      BY <1>1, <1>3, <1>4, <2>3, SMTT(30)
    <3> QED BY <1>1, <1>3, <2>1, <2>3, <3>1, MaxOfThree, Zenon
  <2> QED BY <2>2, <2>3, Zenon
<1> QED BY <1>4, <1>5, ZenonT(30) DEF Suppressed

\* What is set by hand under the name of the modules is a parameter too.
LEMMA ModulesParam ==
  ASSUME NEW given, NEW m, DOMAIN m.scalars \subseteq Scalars, DOMAIN m.lists \subseteq Lists
  PROVE  LET p == Flat(given, m)
         IN  /\ "modules" \in DOMAIN given =>
                  "modules" \in DOMAIN p /\ p["modules"] = given["modules"]
             /\ "modules" \notin DOMAIN given /\ "modules" \in DOMAIN m.configParams =>
                  "modules" \in DOMAIN p /\ p["modules"] = m.configParams["modules"]
<1> DEFINE k == "modules"
<1>1. PICK t : t = Stated(given, m)
  BY Zenon
<1>2. k \notin DOMAIN ScalarParams(m.scalars)
  BY Zenon DEF ScalarParams, Scalars, Flags
<1>3. k \notin DOMAIN ListParams(m.lists)
  BY Zenon DEF ListParams, Lists
<1>4. k \notin DOMAIN Structured(m)
  BY <1>2, <1>3, RAIDKeys, FilesystemKeys, StructuredAt, SMTT(30)
<1>5. k \notin DOMAIN given /\ k \in DOMAIN m.configParams =>
        k \in DOMAIN t /\ t[k] = m.configParams[k]
  BY <1>1, <1>4, StatedAt, SMTT(30)
<1>6. k \notin DOMAIN given /\ k \in DOMAIN m.configParams =>
        k \in DOMAIN Flat(given, m) /\ Flat(given, m)[k] = m.configParams[k]
  BY <1>1, <1>5, FilledAt, Zenon DEF Flat
<1> QED BY <1>6, GivenFlat

LEMMA ModulesAgree ==
  ASSUME NEW g, NEW h, NEW m, NEW n, \A k : Agree(g, h, k),
         m.scalars = n.scalars, m.lists = n.lists, m.filesystems = n.filesystems,
         \A k : Agree(m.configParams, n.configParams, k),
         DOMAIN m.scalars \subseteq Scalars, DOMAIN m.lists \subseteq Lists
  PROVE  \/ PartmanModules(h, n) = PartmanModules(g, m)
         \/ \E k \in {"modules", "boot_fstype", "root_fstype"} :
              k \in DOMAIN Flat(g, m) /\ Flat(g, m)[k].text \in DOMAIN Printed
<1>1. PICK p, q : p = Flat(g, m) /\ q = Flat(h, n)
  BY Zenon
<1>2. PICK c, d : c = m.configParams /\ d = n.configParams
  BY Zenon
<1>3. DOMAIN h \cap {"modules"} = DOMAIN g \cap {"modules"}
  BY Zenon DEF Agree
<1>4. DOMAIN c \cap {"modules"} = DOMAIN d \cap {"modules"}
  BY <1>2, Zenon DEF Agree
<1>5. CASE "modules" \notin DOMAIN g \cup DOMAIN c
  <2>1. PartmanModules(h, n) = FinalModules(q) /\ PartmanModules(g, m) = FinalModules(p)
    BY <1>1, <1>2, <1>3, <1>4, <1>5, Zenon DEF PartmanModules
  <2>2. "boot_fstype" \in DOMAIN p /\ "root_fstype" \in DOMAIN p
    <3>1. "boot_fstype" \in DOMAIN Builtin /\ "root_fstype" \in DOMAIN Builtin
      BY Zenon DEF Builtin
    <3> QED BY <1>1, <3>1, GivenFlat, Zenon
  <2>3. Agree(p, q, "boot_fstype") /\ Agree(p, q, "root_fstype")
    BY <1>1, AgreeFlat, Zenon
  <2>4. \/ /\ q["boot_fstype"].text = p["boot_fstype"].text
           /\ q["root_fstype"].text = p["root_fstype"].text
        \/ p["boot_fstype"].text \in DOMAIN Printed
        \/ p["root_fstype"].text \in DOMAIN Printed
    BY <2>2, <2>3, Zenon DEF Agree
  <2>5. /\ q["boot_fstype"].text = p["boot_fstype"].text
        /\ q["root_fstype"].text = p["root_fstype"].text
        => FinalModules(q) = FinalModules(p)
    BY ZenonT(30) DEF FinalModules
  <2> QED BY <1>1, <2>1, <2>2, <2>4, <2>5, Zenon
<1>6. CASE "modules" \in DOMAIN g
  <2>1. "modules" \in DOMAIN h
    BY <1>3, <1>6, Zenon
  <2>2. /\ PartmanModules(h, n) = Range(h["modules"].text)
        /\ PartmanModules(g, m) = Range(g["modules"].text)
    BY <1>6, <2>1, Zenon DEF PartmanModules
  <2>3. h["modules"].text = g["modules"].text \/ g["modules"].text \in DOMAIN Printed
    BY <1>6, Zenon DEF Agree
  <2>4. "modules" \in DOMAIN p /\ p["modules"] = g["modules"]
    BY <1>1, <1>6, ModulesParam, Zenon
  <2> QED BY <1>1, <2>2, <2>3, <2>4, Zenon
<1>7. CASE "modules" \notin DOMAIN g /\ "modules" \in DOMAIN c
  <2>1. "modules" \notin DOMAIN h /\ "modules" \in DOMAIN d
    BY <1>3, <1>4, <1>7, Zenon
  <2>2. CASE EntryModules(m.filesystems) # {} /\ DOMAIN m.filesystems # {}
    BY <1>2, <1>7, <2>1, <2>2, Zenon DEF PartmanModules
  <2>3. CASE ~(EntryModules(m.filesystems) # {} /\ DOMAIN m.filesystems # {})
    <3>1. /\ PartmanModules(h, n) = Range(d["modules"].text)
          /\ PartmanModules(g, m) = Range(c["modules"].text)
      BY <1>2, <1>7, <2>1, <2>3, Zenon DEF PartmanModules
    <3>2. d["modules"].text = c["modules"].text \/ c["modules"].text \in DOMAIN Printed
      BY <1>2, <1>7, Zenon DEF Agree
    <3>3. "modules" \in DOMAIN p /\ p["modules"] = c["modules"]
      BY <1>1, <1>2, <1>7, ModulesParam, Zenon
    <3> QED BY <1>1, <3>1, <3>2, <3>3, Zenon
  <2> QED BY <2>2, <2>3, Zenon
<1> QED BY <1>5, <1>6, <1>7, Zenon

LEMMA MatchStep == IInv => ConfigMatchesScript
<1> SUFFICES ASSUME IInv, config # None, DOMAIN config.query = {} PROVE ConfigMatchesScript
  BY Zenon DEF ConfigMatchesScript
<1>1. session # None
  BY ConfigIs, Zenon
<1>2. PICK x \in {Resolved, Reloaded(Resolved)} : script = Project(params, x)
  BY <1>1, Zenon DEF IInv
<1>3. PICK n, h, p, q : /\ n = session.policy /\ h = Over(config.query, session.params)
                        /\ p = Flat(params, x) /\ q = Flat(h, n)
  BY Zenon
<1>4. n = Reloaded(Resolved)
  BY <1>1, <1>3, SessionFields, Zenon
<1>5. /\ x.scalars = n.scalars /\ x.lists = n.lists /\ x.filesystems = n.filesystems
      /\ x.users = n.users /\ n.absent = {}
      /\ x.absent \in {Merged.absent, {}}
      /\ n.configParams = DecodedAll(Resolved.configParams)
      /\ x.configParams \in {Resolved.configParams, DecodedAll(Resolved.configParams)}
  <2>1. /\ n.scalars = Resolved.scalars /\ n.lists = Resolved.lists
        /\ n.filesystems = Resolved.filesystems /\ n.users = Resolved.users /\ n.absent = {}
        /\ n.configParams = DecodedAll(Resolved.configParams)
    BY <1>4, Zenon DEF Reloaded
  <2>2. Resolved.absent = Merged.absent
    BY Zenon DEF Resolved, Resolution
  <2>3. x = Resolved \/ x = n
    BY <1>2, <1>4, Zenon
  <2> QED BY <2>1, <2>2, <2>3, Zenon
<1>6. \A k : Agree(x.configParams, n.configParams, k)
  BY <1>5, SameAgree, DecodedAgree
<1>7. \A k : Agree(params, h, k)
  <2>1. session.params = DecodedAll(params)
    BY <1>1, SessionFields, Zenon
  <2>2. ASSUME NEW k PROVE Agree(params, h, k)
    <3>1. Agree(params, DecodedAll(params), k)
      BY DecodedAgree, Zenon
    <3>2. k \notin DOMAIN config.query
      BY Zenon
    <3>3. /\ k \in DOMAIN h <=> k \in DOMAIN session.params
          /\ k \in DOMAIN session.params => h[k] = session.params[k]
      BY <1>3, <3>2, OverLacks, SMTT(30)
    <3> QED BY <2>1, <3>1, <3>3, Zenon DEF Agree
  <2> QED BY <2>2, Zenon
<1>8. DOMAIN x.scalars \subseteq Scalars /\ DOMAIN x.lists \subseteq Lists
  <2>1. n.scalars = ResolvedScalars(Merged.scalars) /\ n.lists = Merged.lists
    BY <1>1, <1>3, SessionFields, Zenon
  <2> QED BY <1>5, <2>1, MergedLists, MergedScalars, ResolvedScalarAt, Zenon DEF ScalarTyped
<1>9. script.params = p /\ script.users = x.users /\ script.modules = PartmanModules(params, x)
  BY <1>2, <1>3, Zenon DEF Project
<1>10. /\ config.users = n.users /\ config.modules = PartmanModules(h, n)
       /\ config.params = q \/ config.params = Completed(q)
  BY <1>3, ConfigIs, ZenonT(30)
<1>11. /\ \A k \in DOMAIN q : k \in DOMAIN config.params /\ config.params[k] = q[k]
       /\ DOMAIN config.params \ DOMAIN q
            \subseteq {"storage_raid_device_0", "storage_raid_device_1"}
  <2>1. DOMAIN Completed(q) \ DOMAIN q \subseteq {"storage_raid_device_0", "storage_raid_device_1"}
    <3>1. \A devices : DOMAIN Members(devices) = {"storage_raid_device_0", "storage_raid_device_1"}
      BY Zenon DEF Members
    <3>2. PICK v : v = Members(q["storage_raid_devices"].text)
      BY Zenon
    <3>3. Completed(q) = q \/ Completed(q) = Over(q, v)
      BY <3>2, ZenonT(30) DEF Completed
    <3>4. DOMAIN Over(q, v) = DOMAIN q \cup DOMAIN v
      BY OverDomain, ZenonT(30)
    <3> QED BY <3>1, <3>2, <3>3, <3>4, Zenon
  <2> QED BY <1>10, <2>1, CompletedKeeps, Zenon
<1>12. ASSUME NEW k, k # "swap_enabled" \/ SwapParams(x) = SwapParams(n)
       PROVE  Agree(p, q, k)
  BY <1>3, <1>5, <1>6, <1>7, <1>12, AgreeFlat, Zenon
<1>13. "swap_enabled" \in DOMAIN p /\ "swap_enabled" \in DOMAIN q
  <2>1. "swap_enabled" \in DOMAIN Builtin
    BY ZenonT(30) DEF Builtin
  <2> QED BY <1>3, <2>1, GivenFlat, Zenon
<1>14. ~Suppressed("swap") => SwapParams(x) = SwapParams(n)
  <2>1. ~Suppressed("swap") => "swap" \notin x.absent
    BY <1>5, AbsentSuppressed, Zenon
  <2> QED BY <1>5, <2>1, ZenonT(30) DEF SwapParams
<1>15. DOMAIN p = DOMAIN q
  BY <1>12, <1>13, Zenon DEF Agree
<1>16. \A k \in DOMAIN p : \/ config.params[k].text = p[k].text
                           \/ p[k].text \in DOMAIN Printed
                           \/ k = "swap_enabled" /\ Suppressed("swap")
  BY <1>11, <1>12, <1>14, <1>15, Zenon DEF Agree
<1>17. \/ config.modules = script.modules
       \/ \E k \in {"modules", "boot_fstype", "root_fstype"} :
            k \in DOMAIN p /\ p[k].text \in DOMAIN Printed
  <2>1. x.scalars = n.scalars /\ x.lists = n.lists /\ x.filesystems = n.filesystems
    BY <1>5, Zenon
  <2>2. \/ PartmanModules(h, n) = PartmanModules(params, x)
        \/ \E k \in {"modules", "boot_fstype", "root_fstype"} :
             k \in DOMAIN Flat(params, x) /\ Flat(params, x)[k].text \in DOMAIN Printed
    BY <1>6, <1>7, <1>8, <2>1, ModulesAgree, ZenonT(30)
  <2>3. config.modules = PartmanModules(h, n) /\ script.modules = PartmanModules(params, x)
    BY <1>9, <1>10, ZenonT(30)
  <2> QED BY <1>3, <2>2, <2>3, ZenonT(30)
<1>18. /\ DOMAIN p \subseteq DOMAIN config.params
       /\ DOMAIN config.params \ DOMAIN p
            \subseteq {"storage_raid_device_0", "storage_raid_device_1"}
  BY <1>11, <1>15, Zenon
<1>19. config.users = script.users
  BY <1>5, <1>9, <1>10, Zenon
<1> QED BY <1>9, <1>16, <1>17, <1>18, <1>19, ZenonT(30) DEF ConfigMatchesScript

\* What genBootScript renders and what the installer fetches later, from the
\* session that JSON kept, are the same policy.
THEOREM ConfigurationMatchesScript == Spec => []ConfigMatchesScript
BY ProvisioningInvariance, MatchStep, PTL
=============================================================================
