---------------------------- MODULE BootLedger -----------------------------
(***************************************************************************)
(* What the persisted records promise about boots: a selection is recorded *)
(* first, a manual boot only after the selection of the same target, the   *)
(* boot session only after the boot, and a script is delivered only when   *)
(* all of these are on record.  Records are only added.                    *)
(***************************************************************************)
CONSTANTS Mac, Target

VARIABLES
  selections,  \* UserSelection events: MAC and target
  boots,       \* HostBoot events: MAC, target and how the target was chosen
  snapshots,   \* boot sessions: MAC and target
  scripts      \* boot scripts delivered

ledger == <<selections, boots, snapshots, scripts>>

Pair == [mac : Mac, target : Target]
BootRecord == [mac : Mac, target : Target, how : {"auto", "manual"}]
PairOf(b) == [mac |-> b.mac, target |-> b.target]

Init == selections = {} /\ boots = {} /\ snapshots = {} /\ scripts = {}

Select(s) ==
  /\ selections' = selections \cup {s}
  /\ UNCHANGED <<boots, snapshots, scripts>>

RecordBoot(b) ==
  /\ b.how = "manual" => PairOf(b) \in selections
  /\ boots' = boots \cup {b}
  /\ UNCHANGED <<selections, snapshots, scripts>>

OpenSession(b) ==
  /\ b \in boots
  /\ snapshots' = snapshots \cup {PairOf(b)}
  /\ UNCHANGED <<selections, boots, scripts>>

Deliver(b) ==
  /\ b \in boots /\ PairOf(b) \in snapshots
  /\ scripts' = scripts \cup {b}
  /\ UNCHANGED <<selections, boots, snapshots>>

Next ==
  \/ \E s \in Pair : Select(s)
  \/ \E b \in BootRecord : RecordBoot(b) \/ OpenSession(b) \/ Deliver(b)

Spec == Init /\ [][Next]_ledger
=============================================================================
