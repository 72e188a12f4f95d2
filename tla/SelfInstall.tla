---------------------------- MODULE SelfInstall ----------------------------
(***************************************************************************)
(* ensure_named_boot_entry (boot_entry.rs): on every boot LamBoot looks    *)
(* for a Boot#### variable with its own description and, when it finds     *)
(* none, writes one in the lowest free slot and puts it first in           *)
(* BootOrder.  Two variables are written; power can be lost between them,  *)
(* the firmware can refuse either, and a read that fails looks like a slot *)
(* that is free.  Between boots the operating system edits the same        *)
(* variables.                                                              *)
(***************************************************************************)
EXTENDS Integers, Sequences, Functions

CONSTANTS
  ScanMax,   \* BOOT_SCAN_MAX: the last slot the scan looks at
  SlotMax,   \* the last slot there is (0xFFFF)
  Others,    \* descriptions of other systems' entries
  Mine,      \* LAMBOOT_DESCRIPTION
  NoEntry,   \* the variable does not exist
  MaxFaults, \* bound: failed reads, refused writes and power losses
  MaxEdits   \* bound: edits by the operating system

ASSUME SelfInstallAssumption ==
  /\ ScanMax \in Nat /\ SlotMax \in Nat /\ ScanMax <= SlotMax
  /\ Mine \notin Others /\ NoEntry \notin Others /\ Mine # NoEntry
  /\ MaxFaults \in Nat /\ MaxEdits \in Nat

VARIABLES
  bootVar,   \* Boot####: the description each slot holds
  bootOrder, \* BootOrder; empty when the variable does not exist
  wanted,    \* policy.self_install_boot_entry, and the binary is on the ESP
  ipc,       \* off, check, write, order, done
  slot,      \* number: the slot chosen
  installed, \* SelfInstall: what ensure_named_boot_entry returned
  misread,   \* history: a read of an existing variable failed
  cut,       \* history: Boot#### was written and BootOrder then was not
  faults, edits \* counters for the bounds

installVars ==
  <<bootVar, bootOrder, wanted, ipc, slot, installed, misread, cut, faults, edits>>

Slots == 0 .. SlotMax
Scanned == 0 .. ScanMax
Used == {n \in Slots : bootVar[n] # NoEntry}

\* A machine as another system left it: BootOrder lists existing entries, each
\* once, and LamBoot has none yet.
InstallInit ==
  /\ bootVar \in [Slots -> Others \cup {NoEntry}]
  /\ bootOrder \in {s \in UNION {[1 .. k -> Used] : k \in 0 .. SlotMax + 1} : IsInjective(s)}
  /\ wanted \in BOOLEAN
  /\ ipc = "off" /\ slot = 0 /\ installed = "none"
  /\ misread = FALSE /\ cut = FALSE /\ faults = 0 /\ edits = 0

Fault == faults < MaxFaults /\ faults' = faults + 1
-----------------------------------------------------------------------------
(* One boot *)

InstallPowerOn ==
  /\ ipc = "off" /\ ipc' = IF wanted THEN "check" ELSE "done"
  /\ installed' = "none"
  /\ UNCHANGED <<bootVar, bootOrder, wanted, slot, misread, cut, faults, edits>>

\* LoadedImage or the device path cannot be had, or the path cannot be built.
PathUnknown ==
  /\ ipc = "check" /\ Fault
  /\ ipc' = "done" /\ installed' \in {"NoDevicePath", "Failed"}
  /\ UNCHANGED <<bootVar, bootOrder, wanted, slot, misread, cut, edits>>

\* first_free_boot_number: the lowest, if there is one.
FirstFree(used) == {n \in Scanned \ used : \A m \in Scanned \ used : n <= m}

\* Seeded defect: the scan stops before the last slot.
ScanShort(unread) ==
  LET used == {n \in Scanned \ unread : bootVar[n] # NoEntry}
  IN  IF \E n \in used \ {ScanMax} : bootVar[n] = Mine
      THEN ipc' = "done" /\ installed' = "AlreadyPresent" /\ slot' = slot
      ELSE IF Scanned \subseteq used
           THEN ipc' = "done" /\ installed' = "Failed" /\ slot' = slot
           ELSE ipc' = "write" /\ slot' \in FirstFree(used) /\ installed' = installed

\* Seeded defect: only a slot behind all the used ones counts as free.
ScanBehindLast(unread) ==
  LET used == {n \in Scanned \ unread : bootVar[n] # NoEntry}
  IN  IF \E n \in used : bootVar[n] = Mine
      THEN ipc' = "done" /\ installed' = "AlreadyPresent" /\ slot' = slot
      ELSE IF ScanMax \in used
           THEN ipc' = "done" /\ installed' = "Failed" /\ slot' = slot
           ELSE ipc' = "write" /\ slot' \in FirstFree(used) /\ installed' = installed

\* The scan over Boot0000 .. Boot00FF; the reads of "unread" fail.
Scan(unread) ==
  LET used == {n \in Scanned \ unread : bootVar[n] # NoEntry}
  IN  IF \E n \in used : bootVar[n] = Mine
      THEN ipc' = "done" /\ installed' = "AlreadyPresent" /\ slot' = slot
      ELSE IF Scanned \subseteq used
           THEN ipc' = "done" /\ installed' = "Failed" /\ slot' = slot
           ELSE ipc' = "write" /\ slot' \in FirstFree(used) /\ installed' = installed

ScanAll ==
  /\ ipc = "check" /\ Scan({})
  /\ UNCHANGED <<bootVar, bootOrder, wanted, misread, cut, faults, edits>>

ScanMisreads ==
  /\ ipc = "check" /\ Fault
  /\ \E n \in Used \cap Scanned : Scan({n})
  /\ misread' = TRUE
  /\ UNCHANGED <<bootVar, bootOrder, wanted, cut, edits>>

WriteEntry ==
  /\ ipc = "write"
  /\ bootVar' = [bootVar EXCEPT ![slot] = Mine]
  /\ ipc' = "order"
  /\ UNCHANGED <<bootOrder, wanted, slot, installed, misread, cut, faults, edits>>

EntryRefused ==
  /\ ipc = "write" /\ Fault
  /\ ipc' = "done" /\ installed' = "Failed"
  /\ UNCHANGED <<bootVar, bootOrder, wanted, slot, misread, cut, edits>>

\* Seeded defect: a missing BootOrder is left missing.
UnlessMissing(order, n) == IF n \in Range(order) \/ order = <<>> THEN order ELSE <<n>> \o order

\* boot_order_with_front.
BootOrderWithFront(order, n) == IF n \in Range(order) THEN order ELSE <<n>> \o order

WriteOrder ==
  /\ ipc = "order"
  /\ bootOrder' = BootOrderWithFront(bootOrder, slot)
  /\ ipc' = "done" /\ installed' = "Created"
  /\ UNCHANGED <<bootVar, wanted, slot, misread, cut, faults, edits>>

\* An error reading BootOrder counts as no BootOrder.
OrderMisread ==
  /\ ipc = "order" /\ Fault
  /\ bootOrder # <<>> /\ misread' = TRUE
  /\ bootOrder' = BootOrderWithFront(<<>>, slot)
  /\ ipc' = "done" /\ installed' = "Created"
  /\ UNCHANGED <<bootVar, wanted, slot, cut, edits>>

\* The error is logged and Created is returned all the same.
OrderRefused ==
  /\ ipc = "order" /\ Fault
  /\ ipc' = "done" /\ installed' = "Created" /\ cut' = TRUE
  /\ UNCHANGED <<bootVar, bootOrder, wanted, slot, misread, edits>>
-----------------------------------------------------------------------------
(* Between boots *)

\* The rest of the boot, the operating system and the shutdown.
PowerOff ==
  /\ ipc = "done" /\ ipc' = "off"
  /\ UNCHANGED <<bootVar, bootOrder, wanted, slot, installed, misread, cut, faults, edits>>

InstallPowerLoss ==
  /\ ipc \in {"check", "write", "order"} /\ Fault
  /\ ipc' = "off" /\ cut' = (cut \/ ipc = "order")
  /\ UNCHANGED <<bootVar, bootOrder, wanted, slot, installed, misread, edits>>

Edit == ipc = "off" /\ edits < MaxEdits /\ edits' = edits + 1

OsAdds(d, n) ==
  /\ Edit /\ bootVar[n] = NoEntry
  /\ bootVar' = [bootVar EXCEPT ![n] = d]
  /\ bootOrder' = BootOrderWithFront(bootOrder, n)
  /\ UNCHANGED <<wanted, ipc, slot, installed, misread, cut, faults>>

\* An order without its k-th element.
WithoutAt(order, k) ==
  [i \in 1 .. Len(order) - 1 |-> IF i < k THEN order[i] ELSE order[i + 1]]

OsRemoves(n) ==
  /\ Edit /\ bootVar[n] # NoEntry
  /\ bootVar' = [bootVar EXCEPT ![n] = NoEntry]
  /\ IF n \in Range(bootOrder)
     THEN \E k \in DOMAIN bootOrder :
            bootOrder[k] = n /\ bootOrder' = WithoutAt(bootOrder, k)
     ELSE UNCHANGED bootOrder
  /\ UNCHANGED <<wanted, ipc, slot, installed, misread, cut, faults>>

OsEditsPolicy ==
  /\ Edit /\ wanted' = ~wanted
  /\ UNCHANGED <<bootVar, bootOrder, ipc, slot, installed, misread, cut, faults>>

BootSteps ==
  InstallPowerOn \/ PathUnknown \/ ScanAll \/ ScanMisreads \/ WriteEntry \/ EntryRefused
  \/ WriteOrder \/ OrderMisread \/ OrderRefused \/ PowerOff

OsSteps == (\E n \in Slots : OsRemoves(n) \/ \E d \in Others : OsAdds(d, n)) \/ OsEditsPolicy

InstallNext == BootSteps \/ InstallPowerLoss \/ OsSteps

InstallSpec == InstallInit /\ [][InstallNext]_installVars

\* A machine that is on goes on: each boot reaches its end and another follows.
InstallFairness == WF_installVars(BootSteps)
-----------------------------------------------------------------------------
(* Properties *)

\* The variables' types.
InstallTypeOK ==
  /\ bootVar \in [Slots -> Others \cup {NoEntry, Mine}]
  /\ bootOrder \in Seq(Slots)
  /\ wanted \in BOOLEAN /\ misread \in BOOLEAN /\ cut \in BOOLEAN
  /\ ipc \in {"off", "check", "write", "order", "done"}
  /\ slot \in Slots
  /\ installed \in {"none", "AlreadyPresent", "NoDevicePath", "Failed", "Created"}
  /\ faults \in Nat /\ edits \in Nat

\* However many boots, power losses and edits by the operating system there
\* are, LamBoot is in one Boot#### at most, as "never duplicates or churns
\* NVRAM" (boot_entry.rs:125) has it, as long as no read of an existing
\* variable ever failed.
NeverDuplicated ==
  ~misread => \A m, n \in Slots : bootVar[m] = Mine /\ bootVar[n] = Mine => m = n

\* A boot of LamBoot leaves every other entry and the rest of BootOrder as
\* they were ("leaving every other entry untouched", boot_entry.rs:126),
\* unless a read failed: then another system's entry may be overwritten.
OthersUntouched ==
  [][BootSteps \/ InstallPowerLoss =>
       misread' \/ /\ \A n \in Slots : bootVar[n] # NoEntry => bootVar'[n] = bootVar[n]
                   /\ bootOrder' \in {bootOrder, <<slot>> \o bootOrder}]_installVars

\* A LamBoot entry the boot manager never tries, because BootOrder lacks it,
\* is what is left of a power loss or a refused write between the two
\* variables; the later scans find the entry and never repair the order.
OrphanOnlyIfCut ==
  \A n \in Slots :
    bootVar[n] = Mine /\ n \notin Range(bootOrder) /\ ipc # "order" => cut \/ misread

\* "Created" means the new entry is first in BootOrder (boot_entry.rs:64),
\* unless the write of BootOrder was refused or a variable was misread.
CreatedIsFirst ==
  ipc = "done" /\ installed = "Created" /\ ~cut /\ ~misread =>
    bootOrder # <<>> /\ bootOrder[1] = slot /\ bootVar[slot] = Mine

\* BootOrder never names a slot without an entry.
NoDanglingOrder == \A k \in DOMAIN bootOrder : bootVar[bootOrder[k]] # NoEntry

HasRoom == \E n \in Scanned : bootVar[n] \in {NoEntry, Mine}

\* Once the policy asks for the entry for good and a slot in reach of the scan
\* is free, the machine ends up with a LamBoot entry, whatever failed before.
InstalledEventually ==
  <>[](wanted /\ HasRoom) => <>[](\E n \in Slots : bootVar[n] = Mine)
=============================================================================
