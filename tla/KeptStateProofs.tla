-------------------------- MODULE KeptStateProofs ---------------------------
(***************************************************************************)
(* What LamBoot keeps from one boot to the next, for any number of boots,  *)
(* faults and events.                                                      *)
(*                                                                         *)
(* SelfInstall: what a scan without read errors found free is still free   *)
(* when it is written, and BootOrder names only what exists, so the new    *)
(* number is not in it yet.                                                *)
(*                                                                         *)
(* TrustLog and BootLogs: lines and breadcrumbs are numbered on, once each *)
(* and in order, whatever flushes fail.                                    *)
(*                                                                         *)
(* BootHealth: the crash counter and the state in firmware variables,      *)
(* for every counter width, threshold and set of generation ids.           *)
(***************************************************************************)
EXTENDS SelfInstall, TrustLog, BootLogs, BootHealth, SequenceTheorems, TLAPS
-----------------------------------------------------------------------------
(* SelfInstall *)

\* The slot is in the order.
ListedIn(order, n) == \E k \in 1 .. Len(order) : order[k] = n
Listed(n) == ListedIn(bootOrder, n)

\* BootOrder names no slot twice.
Unrepeated(order) == \A i, j \in 1 .. Len(order) : order[i] = order[j] => i = j

\* The inductive invariant.
InstallInv ==
  /\ InstallTypeOK
  /\ Unrepeated(bootOrder)
  /\ \A n \in Slots : Listed(n) => bootVar[n] # NoEntry
  /\ \A n \in Slots : bootVar[n] = Mine => n \in Scanned
  /\ NeverDuplicated
  /\ ipc = "write" /\ ~misread => /\ bootVar[slot] = NoEntry
                                  /\ \A n \in Slots : bootVar[n] # Mine
  /\ ipc = "write" => slot \in Scanned
  /\ ipc = "order" => bootVar[slot] = Mine /\ slot \in Scanned
  /\ ipc = "order" /\ ~misread => ~Listed(slot)
  /\ \A n \in Slots : bootVar[n] = Mine /\ ~Listed(n) /\ ~(ipc = "order" /\ n = slot)
                        => cut \/ misread
  /\ ipc = "done" /\ installed = "Created" /\ ~cut /\ ~misread =>
       Len(bootOrder) > 0 /\ bootOrder[1] = slot /\ bootVar[slot] = Mine

\* The constants, the slots and the descriptions.
LEMMA SlotFacts ==
  /\ Scanned \subseteq Slots /\ 0 \in Scanned /\ Slots \subseteq Nat
  /\ Mine # NoEntry /\ Mine \notin Others /\ NoEntry \notin Others
  BY SelfInstallAssumption DEF Slots, Scanned

\* An order that has the slot in front, or has it already.
LEMMA FrontFacts ==
  ASSUME NEW order \in Seq(Slots), NEW n \in Slots
  PROVE  LET new == BootOrderWithFront(order, n)
         IN  /\ new \in Seq(Slots) /\ Len(new) > 0
             /\ \A m : ListedIn(new, m) <=> ListedIn(order, m) \/ m = n
             /\ Unrepeated(order) => Unrepeated(new)
             /\ ~ListedIn(order, n) => new = <<n>> \o order /\ new[1] = n
             /\ new \in {order, <<n>> \o order}
<1> DEFINE new == BootOrderWithFront(order, n)
           front == <<n>> \o order
<1>1. n \in Range(order) <=> ListedIn(order, n)
  BY DEF Range, ListedIn
<1>2. /\ front \in Seq(Slots) /\ Len(front) = Len(order) + 1 /\ front[1] = n
      /\ \A k \in 2 .. Len(front) : front[k] = order[k - 1]
  OBVIOUS
<1>3. \A m : ListedIn(front, m) <=> ListedIn(order, m) \/ m = n
  <2> TAKE m
  <2>1. ASSUME ListedIn(front, m) PROVE ListedIn(order, m) \/ m = n
    <3>1. PICK k \in 1 .. Len(front) : front[k] = m
      BY <2>1 DEF ListedIn
    <3>2. CASE k = 1
      BY <3>1, <3>2, <1>2
    <3>3. CASE k # 1
      <4>1. k - 1 \in 1 .. Len(order) /\ order[k - 1] = m
        BY <3>1, <3>3, <1>2
      <4> QED BY <4>1 DEF ListedIn
    <3> QED BY <3>2, <3>3
  <2>2. ASSUME ListedIn(order, m) PROVE ListedIn(front, m)
    <3>1. PICK k \in 1 .. Len(order) : order[k] = m
      BY <2>2 DEF ListedIn
    <3>2. k + 1 \in 1 .. Len(front) /\ front[k + 1] = m
      BY <3>1, <1>2
    <3> QED BY <3>2, Zenon DEF ListedIn
  <2>3. ListedIn(front, n)
    BY <1>2 DEF ListedIn
  <2> QED BY <2>1, <2>2, <2>3
<1>4. Unrepeated(order) /\ ~ListedIn(order, n) => Unrepeated(front)
  <2> SUFFICES ASSUME Unrepeated(order), ~ListedIn(order, n),
                      NEW i \in 1 .. Len(front), NEW j \in 1 .. Len(front),
                      front[i] = front[j], i < j
               PROVE  FALSE
    BY <1>2 DEF Unrepeated
  <2>1. j - 1 \in 1 .. Len(order) /\ front[j] = order[j - 1]
    BY <1>2
  <2>2. CASE i = 1
    BY <2>1, <2>2, <1>2 DEF ListedIn
  <2>3. CASE i # 1
    <3>1. i - 1 \in 1 .. Len(order) /\ front[i] = order[i - 1]
      BY <1>2, <2>3
    <3> QED BY <2>1, <3>1 DEF Unrepeated
  <2> QED BY <2>2, <2>3
<1>5. CASE ListedIn(order, n)
  <2>1. new = order
    BY <1>1, <1>5 DEF BootOrderWithFront
  <2>2. Len(order) > 0
    BY <1>5 DEF ListedIn
  <2> QED BY <2>1, <2>2, <1>5
<1>6. CASE ~ListedIn(order, n)
  <2>1. new = front
    BY <1>1, <1>6 DEF BootOrderWithFront
  <2> QED BY <2>1, <1>2, <1>3, <1>4, <1>6
<1> QED BY <1>5, <1>6

\* An order that loses one of its elements.
LEMMA WithoutFacts ==
  ASSUME NEW order \in Seq(Slots), NEW k \in 1 .. Len(order), Unrepeated(order)
  PROVE  LET new == WithoutAt(order, k)
         IN  /\ new \in Seq(Slots) /\ Unrepeated(new)
             /\ \A m : ListedIn(new, m) <=> ListedIn(order, m) /\ m # order[k]
<1> DEFINE new == WithoutAt(order, k)
<1>1. /\ new \in Seq(Slots) /\ Len(new) = Len(order) - 1
      /\ \A i \in 1 .. Len(new) : new[i] = IF i < k THEN order[i] ELSE order[i + 1]
  <2>1. Len(order) - 1 \in Nat
    OBVIOUS
  <2>2. new = [i \in 1 .. Len(order) - 1 |-> IF i < k THEN order[i] ELSE order[i + 1]]
    BY DEF WithoutAt
  <2>3. \A i \in 1 .. Len(order) - 1 : (IF i < k THEN order[i] ELSE order[i + 1]) \in Slots
    OBVIOUS
  <2>4. new \in [1 .. Len(order) - 1 -> Slots]
    BY <2>2, <2>3
  <2> QED BY <2>1, <2>2, <2>4
<1> HIDE DEF new
<1>2. Unrepeated(new)
  BY <1>1, SMTT(30) DEF Unrepeated
<1>3. \A m : ListedIn(new, m) <=> ListedIn(order, m) /\ m # order[k]
  <2> TAKE m
  <2>1. ASSUME ListedIn(new, m) PROVE ListedIn(order, m) /\ m # order[k]
    <3>1. PICK i \in 1 .. Len(new) : new[i] = m
      BY <2>1 DEF ListedIn
    <3>2. CASE i < k
      BY <3>1, <3>2, <1>1 DEF ListedIn, Unrepeated
    <3>3. CASE ~(i < k)
      <4>1. i + 1 \in 1 .. Len(order) /\ order[i + 1] = m /\ i + 1 # k
        BY <3>1, <3>3, <1>1
      <4> QED BY <4>1 DEF ListedIn, Unrepeated
    <3> QED BY <3>2, <3>3
  <2>2. ASSUME ListedIn(order, m), m # order[k] PROVE ListedIn(new, m)
    <3>1. PICK i \in 1 .. Len(order) : order[i] = m
      BY <2>2 DEF ListedIn
    <3>2. CASE i < k
      <4>1. i \in 1 .. Len(new) /\ new[i] = m
        BY <3>1, <3>2, <1>1
      <4> QED BY <4>1 DEF ListedIn
    <3>3. CASE i > k
      <4>1. i - 1 \in 1 .. Len(new) /\ new[i - 1] = m
        BY <3>1, <3>3, <1>1
      <4> QED BY <4>1 DEF ListedIn
    <3> QED BY <3>1, <3>2, <3>3, <2>2
  <2> QED BY <2>1, <2>2
<1> QED BY <1>1, <1>2, <1>3 DEF new
-----------------------------------------------------------------------------
(* The inductive invariant, one action at a time *)

\* A machine without a LamBoot entry.
LEMMA InvInit == InstallInit => InstallInv
<1> SUFFICES ASSUME InstallInit PROVE InstallInv
  OBVIOUS
<1> USE SlotFacts
<1>1. bootOrder \in Seq(Slots) /\ \A k \in 1 .. Len(bootOrder) : bootOrder[k] \in Used
  <2>1. PICK k \in 0 .. SlotMax + 1 : bootOrder \in [1 .. k -> Used]
    BY DEF InstallInit
  <2>2. Used \subseteq Slots /\ k \in Nat
    BY SelfInstallAssumption DEF Used
  <2>3. bootOrder \in Seq(Used) /\ Len(bootOrder) = k
    BY <2>1, <2>2
  <2>4. \A i \in 1 .. Len(bootOrder) : bootOrder[i] \in Used
    BY <2>3
  <2>5. bootOrder \in [1 .. k -> Slots]
    BY <2>1, <2>2, Zenon
  <2>6. bootOrder \in Seq(Slots)
    BY <2>2, <2>5
  <2> QED BY <2>4, <2>6
<1>2. Unrepeated(bootOrder)
  BY <1>1 DEF InstallInit, IsInjective, Unrepeated
<1>3. InstallTypeOK
  BY <1>1, SelfInstallAssumption DEF InstallInit, InstallTypeOK, Slots
<1>4. \A n \in Slots : bootVar[n] # Mine
  BY DEF InstallInit
<1>5. \A n \in Slots : Listed(n) => bootVar[n] # NoEntry
  BY <1>1 DEF Listed, ListedIn, Used
<1> QED BY <1>2, <1>3, <1>4, <1>5 DEF InstallInit, InstallInv, NeverDuplicated

\* Switching on changes no variable of the firmware.
LEMMA InvPowerOn == InstallInv /\ InstallPowerOn => InstallInv'
  BY DEF InstallInv, InstallPowerOn, InstallTypeOK, NeverDuplicated, Listed

\* Giving up before the scan changes no variable.
LEMMA InvPathUnknown == InstallInv /\ PathUnknown => InstallInv'
  BY DEF InstallInv, PathUnknown, Fault, InstallTypeOK, NeverDuplicated, Listed

\* What a scan finds.
LEMMA ScanFinds ==
  ASSUME InstallInv, NEW unread, Scan(unread)
  PROVE  /\ ipc' \in {"done", "write"} /\ slot' \in Slots
         /\ installed' \in {installed, "AlreadyPresent", "Failed"}
         /\ ipc' = "done" => installed' # "Created"
         /\ ipc' = "write" => slot' \in Scanned
         /\ ipc' = "write" /\ unread = {} => /\ bootVar[slot'] = NoEntry
                                             /\ \A n \in Slots : bootVar[n] # Mine
  BY SlotFacts DEF InstallInv, InstallTypeOK, Scan, FirstFree

\* A scan without read errors finds the slot free and no entry of its own.
LEMMA InvScanAll == InstallInv /\ ScanAll => InstallInv'
<1> SUFFICES ASSUME InstallInv, ScanAll PROVE InstallInv'
  OBVIOUS
<1>1. Scan({})
  BY DEF ScanAll
<1> QED BY ScanFinds, <1>1 DEF InstallInv, ScanAll, InstallTypeOK, NeverDuplicated, Listed

\* After a read error nothing is promised of the slot.
LEMMA InvScanMisreads == InstallInv /\ ScanMisreads => InstallInv'
<1> SUFFICES ASSUME InstallInv, ScanMisreads PROVE InstallInv'
  OBVIOUS
<1>1. PICK n \in Used \cap Scanned : Scan({n})
  BY DEF ScanMisreads
<1>2. /\ ipc' \in {"done", "write"} /\ slot' \in Slots
      /\ installed' \in {installed, "AlreadyPresent", "Failed"}
      /\ ipc' = "done" => installed' # "Created"
      /\ ipc' = "write" => slot' \in Scanned
  BY ScanFinds, <1>1
<1>3. /\ misread' = TRUE /\ faults' = faults + 1 /\ ipc = "check"
      /\ UNCHANGED <<bootVar, bootOrder, wanted, cut, edits>>
  BY DEF ScanMisreads, Fault
<1>4. InstallTypeOK'
  BY <1>2, <1>3 DEF InstallInv, InstallTypeOK
<1>5. NeverDuplicated'
  BY <1>3 DEF NeverDuplicated
<1> QED BY <1>2, <1>3, <1>4, <1>5, Zenon DEF InstallInv, Listed

\* The entry is written where the scan found nothing.
LEMMA InvWriteEntry == InstallInv /\ WriteEntry => InstallInv'
  BY SlotFacts DEF InstallInv, WriteEntry, InstallTypeOK, NeverDuplicated, Listed

\* A refused write changes no variable.
LEMMA InvEntryRefused == InstallInv /\ EntryRefused => InstallInv'
  BY DEF InstallInv, EntryRefused, Fault, InstallTypeOK, NeverDuplicated, Listed

\* The entry, not in BootOrder before, is now in front.
LEMMA InvWriteOrder == InstallInv /\ WriteOrder => InstallInv'
<1> SUFFICES ASSUME InstallInv, WriteOrder PROVE InstallInv'
  OBVIOUS
<1>1. bootOrder \in Seq(Slots) /\ slot \in Slots
  BY DEF InstallInv, InstallTypeOK
<1> QED BY FrontFacts, <1>1, SlotFacts DEF InstallInv, WriteOrder, InstallTypeOK,
          NeverDuplicated, Listed

\* BootOrder is written anew, with an entry that exists.
LEMMA InvOrderMisread == InstallInv /\ OrderMisread => InstallInv'
<1> SUFFICES ASSUME InstallInv, OrderMisread PROVE InstallInv'
  OBVIOUS
<1>1. <<>> \in Seq(Slots) /\ slot \in Slots /\ Unrepeated(<<>>) /\ \A m : ~ListedIn(<<>>, m)
  BY DEF InstallInv, InstallTypeOK, Unrepeated, ListedIn
<1>2. /\ bootOrder' \in Seq(Slots) /\ Unrepeated(bootOrder')
      /\ \A m : ListedIn(bootOrder', m) <=> m = slot
  BY FrontFacts, <1>1, Zenon DEF OrderMisread
<1> QED BY <1>2, SlotFacts DEF InstallInv, OrderMisread, Fault, InstallTypeOK,
          NeverDuplicated, Listed

\* The entry stays out of BootOrder, and cut says so.
LEMMA InvOrderRefused == InstallInv /\ OrderRefused => InstallInv'
  BY DEF InstallInv, OrderRefused, Fault, InstallTypeOK, NeverDuplicated, Listed

\* The end of a boot.
LEMMA InvPowerOff == InstallInv /\ PowerOff => InstallInv'
  BY SMTT(30) DEF InstallInv, PowerOff, InstallTypeOK, NeverDuplicated, Listed

\* Power lost between the two writes is recorded in cut.
LEMMA InvPowerLoss == InstallInv /\ InstallPowerLoss => InstallInv'
<1> SUFFICES ASSUME InstallInv, InstallPowerLoss PROVE InstallInv'
  OBVIOUS
<1>1. cut' \in BOOLEAN /\ (cut => cut') /\ (ipc = "order" => cut')
  BY Zenon DEF InstallPowerLoss
<1> QED
  BY <1>1, SMTT(30) DEF InstallInv, InstallPowerLoss, Fault, InstallTypeOK, NeverDuplicated, Listed

\* Another system adds its entry, in front.
LEMMA InvOsAdds ==
  ASSUME InstallInv, NEW n \in Slots, NEW d \in Others, OsAdds(d, n)
  PROVE  InstallInv'
<1>1. bootOrder \in Seq(Slots)
  BY DEF InstallInv, InstallTypeOK
<1> QED BY FrontFacts, <1>1, SlotFacts, SMTT(30) DEF InstallInv, OsAdds, Edit, InstallTypeOK,
          NeverDuplicated, Listed

\* An entry is removed, from BootOrder too.
LEMMA InvOsRemoves ==
  ASSUME InstallInv, NEW n \in Slots, OsRemoves(n)
  PROVE  InstallInv'
<1>1. bootOrder \in Seq(Slots) /\ Unrepeated(bootOrder)
  BY DEF InstallInv, InstallTypeOK
<1>2. /\ bootOrder' \in Seq(Slots) /\ Unrepeated(bootOrder')
      /\ \A m : ListedIn(bootOrder', m) <=> ListedIn(bootOrder, m) /\ m # n
  <2>1. CASE n \in Range(bootOrder)
    <3>1. PICK k \in 1 .. Len(bootOrder) :
            bootOrder[k] = n /\ bootOrder' = WithoutAt(bootOrder, k)
      BY <2>1, <1>1 DEF OsRemoves
    <3> QED BY <3>1, <1>1, WithoutFacts
  <2>2. CASE n \notin Range(bootOrder)
    BY <2>2, <1>1 DEF OsRemoves, Range, ListedIn
  <2> QED BY <2>1, <2>2
<1> QED BY <1>2, SlotFacts, SMTT(60) DEF InstallInv, OsRemoves, Edit, InstallTypeOK,
          NeverDuplicated, Listed

\* The policy is not part of the invariant.
LEMMA InvOsEditsPolicy == InstallInv /\ OsEditsPolicy => InstallInv'
  BY DEF InstallInv, OsEditsPolicy, Edit, InstallTypeOK, NeverDuplicated, Listed

\* Every step keeps the invariant.
LEMMA InvStep == InstallInv /\ [InstallNext]_installVars => InstallInv'
<1> SUFFICES ASSUME InstallInv, [InstallNext]_installVars PROVE InstallInv'
  OBVIOUS
<1>1. CASE BootSteps
  BY <1>1, InvPowerOn, InvPathUnknown, InvScanAll, InvScanMisreads, InvWriteEntry,
     InvEntryRefused, InvWriteOrder, InvOrderMisread, InvOrderRefused, InvPowerOff DEF BootSteps
<1>2. CASE InstallPowerLoss
  BY <1>2, InvPowerLoss
<1>3. CASE OsSteps
  BY <1>3, InvOsAdds, InvOsRemoves, InvOsEditsPolicy DEF OsSteps
<1>4. CASE UNCHANGED installVars
  BY <1>4, SMTT(30) DEF installVars, InstallInv, InstallTypeOK, NeverDuplicated, Listed
<1> QED BY <1>1, <1>2, <1>3, <1>4 DEF InstallNext

\* The invariant holds in every reachable state.
LEMMA InvHolds == InstallSpec => []InstallInv
  BY InvInit, InvStep, PTL DEF InstallSpec
-----------------------------------------------------------------------------
(* The theorems *)

\* However many boots, power losses and edits there are, ensure_named_boot_entry
\* leaves LamBoot in one Boot#### at most, if no read of an existing variable
\* ever failed: between the scan and the write nothing else changes a slot.
THEOREM NeverDuplicatedHolds == InstallSpec => []NeverDuplicated
<1>1. InstallInv => NeverDuplicated
  BY DEF InstallInv
<1> QED BY <1>1, InvHolds, PTL

\* BootOrder never names a slot without an entry: Boot#### is written before
\* BootOrder, and only when that write succeeded.
THEOREM NoDanglingOrderHolds == InstallSpec => []NoDanglingOrder
<1>1. InstallInv => NoDanglingOrder
  BY DEF InstallInv, InstallTypeOK, NoDanglingOrder, Listed, ListedIn
<1> QED BY <1>1, InvHolds, PTL

\* A LamBoot entry that BootOrder lacks is what a power loss or a refused
\* write between the two set_variable calls left.
THEOREM OrphanOnlyIfCutHolds == InstallSpec => []OrphanOnlyIfCut
<1>1. InstallInv => OrphanOnlyIfCut
  <2> SUFFICES ASSUME InstallInv, NEW n \in Slots, bootVar[n] = Mine,
                      n \notin Range(bootOrder), ipc # "order"
               PROVE  cut \/ misread
    BY DEF OrphanOnlyIfCut
  <2>1. ~Listed(n)
    BY DEF InstallInv, InstallTypeOK, Listed, ListedIn, Range
  <2> QED BY <2>1 DEF InstallInv
<1> QED BY <1>1, InvHolds, PTL

\* SelfInstall::Created means that the new entry is first in BootOrder, unless
\* the write of BootOrder was refused or a variable was misread.
THEOREM CreatedIsFirstHolds == InstallSpec => []CreatedIsFirst
<1>1. InstallInv => CreatedIsFirst
  BY DEF InstallInv, InstallTypeOK, CreatedIsFirst
<1> QED BY <1>1, InvHolds, PTL

\* What one step of a boot may change of the two variables.
LEMMA BootStepTouches ==
  ASSUME InstallInv, BootSteps \/ InstallPowerLoss, ~misread'
  PROVE  /\ \A n \in Slots : bootVar[n] # NoEntry => bootVar'[n] = bootVar[n]
         /\ bootOrder' \in {bootOrder, <<slot>> \o bootOrder}
<1>1. CASE WriteEntry
  BY <1>1 DEF WriteEntry, InstallInv, InstallTypeOK
<1>2. CASE WriteOrder
  BY <1>2, FrontFacts DEF WriteOrder, InstallInv, InstallTypeOK
<1>3. CASE OrderMisread \/ ScanMisreads
  BY <1>3 DEF OrderMisread, ScanMisreads
<1>4. CASE ~(WriteEntry \/ WriteOrder \/ OrderMisread \/ ScanMisreads)
  <2>1. UNCHANGED <<bootVar, bootOrder>>
    BY <1>4 DEF BootSteps, InstallPowerOn, PathUnknown, ScanAll, EntryRefused,
                OrderRefused, PowerOff, InstallPowerLoss
  <2> QED BY <2>1
<1> QED BY <1>1, <1>2, <1>3, <1>4

\* A boot leaves the entries of other systems and the rest of BootOrder as they
\* were, unless a read failed.
THEOREM OthersUntouchedHolds == InstallSpec => OthersUntouched
<1>1. InstallInv /\ [InstallNext]_installVars =>
        [BootSteps \/ InstallPowerLoss =>
           misread' \/ /\ \A n \in Slots : bootVar[n] # NoEntry => bootVar'[n] = bootVar[n]
                       /\ bootOrder' \in {bootOrder, <<slot>> \o bootOrder}]_installVars
  BY BootStepTouches
<1> QED BY <1>1, InvHolds, PTL DEF InstallSpec, OthersUntouched
-----------------------------------------------------------------------------
(* TrustLog and BootLogs *)

LineSet == [boot : Nat, seq : Nat, ev : Events]

LogTyped ==
  /\ trust \in [events : Seq(Events), committed : Seq(Events)]
  /\ logFile \in Seq(LineSet)
  /\ bootNo \in Nat

\* The two properties of a file f, when boot b has committed com; and no line
\* is of a boot to come.
Identified(f, com, b) ==
  \A i \in 1 .. Len(f) : f[i].boot = b =>
    f[i].seq < Len(com) /\ f[i].ev = com[f[i].seq + 1]

Ordered(f) ==
  \A i, j \in 1 .. Len(f) : i < j =>
    f[i].boot < f[j].boot \/ (f[i].boot = f[j].boot /\ f[i].seq < f[j].seq)

NoFuture(f, b) == \A i \in 1 .. Len(f) : f[i].boot \leq b

Sound(f, com, b) == Identified(f, com, b) /\ Ordered(f) /\ NoFuture(f, b)

LogInv == LogTyped /\ Sound(logFile, trust.committed, bootNo)

\* What a flush appends, all of it or the part before a failed write: the
\* first k pending events, numbered on from the committed ones.
Numbered(com, pend, b, k) ==
  [i \in 1 .. k |-> [boot |-> b, seq |-> Len(com) + i - 1, ev |-> pend[i]]]

\* g is the list c with e behind it.
OneLonger(g, c, e) ==
  /\ Len(g) = Len(c) + 1
  /\ \A i \in 1 .. Len(c) : g[i] = c[i]
  /\ g[Len(c) + 1] = e

\* Appending an element, in the form the lemmas below use.
LEMMA AppendedOne ==
  ASSUME NEW S, NEW c \in Seq(S), NEW e \in S
  PROVE  OneLonger(Append(c, e), c, e)
BY AppendProperties DEF OneLonger

\* t is the list of k lines of boot b that carry the first events of pend,
\* numbered from c on.
LinesFrom(t, c, pend, b, k) ==
  /\ t \in Seq(LineSet) /\ Len(t) = k
  /\ \A j \in 1 .. k : t[j].boot = b /\ t[j].seq = c + j - 1 /\ t[j].ev = pend[j]

\* The lines a flush of k events appends: k of them, of this boot, with the
\* sequence numbers that follow the committed ones.
LEMMA NumberedLines ==
  ASSUME NEW com \in Seq(Events), NEW pend \in Seq(Events), NEW b \in Nat,
         NEW k \in 0 .. Len(pend)
  PROVE  LinesFrom(Numbered(com, pend, b, k), Len(com), pend, b, k)
<1>1. k \in Nat /\ Len(com) \in Nat
  OBVIOUS
<1>2. \A i \in 1 .. k : pend[i] \in Events /\ Len(com) + i - 1 \in Nat
  BY <1>1
<1>3. \A i \in 1 .. k :
        [boot |-> b, seq |-> Len(com) + i - 1, ev |-> pend[i]] \in LineSet
  BY <1>2 DEF LineSet
<1> QED
  BY <1>1, <1>3 DEF Numbered, LinesFrom

\* The first k lines of serialize_pending are those lines.
LEMMA PrefixNumbered ==
  ASSUME LogTyped, NEW k \in 0 .. Len(trust.events)
  PROVE  SubSeq(SerializePending(trust), 1, k)
           = Numbered(trust.committed, trust.events, bootNo, k)
<1>1. Len(trust.events) \in Nat
  BY DEF LogTyped
<1>2. PICK p : p = SerializePending(trust)
  OBVIOUS
<1>3. p = Numbered(trust.committed, trust.events, bootNo, Len(trust.events))
  BY <1>2 DEF SerializePending, Numbered
<1>4. p \in Seq(LineSet) /\ Len(p) = Len(trust.events)
  <2>1. trust.committed \in Seq(Events) /\ trust.events \in Seq(Events) /\ bootNo \in Nat
    BY DEF LogTyped
  <2>2. Len(trust.events) \in 0 .. Len(trust.events)
    BY <1>1
  <2>3. LinesFrom(Numbered(trust.committed, trust.events, bootNo, Len(trust.events)),
                  Len(trust.committed), trust.events, bootNo, Len(trust.events))
    BY <2>1, <2>2, NumberedLines, Zenon
  <2> QED
    BY <1>3, <2>3, Zenon DEF LinesFrom
<1>5. SubSeq(p, 1, k) = [i \in 1 .. k |-> p[i]]
  BY <1>1, <1>4
<1>6. \A i \in 1 .. k : p[i] =
        [boot |-> bootNo, seq |-> Len(trust.committed) + i - 1, ev |-> trust.events[i]]
  BY <1>1, <1>3 DEF Numbered
<1> QED
  BY <1>2, <1>5, <1>6 DEF Numbered

\* The argument, on the lines alone: g has the n lines of f and then k lines of
\* boot b, numbered from c; d has the c events of com and then those of pend.
Extends(g, f, n) == \A i \in 1 .. n : g[i] = f[i]

NumberedFrom(g, n, k, c, b, pend) ==
  \A j \in 1 .. k : g[n + j].boot = b /\ g[n + j].seq = c + j - 1 /\ g[n + j].ev = pend[j]

OldIdentified(f, n, com, c, b) ==
  \A i \in 1 .. n : f[i].boot = b =>
    f[i].seq \in Nat /\ f[i].seq < c /\ f[i].ev = com[f[i].seq + 1]

OldOrdered(f, n, b) ==
  /\ \A i \in 1 .. n : f[i].boot \in Nat /\ f[i].boot \leq b
  /\ \A i, j \in 1 .. n : i < j =>
       f[i].boot < f[j].boot \/ (f[i].boot = f[j].boot /\ f[i].seq < f[j].seq)

Extension(g, f, n, k, d, com, c, pend, m, b) ==
  /\ n \in Nat /\ k \in Nat /\ c \in Nat /\ m \in Nat /\ b \in Nat /\ k <= m
  /\ Extends(g, f, n) /\ NumberedFrom(g, n, k, c, b, pend)
  /\ Extends(d, com, c) /\ \A j \in 1 .. m : d[c + j] = pend[j]
  /\ OldIdentified(f, n, com, c, b) /\ OldOrdered(f, n, b)

\* Of the first l lines of g, those of boot b have numbers below top and the
\* events of d that go with them.
NowIdentified(g, l, d, b, top) ==
  \A i \in 1 .. l : g[i].boot = b => g[i].seq < top /\ g[i].ev = d[g[i].seq + 1]

\* A line is an old one or the j-th new one.
LEMMA OldOrNew ==
  ASSUME NEW n \in Nat, NEW k \in Nat, NEW i \in 1 .. n + k, i \notin 1 .. n
  PROVE  \E j \in 1 .. k : i = n + j
<1>1. i - n \in 1 .. k /\ i = n + (i - n)
  OBVIOUS
<1> QED
  BY <1>1

\* Each line of boot b in g, old or new, has the number of its event in d.
LEMMA IdentifiedExtension ==
  ASSUME NEW g, NEW f, NEW n, NEW k, NEW d, NEW com, NEW c, NEW pend, NEW m, NEW b,
         Extension(g, f, n, k, d, com, c, pend, m, b)
  PROVE  NowIdentified(g, n + k, d, b, c + m)
<1>0. n \in Nat /\ k \in Nat /\ c \in Nat /\ m \in Nat /\ k <= m
  BY Zenon DEF Extension
<1> SUFFICES ASSUME NEW i \in 1 .. n + k, g[i].boot = b
             PROVE  g[i].seq < c + m /\ g[i].ev = d[g[i].seq + 1]
  BY Zenon DEF NowIdentified
<1>1. CASE i \in 1 .. n
  <2>1. g[i] = f[i]
    BY <1>1 DEF Extension, Extends
  <2>2. PICK q \in Nat : q = f[i].seq
    BY <1>1, <2>1 DEF Extension, OldIdentified
  <2>3. q < c /\ f[i].ev = com[q + 1]
    BY <1>1, <2>1, <2>2, Zenon DEF Extension, OldIdentified
  <2>4. q + 1 \in 1 .. c /\ q < c + m
    BY <1>0, <2>3
  <2>5. d[q + 1] = com[q + 1]
    BY <2>4 DEF Extension, Extends
  <2> QED
    BY <2>1, <2>2, <2>3, <2>4, <2>5
<1>2. CASE i \notin 1 .. n
  <2>1. PICK j \in 1 .. k : i = n + j
    BY <1>2, <1>0, OldOrNew
  <2>2. g[i].seq = c + j - 1 /\ g[i].ev = pend[j]
    BY <2>1 DEF Extension, NumberedFrom
  <2>3. j \in 1 .. m /\ c + j - 1 < c + m /\ (c + j - 1) + 1 = c + j
    BY <1>0
  <2>4. d[c + j] = pend[j]
    BY <2>3, Zenon DEF Extension
  <2> QED
    BY <2>2, <2>3, <2>4
<1> QED
  BY <1>1, <1>2

\* The new lines come after the old ones, and each after the one before it.
LEMMA OrderedExtension ==
  ASSUME NEW g, NEW f, NEW n, NEW k, NEW d, NEW com, NEW c, NEW pend, NEW m, NEW b,
         Extension(g, f, n, k, d, com, c, pend, m, b)
  PROVE  \A i, j \in 1 .. n + k : i < j =>
           g[i].boot < g[j].boot \/ (g[i].boot = g[j].boot /\ g[i].seq < g[j].seq)
<1>0. n \in Nat /\ k \in Nat /\ c \in Nat /\ b \in Nat
  BY Zenon DEF Extension
<1> SUFFICES ASSUME NEW i \in 1 .. n + k, NEW j \in 1 .. n + k, i < j
             PROVE  \/ g[i].boot < g[j].boot
                    \/ g[i].boot = g[j].boot /\ g[i].seq < g[j].seq
  BY Zenon
<1>1. CASE j \in 1 .. n
  <2>1. i \in 1 .. n
    BY <1>1, <1>0
  <2>2. g[i] = f[i] /\ g[j] = f[j]
    BY <1>1, <2>1, Zenon DEF Extension, Extends
  <2> QED
    <3>1. f[i].boot < f[j].boot \/ (f[i].boot = f[j].boot /\ f[i].seq < f[j].seq)
      BY <1>1, <2>1, Zenon DEF Extension, OldOrdered
    <3> QED
      BY <2>2, <3>1, Zenon
<1>2. CASE j \notin 1 .. n
  <2>1. PICK y \in 1 .. k : j = n + y
    BY <1>2, <1>0, OldOrNew
  <2>2. g[j].boot = b /\ g[j].seq = c + y - 1
    BY <2>1, Zenon DEF Extension, NumberedFrom
  <2>3. CASE i \in 1 .. n
    <3>1. g[i] = f[i]
      BY <2>3, Zenon DEF Extension, Extends
    <3>2. CASE f[i].boot = b
      <4>1. PICK q \in Nat : q = f[i].seq
        BY <2>3, <3>2, Zenon DEF Extension, OldIdentified
      <4>2. q < c
        BY <2>3, <3>2, <4>1, Zenon DEF Extension, OldIdentified
      <4>3. q < c + y - 1
        BY <1>0, <4>2
      <4> QED
        BY <2>2, <3>1, <3>2, <4>1, <4>3, Zenon
    <3>3. CASE f[i].boot # b
      <4>1. PICK q \in Nat : q = f[i].boot
        BY <2>3, Zenon DEF Extension, OldOrdered
      <4>2. q < b
        <5>1. q \leq b /\ q # b
          BY <2>3, <3>3, <4>1, Zenon DEF Extension, OldOrdered
        <5> QED
          BY <1>0, <4>1, <5>1
      <4> QED
        BY <2>2, <3>1, <4>1, <4>2, Zenon
    <3> QED
      BY <3>2, <3>3, Zenon
  <2>4. CASE i \notin 1 .. n
    <3>1. PICK x \in 1 .. k : i = n + x
      BY <2>4, <1>0, OldOrNew
    <3>2. g[i].boot = b /\ g[i].seq = c + x - 1
      BY <3>1, Zenon DEF Extension, NumberedFrom
    <3>3. c + x - 1 < c + y - 1
      BY <1>0, <2>1, <3>1
    <3> QED
      BY <2>2, <3>2, <3>3, Zenon
  <2> QED
    BY <2>3, <2>4, Zenon
<1> QED
  BY <1>1, <1>2, Zenon

\* The elements of a concatenation, in the form the extension lemmas use.
LEMMA Concatenation ==
  ASSUME NEW S, NEW u \in Seq(S), NEW v \in Seq(S)
  PROVE  /\ Len(u \o v) = Len(u) + Len(v)
         /\ Extends(u \o v, u, Len(u))
         /\ \A j \in 1 .. Len(v) : (u \o v)[Len(u) + j] = v[j]
<1>1. /\ Len(u \o v) = Len(u) + Len(v)
      /\ \A i \in 1 .. Len(u) + Len(v) :
           (u \o v)[i] = IF i <= Len(u) THEN u[i] ELSE v[i - Len(u)]
  BY ConcatProperties
<1>2. Len(u) \in Nat /\ Len(v) \in Nat
  OBVIOUS
<1>3. Extends(u \o v, u, Len(u))
  BY <1>1, <1>2 DEF Extends
<1>4. ASSUME NEW j \in 1 .. Len(v) PROVE (u \o v)[Len(u) + j] = v[j]
  <2>1. /\ Len(u) + j \in 1 .. Len(u) + Len(v)
        /\ ~(Len(u) + j <= Len(u)) /\ (Len(u) + j) - Len(u) = j
    BY <1>2
  <2> QED
    BY <1>1, <2>1
<1> QED
  BY <1>1, <1>3, <1>4, Zenon

\* Appending k numbered lines to the file keeps the three facts.
LEMMA AppendSound ==
  ASSUME NEW com \in Seq(Events), NEW pend \in Seq(Events), NEW b \in Nat,
         NEW k \in 0 .. Len(pend), NEW f \in Seq(LineSet), Sound(f, com, b)
  PROVE  Sound(f \o Numbered(com, pend, b, k), com \o pend, b)
<1> DEFINE t == Numbered(com, pend, b, k)
           g == f \o t
           d == com \o pend
           n == Len(f)
           c == Len(com)
           m == Len(pend)
<1>1. n \in Nat /\ c \in Nat /\ m \in Nat /\ k \in Nat /\ k <= m
  OBVIOUS
<1>2. /\ t \in Seq(LineSet) /\ Len(t) = k
      /\ \A j \in 1 .. k : t[j].boot = b /\ t[j].seq = c + j - 1 /\ t[j].ev = pend[j]
  <2>1. LinesFrom(Numbered(com, pend, b, k), Len(com), pend, b, k)
    BY NumberedLines, Zenon
  <2> QED
    BY <2>1, Zenon DEF LinesFrom
<1> HIDE DEF t
<1>3. Len(g) = n + k /\ Extends(g, f, n) /\ \A j \in 1 .. k : g[n + j] = t[j]
  <2>1. f \in Seq(LineSet) /\ t \in Seq(LineSet)
    BY <1>2
  <2>2. /\ Len(f \o t) = Len(f) + Len(t)
        /\ Extends(f \o t, f, Len(f))
        /\ \A j \in 1 .. Len(t) : (f \o t)[Len(f) + j] = t[j]
    BY <2>1, Concatenation, ZenonT(30)
  <2> QED
    BY <1>2, <2>2, Zenon
<1>4. Len(d) = c + m /\ Extends(d, com, c) /\ \A j \in 1 .. m : d[c + j] = pend[j]
  BY Concatenation, Zenon
<1>5. NumberedFrom(g, n, k, c, b, pend)
  BY <1>2, <1>3, ZenonT(30) DEF NumberedFrom
<1>6. \A i \in 1 .. n :
        /\ f[i].boot \in Nat /\ f[i].seq \in Nat /\ f[i].boot \leq b
        /\ f[i].boot = b => f[i].seq < c /\ f[i].ev = com[f[i].seq + 1]
  <2>1. \A i \in 1 .. n : f[i] \in LineSet
    OBVIOUS
  <2> QED
    BY <2>1, Zenon DEF LineSet, Sound, NoFuture, Identified
<1>7. \A i, j \in 1 .. n : i < j =>
        f[i].boot < f[j].boot \/ (f[i].boot = f[j].boot /\ f[i].seq < f[j].seq)
  BY Zenon DEF Sound, Ordered
<1> HIDE DEF g, d, n, c, m
<1>8. NoFuture(g, b)
  <2> SUFFICES ASSUME NEW i \in 1 .. n + k PROVE g[i].boot \leq b
    BY <1>3, Zenon DEF NoFuture
  <2>1. CASE i \in 1 .. n
    BY <1>3, <1>6, <2>1, Zenon DEF Extends
  <2>2. CASE i \notin 1 .. n
    <3>1. PICK j \in 1 .. k : i = n + j
      BY <1>1, <2>2, OldOrNew
    <3>2. g[i].boot = b
      BY <1>5, <3>1, Zenon DEF NumberedFrom
    <3> QED
      BY <3>2
  <2> QED
    BY <2>1, <2>2, Zenon
<1>9. Extension(g, f, n, k, d, com, c, pend, m, b)
  BY <1>1, <1>3, <1>4, <1>5, <1>6, <1>7, Zenon DEF Extension, OldIdentified, OldOrdered
<1>10. Identified(g, d, b) /\ Ordered(g)
  <2>1. NowIdentified(g, n + k, d, b, c + m)
    BY <1>9, IdentifiedExtension
  <2>2. \A i, j \in 1 .. n + k : i < j =>
          g[i].boot < g[j].boot \/ (g[i].boot = g[j].boot /\ g[i].seq < g[j].seq)
    BY <1>9, OrderedExtension, Zenon
  <2> QED
    BY <1>3, <1>4, <2>1, <2>2, Zenon DEF Identified, NowIdentified, Ordered
<1>11. Sound(g, d, b)
  BY <1>8, <1>10 DEF Sound
<1> QED
  BY <1>11 DEF g, d, t
-----------------------------------------------------------------------------
\* The invariant holds of the empty log and the empty file.
LEMMA LogInvInit == LogInit => LogInv
<1> SUFFICES ASSUME LogInit PROVE LogInv
  OBVIOUS
<1>1. LogTyped
  BY DEF LogInit, EmptyLog, LogTyped
<1>2. Len(logFile) = 0
  BY DEF LogInit
<1> QED
  BY <1>1, <1>2 DEF LogInv, Sound, Identified, Ordered, NoFuture

\* A flush, whether it writes everything, a part or nothing.
LEMMA FlushSound ==
  ASSUME LogInv, NEW k \in 0 .. Len(trust.events),
         trust' = Drained(trust), bootNo' = bootNo,
         logFile' = logFile \o SubSeq(SerializePending(trust), 1, k)
  PROVE  LogInv'
<1>1. /\ trust.committed \in Seq(Events) /\ trust.events \in Seq(Events)
      /\ logFile \in Seq(LineSet) /\ bootNo \in Nat
  BY DEF LogInv, LogTyped
<1>2. logFile' = logFile \o Numbered(trust.committed, trust.events, bootNo, k)
  BY PrefixNumbered, Zenon DEF LogInv
<1>3. trust'.committed = trust.committed \o trust.events
  BY Zenon DEF Drained
<1>4. Sound(logFile', trust'.committed, bootNo')
  BY <1>1, <1>2, <1>3, AppendSound, Zenon DEF LogInv
<1>5. logFile' \in Seq(LineSet)
  <2>1. Numbered(trust.committed, trust.events, bootNo, k) \in Seq(LineSet)
    BY <1>1, NumberedLines, Zenon DEF LinesFrom
  <2> QED
    BY <1>1, <1>2, <2>1, ConcatProperties, Zenon
<1>6. trust.committed \o trust.events \in Seq(Events) /\ <<>> \in Seq(Events)
  <2>1. trust.committed \o trust.events \in Seq(Events)
    BY <1>1, ConcatProperties, Zenon
  <2> QED
    BY <2>1
<1>7. trust' \in [events : Seq(Events), committed : Seq(Events)]
  <2>1. PICK d \in Seq(Events) : d = trust.committed \o trust.events
    BY <1>6, Zenon
  <2>2. trust' = [events |-> <<>>, committed |-> d]
    BY <2>1, Zenon DEF Drained
  <2> QED
    BY <1>6, <2>2
<1> QED
  BY <1>1, <1>4, <1>5, <1>7, Zenon DEF LogInv, LogTyped

\* Recording, flushing and rebooting keep the invariant.
LEMMA LogInvStep == LogInv /\ [LogNext]_logVars => LogInv'
<1> SUFFICES ASSUME LogInv, [LogNext]_logVars PROVE LogInv'
  OBVIOUS
<1>1. ASSUME NEW ev \in Events, Record(ev) PROVE LogInv'
  <2>1. trust' = [trust EXCEPT !.events = @ \o <<ev>>] /\ UNCHANGED <<logFile, bootNo>>
    BY <1>1 DEF Record, Recorded
  <2>2. trust.events \o <<ev>> \in Seq(Events)
    BY <1>1 DEF LogInv, LogTyped
  <2>3. trust' \in [events : Seq(Events), committed : Seq(Events)]
        /\ trust'.committed = trust.committed
    BY <2>1, <2>2, Zenon DEF LogInv, LogTyped
  <2> QED
    BY <2>1, <2>3 DEF LogInv, LogTyped
<1>2. CASE FlushLog
  <2>1. trust' = Drained(trust) /\ bootNo' = bootNo
    BY <1>2, Zenon DEF FlushLog, Flush
  <2>2. Len(trust.events) \in Nat /\ logFile \in Seq(LineSet)
    BY DEF LogInv, LogTyped
  <2>3. SubSeq(SerializePending(trust), 1, Len(trust.events)) = SerializePending(trust)
    <3>1. SerializePending(trust)
            = Numbered(trust.committed, trust.events, bootNo, Len(trust.events))
      BY Zenon DEF SerializePending, Numbered
    <3> QED
      BY <2>2, <3>1, PrefixNumbered DEF LogInv
  <2>4. logFile = logFile \o SubSeq(SerializePending(trust), 1, 0)
    BY <2>2, SubSeqEmpty, ConcatEmptySeq
  <2>5. \E k \in 0 .. Len(trust.events) :
          logFile' = logFile \o SubSeq(SerializePending(trust), 1, k)
    <3>1. 0 \in 0 .. Len(trust.events) /\ Len(trust.events) \in 0 .. Len(trust.events)
      BY <2>2
    <3>2. \/ logFile' = logFile \o SerializePending(trust)
          \/ logFile' = logFile
          \/ \E k \in 0 .. Len(trust.events) :
               logFile' = logFile \o SubSeq(SerializePending(trust), 1, k)
      BY <1>2, Zenon DEF FlushLog, Flush
    <3> QED
      BY <2>3, <2>4, <3>1, <3>2, Zenon
  <2> QED
    BY <2>1, <2>5, FlushSound
<1>3. CASE Reboot
  <2>1. /\ trust'.committed = <<>> /\ bootNo' = bootNo + 1 /\ logFile' = logFile
        /\ trust' \in [events : Seq(Events), committed : Seq(Events)]
    BY <1>3 DEF Reboot, EmptyLog
  <2>2. \A i \in 1 .. Len(logFile) :
          logFile[i].boot \in Nat /\ logFile[i].boot \leq bootNo /\ bootNo \in Nat
    <3>1. \A i \in 1 .. Len(logFile) : logFile[i] \in LineSet
      BY DEF LogInv, LogTyped
    <3> QED
      BY <3>1, Zenon DEF LogInv, LogTyped, LineSet, Sound, NoFuture
  <2>3. \A i \in 1 .. Len(logFile) :
          logFile[i].boot # bootNo + 1 /\ logFile[i].boot \leq bootNo + 1
    BY <2>2
  <2>4. Sound(logFile', trust'.committed, bootNo')
    BY <2>1, <2>3 DEF LogInv, Sound, Identified, Ordered, NoFuture
  <2> QED
    BY <2>1, <2>4 DEF LogInv, LogTyped
<1>4. CASE UNCHANGED logVars
  BY <1>4, Zenon DEF logVars, LogInv, LogTyped
<1> QED
  BY <1>1, <1>2, <1>3, <1>4 DEF LogNext

\* However many boots append to the file and whatever flushes fail, in part or
\* entirely: within a boot a line's number is the position of its event among
\* the recorded ones, so every lost event leaves a gap in the numbers.
THEOREM SeqIdentifiesEventHolds == LogSpec => []SeqIdentifiesEvent
<1>1. LogInv => SeqIdentifiesEvent
  BY Zenon DEF LogInv, Sound, Identified, SeqIdentifiesEvent
<1> QED
  BY <1>1, LogInvInit, LogInvStep, PTL DEF LogSpec

\* The lines stay sorted by boot and number, and none occurs twice.
THEOREM LinesInOrderHolds == LogSpec => []LinesInOrder
<1>1. LogInv => LinesInOrder
  BY Zenon DEF LogInv, Sound, Ordered, LinesInOrder
<1> QED
  BY <1>1, LogInvInit, LogInvStep, PTL DEF LogSpec
-----------------------------------------------------------------------------
(* boot.log and the breadcrumbs *)

Lines == [boot : Nat, n : Nat, size : Nat]

LogsTyped ==
  /\ bphase \in {"off", "new", "init", "menu", "attempt", "started"}
  /\ blog \in [buffer : Seq(Lines), through : BOOLEAN, written : Nat]
  /\ blogFile \in Seq(Lines) /\ crumbs \in Seq(Lines) /\ auditFile \in Seq(Lines)
  /\ said \in Nat /\ powerOns \in Nat /\ wfaults \in Nat /\ coalesce \in BOOLEAN

\* The lines of a file in the order in which they were logged, each once.
LinesSorted(f) ==
  \A i, j \in 1 .. Len(f) : i < j =>
    \/ f[i].boot < f[j].boot
    \/ f[i].boot = f[j].boot /\ f[i].n < f[j].n

\* The buffer of boot b: its lines from the first on, numbered from 0.
Counted(s, b) == \A i \in 1 .. Len(s) : s[i].boot = b /\ s[i].n = i - 1

\* No line of a file is of a boot after b, and those of b have numbers below n.
Below(f, b, n) ==
  \A i \in 1 .. Len(f) : f[i].boot \leq b /\ (f[i].boot = b => f[i].n < n)

\* All lines of a file are of boot b.
OfBoot(f, b) == \A i \in 1 .. Len(f) : f[i].boot = b

\* boot.log, when the lines buffered in boot b are s.
LogFileSound(f, s, b) == LinesSorted(f) /\ Below(f, b, Len(s))

\* The waiting breadcrumbs c of boot b, which has left n so far.
CrumbsWait(c, b, n) ==
  /\ LinesSorted(c) /\ OfBoot(c, b)
  /\ \A i \in 1 .. Len(c) : c[i].n \in 1 .. n

\* audit.log f beside them: every line of boot b was left before those that wait.
AuditSound(f, c, b, n) ==
  /\ LinesSorted(f) /\ Below(f, b, n + 1)
  /\ \A i \in 1 .. Len(f), j \in 1 .. Len(c) : f[i].boot = b => f[i].n < c[j].n

InFile(f, b, n) == \E i \in 1 .. Len(f) : f[i].boot = b /\ f[i].n = n

\* No breadcrumb is lost: it was dropped, it waits, or it is in the file.
Accounted(f, c, d, b, said_) ==
  \A n \in 1 .. said_ : n \in d \/ InFile(c, b, n) \/ InFile(f, b, n)

LogsInv ==
  /\ LogsTyped
  /\ Counted(blog.buffer, powerOns)
  /\ bphase = "new" => blog.buffer = <<>>
  /\ LogFileSound(blogFile, blog.buffer, powerOns)
  /\ wfaults = 0 /\ bphase \notin {"off", "new"} => OfBoot(blogFile, powerOns)
  /\ CrumbsWait(crumbs, powerOns, said)
  /\ AuditSound(auditFile, crumbs, powerOns, said)
  /\ ~coalesce \/ bphase = "started" => crumbs = <<>>
  /\ wfaults = 0 => Accounted(auditFile, crumbs, dropped, powerOns, said)

\* t is what s begins with.
Begins(t, s) == Len(t) \leq Len(s) /\ \A i \in 1 .. Len(t) : t[i] = s[i]

\* What a write that is cut short leaves begins the sequence it wrote.
LEMMA LeadingBegins ==
  ASSUME NEW s \in Seq(Lines), NEW t \in Leading(s)
  PROVE  t \in Seq(Lines) /\ Begins(t, s)
<1>1. PICK k \in 0 .. Len(s) : t = SubSeq(s, 1, k)
  BY DEF Leading
<1>2. SubSeq(s, 1, k) \in Seq(Lines) /\ Len(SubSeq(s, 1, k)) = k
      /\ \A i \in 1 .. k : SubSeq(s, 1, k)[i] = s[i]
  BY SubSeqProperties
<1>3. Len(s) \in Nat
  BY LenProperties
<1> QED BY <1>1, <1>2, <1>3 DEF Begins

\* What begins a sorted file of the current boot's lines is one.
LEMMA BeginningSound ==
  ASSUME NEW s \in Seq(Lines), NEW t \in Seq(Lines), Begins(t, s), NEW b, NEW n
  PROVE  /\ LinesSorted(s) => LinesSorted(t)
         /\ Below(s, b, n) => Below(t, b, n)
         /\ OfBoot(s, b) => OfBoot(t, b)
<1>1. Len(t) \in Nat /\ Len(s) \in Nat
  BY LenProperties
<1>2. \A i \in 1 .. Len(t) : i \in 1 .. Len(s) /\ t[i] = s[i]
  BY <1>1 DEF Begins
<1> QED BY <1>2 DEF LinesSorted, Below, OfBoot

\* The next line of a boot keeps the buffer counted, and the file that gets it
\* sorted; the file that does not get it stays below the longer buffer.
LEMMA NextLine ==
  ASSUME NEW f \in Seq(Lines), NEW s \in Seq(Lines), NEW b \in Nat, NEW line \in Lines,
         Counted(s, b), LogFileSound(f, s, b), line.boot = b, line.n = Len(s)
  PROVE  /\ Counted(Append(s, line), b)
         /\ LogFileSound(f, Append(s, line), b)
         /\ LogFileSound(Append(f, line), Append(s, line), b)
         /\ OfBoot(f, b) => OfBoot(Append(f, line), b)
<1> DEFINE m == Len(f)
           k == Len(s)
<1>1. m \in Nat /\ k \in Nat
  BY LenProperties
<1>2. /\ Len(Append(s, line)) = k + 1
      /\ \A i \in 1 .. k : Append(s, line)[i] = s[i]
      /\ Append(s, line)[k + 1] = line
  BY AppendProperties
<1>3. /\ Len(Append(f, line)) = m + 1
      /\ \A i \in 1 .. m : Append(f, line)[i] = f[i]
      /\ Append(f, line)[m + 1] = line
  BY AppendProperties
<1>4. \A i \in 1 .. m : f[i] \in Lines
  BY ElementOfSeq, Zenon
<1>5. \A i \in 1 .. m : f[i].boot \in Nat /\ f[i].n \in Nat
  BY <1>4, Zenon DEF Lines
<1> HIDE DEF m, k
<1>6. \A i \in 1 .. k + 1 : i \in 1 .. k \/ i = k + 1
  BY <1>1
<1>7. \A i \in 1 .. m + 1 : i \in 1 .. m \/ i = m + 1
  BY <1>1
<1>8. Counted(Append(s, line), b)
  BY <1>1, <1>2, <1>6 DEF Counted, k
<1>9. Below(f, b, k) /\ LinesSorted(f)
  BY Zenon DEF LogFileSound, k
<1>10. Below(f, b, k + 1)
  BY <1>1, <1>5, <1>9 DEF Below, m
<1>11. LogFileSound(f, Append(s, line), b)
  BY <1>2, <1>9, <1>10, Zenon DEF LogFileSound
<1>12. Below(Append(f, line), b, k + 1)
  BY <1>1, <1>3, <1>7, <1>10 DEF Below, m, k
<1>13. LinesSorted(Append(f, line))
  <2> SUFFICES ASSUME NEW i \in 1 .. m + 1, NEW j \in 1 .. m + 1, i < j
               PROVE  LET g == Append(f, line)
                      IN  \/ g[i].boot < g[j].boot
                          \/ g[i].boot = g[j].boot /\ g[i].n < g[j].n
    BY <1>3, Zenon DEF LinesSorted
  <2>1. i \in 1 .. m
    BY <1>1
  <2>2. CASE j \in 1 .. m
    BY <1>3, <1>9, <2>1, <2>2 DEF LinesSorted, m
  <2>3. CASE j = m + 1
    <3>1. f[i].boot \leq b /\ (f[i].boot = b => f[i].n < k)
      BY <1>9, <2>1, Zenon DEF Below, m
    <3> QED BY <1>1, <1>3, <1>5, <2>1, <2>3, <3>1 DEF k
  <2> QED BY <1>7, <2>2, <2>3, Zenon
<1>14. LogFileSound(Append(f, line), Append(s, line), b)
  BY <1>2, <1>12, <1>13, Zenon DEF LogFileSound
<1>15. OfBoot(f, b) => OfBoot(Append(f, line), b)
  BY <1>3, <1>7, Zenon DEF OfBoot, m
<1> QED BY <1>8, <1>11, <1>14, <1>15, Zenon

\* The whole buffer, written as the file, is such a file.
LEMMA BufferSound ==
  ASSUME NEW s \in Seq(Lines), NEW b \in Nat, Counted(s, b)
  PROVE  LogFileSound(s, s, b) /\ OfBoot(s, b)
<1>1. Len(s) \in Nat
  BY LenProperties
<1> QED BY <1>1 DEF Counted, LogFileSound, LinesSorted, Below, OfBoot

\* Whatever a write leaves, of a new file that is sound or of an old one that
\* is, is sound; and a write that succeeds leaves the new file.
LEMMA WrittenSound ==
  ASSUME NEW f \in Seq(Lines), NEW g \in Seq(Lines), NEW s, NEW b, NEW ok \in BOOLEAN,
         LogFileSound(f, s, b), LogFileSound(g, s, b), NEW h \in Written(f, g, ok)
  PROVE  /\ h \in Seq(Lines) /\ LogFileSound(h, s, b)
         /\ ok => h = g
<1>1. CASE h = f \/ h = g
  BY <1>1, Zenon DEF Written
<1>2. CASE ~ ok /\ h \in Leading(g)
  <2>1. h \in Seq(Lines) /\ Begins(h, g)
    BY <1>2, LeadingBegins, Zenon
  <2>2. LinesSorted(h) /\ Below(h, b, Len(s))
    BY <2>1, BeginningSound, Zenon DEF LogFileSound
  <2> QED BY <1>2, <2>1, <2>2, Zenon DEF LogFileSound
<1> QED BY <1>1, <1>2, Zenon DEF Written

\* The n-th breadcrumb joins those that wait: they stay in order, after all
\* that are in audit.log.
LEMMA CrumbPushed ==
  ASSUME NEW f \in Seq(Lines), NEW c \in Seq(Lines), NEW b \in Nat, NEW n \in Nat,
         NEW crumb \in Lines, crumb.boot = b, crumb.n = n + 1,
         CrumbsWait(c, b, n), AuditSound(f, c, b, n)
  PROVE  /\ CrumbsWait(Append(c, crumb), b, n + 1)
         /\ AuditSound(f, Append(c, crumb), b, n + 1)
         /\ CrumbsWait(c, b, n + 1) /\ AuditSound(f, c, b, n + 1)
<1> DEFINE k == Len(c)
<1>1. k \in Nat /\ Len(f) \in Nat
  BY LenProperties, Zenon
<1>2. /\ Len(Append(c, crumb)) = k + 1
      /\ \A i \in 1 .. k : Append(c, crumb)[i] = c[i]
      /\ Append(c, crumb)[k + 1] = crumb
  BY AppendedOne, Zenon DEF OneLonger
<1>3. \A i \in 1 .. Len(f) : f[i].boot \in Nat /\ f[i].n \in Nat
  <2>1. \A i \in 1 .. Len(f) : f[i] \in Lines
    BY ElementOfSeq, Zenon
  <2> QED BY <2>1, Zenon DEF Lines
<1>4. /\ \A i \in 1 .. k : c[i].boot = b /\ c[i].n \in 1 .. n
      /\ LinesSorted(c)
  BY Zenon DEF CrumbsWait, OfBoot
<1>5. LinesSorted(f) /\ Below(f, b, n + 1)
      /\ \A i \in 1 .. Len(f), j \in 1 .. k : f[i].boot = b => f[i].n < c[j].n
  BY Zenon DEF AuditSound
<1> HIDE DEF k
<1>6. \A i \in 1 .. k + 1 : i \in 1 .. k \/ i = k + 1
  BY <1>1
<1>7. LinesSorted(Append(c, crumb))
  <2> SUFFICES ASSUME NEW i \in 1 .. k + 1, NEW j \in 1 .. k + 1, i < j
               PROVE  LET g == Append(c, crumb)
                      IN  \/ g[i].boot < g[j].boot
                          \/ g[i].boot = g[j].boot /\ g[i].n < g[j].n
    BY <1>2, Zenon DEF LinesSorted
  <2>1. i \in 1 .. k
    BY <1>1
  <2>2. CASE j \in 1 .. k
    <3>1. \/ c[i].boot < c[j].boot
          \/ c[i].boot = c[j].boot /\ c[i].n < c[j].n
      BY <1>4, <2>1, <2>2, Zenon DEF LinesSorted, k
    <3> QED
      BY <1>2, <2>1, <2>2, <3>1, Zenon
  <2>3. CASE j = k + 1
    BY <1>2, <1>4, <2>1, <2>3
  <2> QED BY <1>6, <2>2, <2>3, Zenon
<1>8. CrumbsWait(Append(c, crumb), b, n + 1)
  BY <1>2, <1>4, <1>6, <1>7 DEF CrumbsWait, OfBoot
<1>9. CrumbsWait(c, b, n + 1)
  BY <1>4 DEF CrumbsWait, OfBoot, k
<1>10. Below(f, b, n + 1 + 1)
  BY <1>3, <1>5 DEF Below
<1>11. \A i \in 1 .. Len(f) : f[i].boot = b => f[i].n < n + 1
  BY <1>5, Zenon DEF Below
<1>12. \A i \in 1 .. Len(f), j \in 1 .. k + 1 : f[i].boot = b => f[i].n < Append(c, crumb)[j].n
  BY <1>2, <1>5, <1>6, <1>11, Zenon
<1> QED BY <1>2, <1>5, <1>8, <1>9, <1>10, <1>12, Zenon DEF AuditSound, k

\* g is f with p behind it.
Behind(g, f, p) ==
  /\ Len(g) = Len(f) + Len(p)
  /\ \A i \in 1 .. Len(f) : g[i] = f[i]
  /\ \A i \in 1 .. Len(p) : g[Len(f) + i] = p[i]

\* What an append leaves of f and c: f with what c begins with behind it, and
\* the whole of c when the append succeeds.
LEMMA AppendLeaves ==
  ASSUME NEW f \in Seq(Lines), NEW c \in Seq(Lines), NEW ok \in BOOLEAN,
         NEW g \in TrulyAppended(f, c, ok)
  PROVE  /\ g \in Seq(Lines)
         /\ \E p \in Seq(Lines) : Begins(p, c) /\ Behind(g, f, p)
         /\ ok => Behind(g, f, c)
<1>1. \A p \in Seq(Lines) : f \o p \in Seq(Lines) /\ Behind(f \o p, f, p)
  <2> TAKE p \in Seq(Lines)
  <2>1. f \o p \in Seq(Lines)
    BY ConcatProperties, Zenon
  <2>2. Len(f \o p) = Len(f) + Len(p) /\ \A i \in 1 .. Len(f) + Len(p) :
          (f \o p)[i] = IF i \leq Len(f) THEN f[i] ELSE p[i - Len(f)]
    BY ConcatProperties, Zenon
  <2>3. Len(f) \in Nat /\ Len(p) \in Nat
    BY LenProperties, Zenon
  <2>4. \A i \in 1 .. Len(f) : (f \o p)[i] = f[i]
    BY <2>2, <2>3
  <2>5. \A i \in 1 .. Len(p) : (f \o p)[Len(f) + i] = p[i]
    <3> TAKE i \in 1 .. Len(p)
    <3>1. Len(f) + i \in 1 .. Len(f) + Len(p) /\ ~(Len(f) + i \leq Len(f))
          /\ Len(f) + i - Len(f) = i
      BY <2>3
    <3> QED BY <2>2, <3>1
  <2> QED BY <2>1, <2>2, <2>4, <2>5, Zenon DEF Behind
<1>2. Begins(c, c)
  BY LenProperties DEF Begins
<1>3. CASE ok
  <2>1. g = f \o c
    BY <1>3 DEF TrulyAppended
  <2> QED BY <1>1, <1>2, <2>1, Zenon
<1>4. CASE ~ ok
  <2>1. PICK p \in Leading(c) : g = f \o p
    BY <1>4, Zenon DEF TrulyAppended
  <2>2. p \in Seq(Lines) /\ Begins(p, c)
    BY LeadingBegins, Zenon
  <2> QED BY <1>1, <1>4, <2>1, <2>2, Zenon
<1> QED BY <1>3, <1>4, Zenon

\* Bounds of the numbers and indices below, for natural numbers.
LEMMA UpTo ==
  ASSUME NEW b \in Nat, NEW n \in Nat
  PROVE  b \leq b /\ \A x \in 1 .. n : x < n + 1
OBVIOUS

\* Breadcrumbs that waited are in audit.log after an append, or some of them
\* when it fails; those in the file stay in order.
LEMMA AuditAppended ==
  ASSUME NEW f \in Seq(Lines), NEW c \in Seq(Lines), NEW b \in Nat, NEW n \in Nat,
         CrumbsWait(c, b, n), AuditSound(f, c, b, n),
         NEW g \in Seq(Lines), NEW p \in Seq(Lines), Begins(p, c), Behind(g, f, p)
  PROVE  AuditSound(g, <<>>, b, n)
<1> DEFINE m == Len(f)
           k == Len(p)
<1>1. m \in Nat /\ k \in Nat /\ Len(c) \in Nat /\ k \leq Len(c)
  BY LenProperties, Zenon DEF Begins
<1>2. \A i \in 1 .. k : i \in 1 .. Len(c) /\ p[i] = c[i]
  BY <1>1 DEF Begins
<1>3. /\ Len(g) = m + k
      /\ \A i \in 1 .. m : g[i] = f[i]
      /\ \A i \in 1 .. k : g[m + i] = p[i]
  BY Zenon DEF Behind
<1>4. /\ \A i \in 1 .. k : p[i].boot = b /\ p[i].n \in 1 .. n
      /\ LinesSorted(p)
  BY <1>2, Zenon DEF CrumbsWait, OfBoot, LinesSorted
<1>5. LinesSorted(f) /\ Below(f, b, n + 1)
      /\ \A i \in 1 .. m, j \in 1 .. k : f[i].boot = b => f[i].n < p[j].n
  BY <1>2, Zenon DEF AuditSound
<1>6. \A i \in 1 .. m : f[i].boot \in Nat /\ f[i].n \in Nat
  <2>1. \A i \in 1 .. m : f[i] \in Lines
    BY ElementOfSeq, Zenon
  <2> QED BY <2>1, Zenon DEF Lines
<1> HIDE DEF m, k
<1>7. \A i \in 1 .. m + k : i \in 1 .. m \/ (i - m \in 1 .. k /\ m + (i - m) = i)
  BY <1>1
<1>8. \A i \in 1 .. m + k : i \notin 1 .. m => g[i] = p[i - m]
  BY <1>3, <1>7, Zenon
<1>9. Below(g, b, n + 1)
  <2> SUFFICES ASSUME NEW i \in 1 .. m + k
               PROVE  g[i].boot \leq b /\ (g[i].boot = b => g[i].n < n + 1)
    BY <1>3, Zenon DEF Below
  <2>1. CASE i \in 1 .. m
    BY <1>3, <1>5, <2>1, Zenon DEF Below, m
  <2>2. CASE i \notin 1 .. m
    <3>1. i - m \in 1 .. k /\ g[i] = p[i - m]
      BY <1>7, <1>8, <2>2, Zenon
    <3>2. g[i].boot = b /\ g[i].n \in 1 .. n
      BY <1>4, <3>1, Zenon
    <3> QED BY <3>2, UpTo, Zenon
  <2> QED BY <2>1, <2>2, Zenon
<1>10. LinesSorted(g)
  <2> SUFFICES ASSUME NEW i \in 1 .. m + k, NEW j \in 1 .. m + k, i < j
               PROVE  \/ g[i].boot < g[j].boot
                      \/ g[i].boot = g[j].boot /\ g[i].n < g[j].n
    BY <1>3, Zenon DEF LinesSorted
  <2>1. CASE i \in 1 .. m /\ j \in 1 .. m
    <3>1. \/ f[i].boot < f[j].boot
          \/ f[i].boot = f[j].boot /\ f[i].n < f[j].n
      BY <1>5, <2>1, Zenon DEF LinesSorted, m
    <3> QED BY <1>3, <2>1, <3>1, Zenon
  <2>2. CASE i \in 1 .. m /\ j \notin 1 .. m
    <3>1. j - m \in 1 .. k /\ g[j] = p[j - m] /\ g[i] = f[i]
      BY <1>3, <1>7, <1>8, <2>2, Zenon
    <3>2. f[i].boot \leq b
      BY <1>5, <2>2, Zenon DEF Below, m
    <3>3. p[j - m].boot = b /\ p[j - m].n \in 1 .. n /\ (f[i].boot = b => f[i].n < p[j - m].n)
      BY <1>4, <1>5, <2>2, <3>1, Zenon
    <3>4. f[i].boot \in Nat
      BY <1>6, <2>2, Zenon
    <3>5. f[i].boot < b \/ f[i].boot = b
      BY <3>2, <3>4
    <3> QED BY <3>1, <3>3, <3>5, Zenon
  <2>3. CASE i \notin 1 .. m /\ j \notin 1 .. m
    <3>1. i - m \in 1 .. k /\ j - m \in 1 .. k /\ i - m < j - m
      BY <1>1, <1>7, <2>3
    <3>2. g[i] = p[i - m] /\ g[j] = p[j - m]
      BY <1>8, <2>3, Zenon
    <3>3. \/ p[i - m].boot < p[j - m].boot
          \/ p[i - m].boot = p[j - m].boot /\ p[i - m].n < p[j - m].n
      BY <1>4, <3>1, Zenon DEF LinesSorted, k
    <3> QED BY <3>2, <3>3, Zenon
  <2>4. i \notin 1 .. m => j \notin 1 .. m
    BY <1>1
  <2> QED BY <2>1, <2>2, <2>3, <2>4, Zenon
<1>11. \A j : j \notin 1 .. Len(<<>>)
  BY EmptySeq
<1> QED BY <1>9, <1>10, <1>11, Zenon DEF AuditSound

\* When the append succeeds no breadcrumb is lost by it.
LEMMA AllAppended ==
  ASSUME NEW f \in Seq(Lines), NEW c \in Seq(Lines), NEW g \in Seq(Lines), Behind(g, f, c),
         NEW d, NEW b \in Nat, NEW n \in Nat, Accounted(f, c, d, b, n)
  PROVE  Accounted(g, <<>>, d, b, n)
<1>1. Len(f) \in Nat /\ Len(c) \in Nat /\ Len(g) = Len(f) + Len(c)
  BY LenProperties, Zenon DEF Behind
<1>2. \A k : InFile(f, b, k) => InFile(g, b, k)
  BY <1>1 DEF InFile, Behind
<1>3. ASSUME NEW k, InFile(c, b, k) PROVE InFile(g, b, k)
  <2>1. PICK i \in 1 .. Len(c) : c[i].boot = b /\ c[i].n = k
    BY <1>3, Zenon DEF InFile
  <2>2. Len(f) + i \in 1 .. Len(g) /\ g[Len(f) + i] = c[i]
    BY <1>1 DEF Behind
  <2> QED BY <2>1, <2>2, Zenon DEF InFile
<1> QED BY <1>2, <1>3, Zenon DEF Accounted

\* What is said of a file holds of an empty one.
LEMMA NothingLogged ==
  ASSUME NEW b, NEW n
  PROVE  /\ LinesSorted(<<>>) /\ Below(<<>>, b, n) /\ OfBoot(<<>>, b) /\ Counted(<<>>, b)
         /\ LogFileSound(<<>>, <<>>, b) /\ CrumbsWait(<<>>, b, n) /\ AuditSound(<<>>, <<>>, b, n)
<1>1. \A i : i \notin 1 .. Len(<<>>)
  OBVIOUS
<1>2. /\ LinesSorted(<<>>) /\ OfBoot(<<>>, b) /\ Counted(<<>>, b)
      /\ \A x : Below(<<>>, b, x)
  BY <1>1, Zenon DEF LinesSorted, OfBoot, Counted, Below
<1> QED BY <1>1, <1>2, Zenon DEF LogFileSound, CrumbsWait, AuditSound

\* A boot that has left no breadcrumb has lost none.
LEMMA NoneLost == \A f, c, d, b : Accounted(f, c, d, b, 0)
<1>1. \A n : n \notin 1 .. 0
  OBVIOUS
<1> QED BY <1>1, Zenon DEF Accounted

\* A new machine has empty files.
LEMMA LogsInvInit == LogsInit => LogsInv
<1> SUFFICES ASSUME LogsInit PROVE LogsInv
  OBVIOUS
<1>1. <<>> \in Seq(Lines) /\ Len(<<>>) = 0 /\ blog.buffer = <<>>
  BY DEF LogsInit
<1>2. LogsTyped
  BY <1>1, Zenon DEF LogsInit, LogsTyped
<1> QED BY <1>1, <1>2, NothingLogged, NoneLost, Zenon DEF LogsInit, LogsInv

\* Switching on starts a new boot: nothing in the files is of it yet.
LEMMA PowerOnStep == LogsInv /\ LogsPowerOn => LogsInv'
<1> SUFFICES ASSUME LogsInv, LogsPowerOn PROVE LogsInv'
  OBVIOUS
<1> DEFINE b == powerOns'
<1>1. <<>> \in Seq(Lines) /\ Len(<<>>) = 0 /\ blog'.buffer = <<>>
  BY DEF LogsPowerOn
<1>2. LogsTyped'
  <2>1. blog' \in [buffer : Seq(Lines), through : BOOLEAN, written : Nat]
    <3>1. blog' = [buffer |-> <<>>, through |-> TRUE, written |-> 0]
      BY Zenon DEF LogsPowerOn
    <3> QED BY <1>1, <3>1
  <2>2. powerOns \in Nat
    BY Zenon DEF LogsInv, LogsTyped
  <2>3. powerOns + 1 \in Nat /\ 0 \in Nat
    BY <2>2
  <2> QED BY <1>1, <2>1, <2>3, Zenon DEF LogsInv, LogsTyped, LogsPowerOn
<1>3. \A f \in Seq(Lines) : \A n, m : Below(f, powerOns, n) => Below(f, powerOns + 1, m)
  <2> SUFFICES ASSUME NEW f \in Seq(Lines), NEW n, NEW m, Below(f, powerOns, n),
                      NEW i \in 1 .. Len(f)
               PROVE  f[i].boot \leq powerOns + 1 /\ f[i].boot # powerOns + 1
    BY Zenon DEF Below
  <2>1. f[i] \in Lines
    BY ElementOfSeq, Zenon
  <2>2. f[i].boot \in Nat /\ f[i].boot \leq powerOns /\ powerOns \in Nat
    BY <2>1, Zenon DEF Below, Lines, LogsInv, LogsTyped
  <2> QED BY <2>2
<1>4. LogFileSound(blogFile', blog'.buffer, b)
  BY <1>1, <1>3, Zenon DEF LogsInv, LogsTyped, LogsPowerOn, LogFileSound
<1>5. AuditSound(auditFile', <<>>, b, 0)
  <2>1. \A j : j \notin 1 .. Len(<<>>)
    BY <1>1
  <2> QED BY <1>3, <2>1, Zenon DEF LogsInv, LogsTyped, LogsPowerOn, AuditSound
<1>6. Counted(<<>>, b) /\ CrumbsWait(<<>>, b, 0) /\ Accounted(auditFile', <<>>, {}, b, 0)
  BY NothingLogged, NoneLost, Zenon
<1> QED BY <1>1, <1>2, <1>4, <1>5, <1>6, Zenon DEF LogsInv, LogsPowerOn

\* What an action on boot.log leaves alone.
CrumbsKept ==
  /\ crumbs' = crumbs /\ auditFile' = auditFile /\ dropped' = dropped
  /\ said' = said /\ coalesce' = coalesce /\ powerOns' = powerOns
  /\ bphase' \in {"init", "menu", "attempt"}

\* An action on boot.log keeps the invariant when it keeps the part about
\* boot.log.
LEMMA LogFileStep ==
  ASSUME LogsInv, CrumbsKept, NEW ok \in BOOLEAN, FaultIf(ok),
         blog' \in [buffer : Seq(Lines), through : BOOLEAN, written : Nat],
         blogFile' \in Seq(Lines),
         Counted(blog'.buffer, powerOns), LogFileSound(blogFile', blog'.buffer, powerOns),
         wfaults = 0 /\ ok => OfBoot(blogFile', powerOns)
  PROVE  LogsInv'
<1>1. wfaults' \in Nat /\ (wfaults' = 0 => wfaults = 0 /\ ok)
  BY DEF FaultIf, LogsInv, LogsTyped
<1>2. LogsTyped'
  BY <1>1, Zenon DEF CrumbsKept, LogsInv, LogsTyped
<1>3. crumbs = <<>> \/ coalesce
  BY Zenon DEF LogsInv
<1> QED BY <1>1, <1>2, <1>3, Zenon DEF CrumbsKept, LogsInv

\* The header replaces the log of the boot before.
LEMMA StartLogStep == LogsInv /\ StartLog => LogsInv'
<1> SUFFICES ASSUME LogsInv, StartLog PROVE LogsInv'
  OBVIOUS
<1>1. PICK ok \in BOOLEAN :
        /\ FaultIf(ok)
        /\ blogFile' \in Written(blogFile, <<Line(0, 1)>>, ok)
        /\ blog' = [blog EXCEPT !.buffer = <<Line(0, 1)>>, !.written = IF ok THEN 1 ELSE 0]
  BY Zenon DEF StartLog
<1> DEFINE line == Line(0, 1)
<1>2. line \in Lines /\ line.boot = powerOns /\ line.n = 0
  BY Zenon DEF Line, Lines, LogsInv, LogsTyped
<1>3. blog.buffer = <<>>
  BY DEF LogsInv, StartLog
<1> HIDE DEF line
<1>4. <<line>> \in Seq(Lines) /\ Len(<<line>>) = 1 /\ <<line>>[1] = line
  BY <1>2
<1>5. blog' \in [buffer : Seq(Lines), through : BOOLEAN, written : Nat]
      /\ blog'.buffer = <<line>>
  BY <1>1, <1>4, Zenon DEF LogsInv, LogsTyped, line
<1>6. Counted(<<line>>, powerOns)
  BY <1>2, <1>4 DEF Counted
<1>7. powerOns \in Nat /\ blogFile \in Seq(Lines)
  BY Zenon DEF LogsInv, LogsTyped
<1>8. LogFileSound(<<line>>, <<line>>, powerOns) /\ OfBoot(<<line>>, powerOns)
  BY <1>4, <1>6, <1>7, BufferSound, Zenon
<1>9. LogFileSound(blogFile, <<line>>, powerOns)
  <2>1. LinesSorted(blogFile) /\ Below(blogFile, powerOns, 0)
    BY <1>3, Zenon DEF LogsInv, LogFileSound
  <2>2. \A i \in 1 .. Len(blogFile) : blogFile[i].n \in Nat
    <3>1. \A i \in 1 .. Len(blogFile) : blogFile[i] \in Lines
      BY <1>7, ElementOfSeq, Zenon
    <3> QED BY <3>1, Zenon DEF Lines
  <2> QED BY <1>4, <2>1, <2>2 DEF LogFileSound, Below
<1>10. blogFile' \in Written(blogFile, <<line>>, ok)
  BY <1>1 DEF line
<1>11. blogFile' \in Seq(Lines) /\ LogFileSound(blogFile', <<line>>, powerOns)
       /\ (ok => blogFile' = <<line>>)
  BY <1>4, <1>7, <1>8, <1>9, <1>10, WrittenSound, Zenon
<1>12. CrumbsKept
  BY DEF StartLog, CrumbsKept
<1> QED BY <1>1, <1>5, <1>6, <1>8, <1>11, <1>12, LogFileStep

\* A line of the write-through phase.
LEMMA LogThroughStep ==
  ASSUME LogsInv, NEW size \in LineLengths, LogThrough(size)
  PROVE  LogsInv'
<1> DEFINE line == Line(Len(blog.buffer), size)
           fits == blog.written + size <= MAX_LOG_SIZE
<1>1. PICK ok \in BOOLEAN :
        /\ FaultIf(ok)
        /\ IF fits THEN blogFile' \in Written(blogFile, Append(blogFile, line), ok)
                   ELSE UNCHANGED blogFile
        /\ blog' = [blog EXCEPT !.buffer = Append(@, line),
                                !.written = IF fits /\ ok THEN @ + size ELSE @]
  BY Zenon DEF LogThrough
<1>2. /\ powerOns \in Nat /\ blogFile \in Seq(Lines) /\ blog.buffer \in Seq(Lines)
      /\ blog \in [buffer : Seq(Lines), through : BOOLEAN, written : Nat]
      /\ size \in Nat /\ Counted(blog.buffer, powerOns)
      /\ LogFileSound(blogFile, blog.buffer, powerOns)
  BY LogsAssumption, Zenon DEF LogsInv, LogsTyped
<1>3. Len(blog.buffer) \in Nat
  BY <1>2, LenProperties, Zenon
<1>4. line \in Lines /\ line.boot = powerOns /\ line.n = Len(blog.buffer)
  BY <1>2, <1>3, Zenon DEF Line, Lines
<1> HIDE DEF line, fits
<1>5. Append(blog.buffer, line) \in Seq(Lines) /\ Append(blogFile, line) \in Seq(Lines)
  BY <1>2, <1>4, AppendProperties, Zenon
<1>6. /\ blog' \in [buffer : Seq(Lines), through : BOOLEAN, written : Nat]
      /\ blog'.buffer = Append(blog.buffer, line)
  <2> DEFINE s == Append(blog.buffer, line)
             w == IF fits /\ ok THEN blog.written + size ELSE blog.written
  <2>1. blog' = [blog EXCEPT !.buffer = s, !.written = w]
    BY <1>1
  <2>2. s \in Seq(Lines) /\ w \in Nat
    BY <1>2, <1>5
  <2> HIDE DEF s, w
  <2>3. blog' \in [buffer : Seq(Lines), through : BOOLEAN, written : Nat] /\ blog'.buffer = s
    BY <1>2, <2>1, <2>2, Zenon
  <2> QED BY <2>3, Zenon DEF s
<1>7. /\ Counted(Append(blog.buffer, line), powerOns)
      /\ LogFileSound(blogFile, Append(blog.buffer, line), powerOns)
      /\ LogFileSound(Append(blogFile, line), Append(blog.buffer, line), powerOns)
      /\ OfBoot(blogFile, powerOns) => OfBoot(Append(blogFile, line), powerOns)
  BY <1>2, <1>4, NextLine, Zenon
<1>8. wfaults = 0 => OfBoot(blogFile, powerOns)
  BY DEF LogsInv, LogThrough
<1>9. CrumbsKept
  BY DEF LogThrough, CrumbsKept
<1>10. CASE fits
  <2> DEFINE s == Append(blog.buffer, line)
             g == Append(blogFile, line)
  <2>1. blogFile' \in Written(blogFile, g, ok) /\ g \in Seq(Lines)
        /\ LogFileSound(blogFile, s, powerOns) /\ LogFileSound(g, s, powerOns)
    BY <1>1, <1>5, <1>7, <1>10
  <2> HIDE DEF s, g
  <2>2. blogFile' \in Seq(Lines) /\ LogFileSound(blogFile', s, powerOns)
        /\ (ok => blogFile' = g)
    BY <1>2, <2>1, WrittenSound
  <2>3. blogFile' \in Seq(Lines)
        /\ LogFileSound(blogFile', Append(blog.buffer, line), powerOns)
        /\ (ok => blogFile' = Append(blogFile, line))
    BY <2>2, Zenon DEF s, g
  <2> QED BY <1>1, <1>6, <1>7, <1>8, <1>9, <2>3, LogFileStep, Zenon
<1>11. CASE ~ fits
  <2>1. blogFile' = blogFile
    BY <1>1, <1>11
  <2> QED BY <1>1, <1>2, <1>6, <1>7, <1>8, <1>9, <2>1, LogFileStep
<1> QED BY <1>10, <1>11, Zenon

\* The line of a selection, and the whole buffer as the new file.
LEMMA LogAndFlushStep == LogsInv /\ LogAndFlush => LogsInv'
<1> SUFFICES ASSUME LogsInv, LogAndFlush PROVE LogsInv'
  OBVIOUS
<1> DEFINE line == Line(Len(blog.buffer), 1)
           buffer == Append(blog.buffer, line)
<1>1. PICK ok \in BOOLEAN : FaultIf(ok) /\ blogFile' \in Written(blogFile, buffer, ok)
  BY DEF LogAndFlush
<1>2. blog' = [blog EXCEPT !.buffer = buffer]
  BY DEF LogAndFlush
<1>3. /\ powerOns \in Nat /\ blogFile \in Seq(Lines) /\ blog.buffer \in Seq(Lines)
      /\ blog \in [buffer : Seq(Lines), through : BOOLEAN, written : Nat]
      /\ Counted(blog.buffer, powerOns)
      /\ LogFileSound(blogFile, blog.buffer, powerOns)
  BY Zenon DEF LogsInv, LogsTyped
<1>4. Len(blog.buffer) \in Nat
  BY <1>3, LenProperties, Zenon
<1>5. line \in Lines /\ line.boot = powerOns /\ line.n = Len(blog.buffer)
  BY <1>3, <1>4, Zenon DEF Line, Lines
<1> HIDE DEF line
<1>6. buffer \in Seq(Lines)
  BY <1>3, <1>5, AppendProperties, Zenon
<1>7. Counted(buffer, powerOns) /\ LogFileSound(blogFile, buffer, powerOns)
  BY <1>3, <1>5, NextLine, Zenon
<1> HIDE DEF buffer
<1>8. /\ blog' \in [buffer : Seq(Lines), through : BOOLEAN, written : Nat]
      /\ blog'.buffer = buffer
  BY <1>2, <1>3, <1>6, Zenon
<1>9. LogFileSound(buffer, buffer, powerOns) /\ OfBoot(buffer, powerOns)
  BY <1>3, <1>6, <1>7, BufferSound, Zenon
<1>10. blogFile' \in Seq(Lines) /\ LogFileSound(blogFile', buffer, powerOns)
       /\ (ok => blogFile' = buffer)
  BY <1>1, <1>3, <1>6, <1>7, <1>9, WrittenSound
<1>11. CrumbsKept
  BY DEF LogAndFlush, CrumbsKept
<1> QED BY <1>1, <1>7, <1>8, <1>9, <1>10, <1>11, LogFileStep, Zenon

\* The indices of a list that grew by one.
LEMMA LastIndex ==
  ASSUME NEW l \in Nat
  PROVE  l + 1 \in 1 .. l + 1 /\ \A i \in 1 .. l : i \in 1 .. l + 1
OBVIOUS

\* A breadcrumb of the current boot is one more in the account.
LEMMA OneMoreAccounted ==
  ASSUME NEW f, NEW c \in Seq(Lines), NEW d, NEW b \in Nat, NEW n \in Nat, NEW crumb \in Lines,
         crumb.boot = b, crumb.n = n + 1, Accounted(f, c, d, b, n)
  PROVE  /\ Accounted(f, Append(c, crumb), d, b, n + 1)
         /\ Accounted(f, c, d \cup {n + 1}, b, n + 1)
<1>1. Len(c) \in Nat
  BY LenProperties, Zenon
<1>2. /\ Len(Append(c, crumb)) = Len(c) + 1
      /\ \A i \in 1 .. Len(c) : Append(c, crumb)[i] = c[i]
      /\ Append(c, crumb)[Len(c) + 1] = crumb
  BY AppendedOne, Zenon DEF OneLonger
<1>3. InFile(Append(c, crumb), b, n + 1)
  <2>1. Len(c) + 1 \in 1 .. Len(Append(c, crumb))
    BY <1>1, <1>2, LastIndex, Zenon
  <2> QED BY <1>2, <2>1, Zenon DEF InFile
<1>4. \A k : InFile(c, b, k) => InFile(Append(c, crumb), b, k)
  <2>1. \A i \in 1 .. Len(c) : i \in 1 .. Len(Append(c, crumb))
    BY <1>1, <1>2, LastIndex, Zenon
  <2> QED BY <1>2, <2>1, Zenon DEF InFile
<1>5. \A k \in 1 .. n + 1 : k \in 1 .. n \/ k = n + 1
  OBVIOUS
<1> QED BY <1>3, <1>4, <1>5, Zenon DEF Accounted

\* A breadcrumb goes to the buffer, is dropped, or goes to audit.log itself.
LEMMA LeaveCrumbStep ==
  ASSUME LogsInv, NEW size \in LineLengths, LeaveCrumb(size)
  PROVE  LogsInv'
<1> DEFINE crumb == Line(said + 1, size)
<1>1. /\ powerOns \in Nat /\ said \in Nat /\ wfaults \in Nat /\ size \in Nat
      /\ auditFile \in Seq(Lines) /\ crumbs \in Seq(Lines)
      /\ CrumbsWait(crumbs, powerOns, said) /\ AuditSound(auditFile, crumbs, powerOns, said)
      /\ wfaults = 0 => Accounted(auditFile, crumbs, dropped, powerOns, said)
  BY LogsAssumption, Zenon DEF LogsInv, LogsTyped
<1>2. crumb \in Lines /\ crumb.boot = powerOns /\ crumb.n = said + 1
  BY <1>1 DEF Line, Lines
<1>3. /\ bphase = "attempt" /\ bphase' = bphase /\ blog' = blog /\ blogFile' = blogFile
      /\ coalesce' = coalesce /\ powerOns' = powerOns /\ said' = said + 1
  BY Zenon DEF LeaveCrumb
<1>4. IF coalesce THEN BufferPush(crumb)
      ELSE /\ \E ok \in BOOLEAN :
                FaultIf(ok) /\ auditFile' \in TrulyAppended(auditFile, <<crumb>>, ok)
           /\ UNCHANGED <<crumbs, dropped>>
  BY Zenon DEF LeaveCrumb
<1> HIDE DEF crumb
<1>5. /\ CrumbsWait(Append(crumbs, crumb), powerOns, said + 1)
      /\ AuditSound(auditFile, Append(crumbs, crumb), powerOns, said + 1)
      /\ CrumbsWait(crumbs, powerOns, said + 1)
      /\ AuditSound(auditFile, crumbs, powerOns, said + 1)
  BY <1>1, <1>2, CrumbPushed, Zenon
<1>6. wfaults = 0 =>
        /\ Accounted(auditFile, Append(crumbs, crumb), dropped, powerOns, said + 1)
        /\ Accounted(auditFile, crumbs, dropped \cup {said + 1}, powerOns, said + 1)
  BY <1>1, <1>2, OneMoreAccounted, Zenon
<1>7. Append(crumbs, crumb) \in Seq(Lines)
  BY <1>1, <1>2, AppendProperties, Zenon
<1>8. SUFFICES /\ crumbs' \in Seq(Lines) /\ auditFile' \in Seq(Lines) /\ wfaults' \in Nat
               /\ wfaults = 0 \/ wfaults' # 0
               /\ CrumbsWait(crumbs', powerOns, said + 1)
               /\ AuditSound(auditFile', crumbs', powerOns, said + 1)
               /\ ~ coalesce => crumbs' = <<>>
               /\ wfaults' = 0 => Accounted(auditFile', crumbs', dropped', powerOns, said + 1)
  <2>1. said + 1 \in Nat /\ (bphase # "started")
    BY <1>1, <1>3
  <2> QED BY <1>1, <1>3, <1>8, <2>1, Zenon DEF LogsInv, LogsTyped
<1>9. CASE coalesce /\ Length(crumbs) + crumb.size <= DIAG_BUF_CAP
  BY <1>1, <1>4, <1>5, <1>6, <1>7, <1>9, Zenon DEF BufferPush
<1>10. CASE coalesce /\ ~(Length(crumbs) + crumb.size <= DIAG_BUF_CAP)
  BY <1>1, <1>2, <1>4, <1>5, <1>6, <1>10, Zenon DEF BufferPush
<1>11. CASE ~ coalesce
  <2>1. PICK ok \in BOOLEAN :
          FaultIf(ok) /\ auditFile' \in TrulyAppended(auditFile, <<crumb>>, ok)
    BY <1>4, <1>11, Zenon
  <2>2. crumbs = <<>> /\ crumbs' = crumbs /\ dropped' = dropped
    BY <1>4, <1>11, Zenon DEF LogsInv
  <2> DEFINE c == Append(crumbs, crumb)
  <2>3. c = <<crumb>>
    BY <1>2, <2>2
  <2>4. auditFile' \in TrulyAppended(auditFile, c, ok)
    BY <2>1, <2>3, Zenon
  <2> HIDE DEF c
  <2>5. /\ CrumbsWait(c, powerOns, said + 1) /\ AuditSound(auditFile, c, powerOns, said + 1)
        /\ c \in Seq(Lines)
        /\ wfaults = 0 => Accounted(auditFile, c, dropped, powerOns, said + 1)
    BY <1>5, <1>6, <1>7, Zenon DEF c
  <2>6. /\ auditFile' \in Seq(Lines)
        /\ \E p \in Seq(Lines) : Begins(p, c) /\ Behind(auditFile', auditFile, p)
        /\ ok => Behind(auditFile', auditFile, c)
    BY <1>1, <2>4, <2>5, AppendLeaves, Zenon
  <2>7. said + 1 \in Nat
    BY <1>1
  <2>8. AuditSound(auditFile', <<>>, powerOns, said + 1)
    BY <1>1, <2>5, <2>6, <2>7, AuditAppended, Zenon
  <2>9. wfaults = 0 /\ ok => Accounted(auditFile', <<>>, dropped, powerOns, said + 1)
    BY <1>1, <2>5, <2>6, <2>7, AllAppended, Zenon
  <2>10. wfaults' \in Nat /\ (wfaults' = 0 => wfaults = 0 /\ ok)
    BY <1>1, <2>1 DEF FaultIf
  <2> QED BY <1>1, <1>5, <2>2, <2>6, <2>8, <2>9, <2>10, Zenon
<1> QED BY <1>9, <1>10, <1>11, Zenon

\* The flush before an image starts.
LEMMA HandOffStep == LogsInv /\ HandOff => LogsInv'
<1> SUFFICES ASSUME LogsInv, HandOff PROVE LogsInv'
  OBVIOUS
<1>1. PICK ok \in BOOLEAN :
        FaultIf(ok) /\ auditFile' \in TrulyAppended(auditFile, crumbs, ok) /\ crumbs' = <<>>
  BY Zenon DEF HandOff
<1>2. /\ bphase = "attempt" /\ bphase' = "started" /\ blog' = blog /\ blogFile' = blogFile
      /\ coalesce' = coalesce /\ powerOns' = powerOns /\ said' = said /\ dropped' = dropped
  BY Zenon DEF HandOff
<1>3. /\ powerOns \in Nat /\ said \in Nat /\ wfaults \in Nat
      /\ auditFile \in Seq(Lines) /\ crumbs \in Seq(Lines)
      /\ CrumbsWait(crumbs, powerOns, said) /\ AuditSound(auditFile, crumbs, powerOns, said)
      /\ wfaults = 0 => Accounted(auditFile, crumbs, dropped, powerOns, said)
  BY Zenon DEF LogsInv, LogsTyped
<1>4. /\ auditFile' \in Seq(Lines)
      /\ \E p \in Seq(Lines) : Begins(p, crumbs) /\ Behind(auditFile', auditFile, p)
      /\ ok => Behind(auditFile', auditFile, crumbs)
  BY <1>1, <1>3, AppendLeaves, Zenon
<1>5. AuditSound(auditFile', <<>>, powerOns, said)
  BY <1>3, <1>4, AuditAppended, Zenon
<1>6. wfaults = 0 /\ ok => Accounted(auditFile', <<>>, dropped, powerOns, said)
  BY <1>3, <1>4, AllAppended, Zenon
<1>7. wfaults' \in Nat /\ (wfaults' = 0 => wfaults = 0 /\ ok)
  BY <1>1, <1>3 DEF FaultIf
<1>8. <<>> \in Seq(Lines) /\ CrumbsWait(<<>>, powerOns, said)
  <2>1. Len(<<>>) = 0
    OBVIOUS
  <2> QED BY <2>1 DEF CrumbsWait, LinesSorted, OfBoot
<1>9. LogsTyped'
  BY <1>1, <1>2, <1>4, <1>7, <1>8, Zenon DEF LogsInv, LogsTyped
<1> QED BY <1>1, <1>2, <1>5, <1>6, <1>7, <1>8, <1>9, Zenon DEF LogsInv

\* Every step keeps the invariant.
LEMMA LogsInvStep == LogsInv /\ [LogsNext]_logsVars => LogsInv'
<1> SUFFICES ASSUME LogsInv, [LogsNext]_logsVars PROVE LogsInv'
  OBVIOUS
<1>1. CASE UNCHANGED logsVars
  BY <1>1, Zenon DEF LogsInv, LogsTyped, logsVars
<1>2. CASE SetBuffered
  <2>1. LogsTyped' /\ blog'.buffer = blog.buffer
    BY <1>2, Zenon DEF LogsInv, LogsTyped, SetBuffered
  <2>2. coalesce \/ crumbs = <<>>
    BY Zenon DEF LogsInv
  <2> QED BY <1>2, <2>1, <2>2 DEF LogsInv, SetBuffered
<1>3. CASE ImageReturns
  <2>1. LogsTyped'
    BY <1>3, Zenon DEF LogsInv, LogsTyped, ImageReturns
  <2>2. coalesce \/ crumbs = <<>>
    BY Zenon DEF LogsInv
  <2> QED BY <1>3, <2>1, <2>2, Zenon DEF LogsInv, ImageReturns
<1>4. CASE LogsPowerOff
  <2>1. LogsTyped'
    BY <1>4, Zenon DEF LogsInv, LogsTyped, LogsPowerOff
  <2>2. coalesce \/ crumbs = <<>>
    BY Zenon DEF LogsInv
  <2> QED BY <1>4, <2>1, <2>2, Zenon DEF LogsInv, LogsPowerOff
<1> QED BY <1>1, <1>2, <1>3, <1>4, PowerOnStep, StartLogStep, LogThroughStep, LogAndFlushStep,
           LeaveCrumbStep, HandOffStep, Zenon DEF LogsNext

\* boot.log and audit.log have their lines once and in order, and when an
\* image starts no breadcrumb is outstanding that the buffer had room for: for
\* any number of boots, lines, failed writes and images that return, and any
\* caps (BootLog::log and flush, diag::append and flush).
THEOREM LogsCompleteHolds == LogsSpec => []LogsComplete
<1>1. LogsInv => LogsComplete
  <2> SUFFICES ASSUME LogsInv PROVE LogsComplete
    OBVIOUS
  <2>1. DOMAIN blogFile = 1 .. Len(blogFile) /\ DOMAIN auditFile = 1 .. Len(auditFile)
    BY DEF LogsInv, LogsTyped
  <2>2. BootLogInOrder
    BY <2>1, Zenon DEF LogsInv, LogFileSound, LinesSorted, OfBoot, BootLogInOrder
  <2>3. CrumbsOnce
    BY <2>1, Zenon DEF LogsInv, AuditSound, LinesSorted, CrumbsOnce
  <2>4. CrumbsBeforeHandoff
    <3> SUFFICES ASSUME bphase = "started", wfaults = 0, NEW n \in 1 .. said
                 PROVE  n \in dropped \/ InFile(auditFile, powerOns, n)
      BY <2>1, Zenon DEF CrumbsBeforeHandoff, InFile
    <3>1. crumbs = <<>> /\ Accounted(auditFile, crumbs, dropped, powerOns, said)
      BY Zenon DEF LogsInv
    <3>2. ~ InFile(<<>>, powerOns, n)
      BY DEF InFile
    <3> QED BY <3>1, <3>2, Zenon DEF Accounted
  <2> QED BY <2>2, <2>3, <2>4 DEF LogsComplete
<1> QED BY <1>1, LogsInvInit, LogsInvStep, PTL DEF LogsSpec
-----------------------------------------------------------------------------
(* BootHealth *)

USE CounterMaxAssumption, ThresholdAssumption, GenIdAssumption

\* Every step keeps every variable in its type.
THEOREM TypeCorrect == Spec => []TypeOK
<1>1. Init => TypeOK
  <2>1. Init => nvGenId \in GenIds \cup {NoGenId} /\ genid \in GenIds \cup {NoGenId}
    BY Zenon DEF Init
  <2>2. Init => inCrashLoop \in BOOLEAN
    BY Zenon DEF Init
  <2>3. Init => /\ nvState \in BootState /\ phase \in Phases
                /\ nvCount \in 0 .. CounterMax /\ counter \in 0 .. CounterMax
                /\ imageStatus \in {"none", "success", "error"}
                /\ attempts \in 0 .. CounterMax + 1
                /\ launched \in 0 .. CounterMax + 1
    BY DEF Init, BootState, Phases
  <2> QED BY <2>1, <2>2, <2>3, Zenon DEF TypeOK
<1>2. TypeOK /\ [Next]_vars => TypeOK'
  <2> SUFFICES ASSUME TypeOK, [Next]_vars PROVE TypeOK'
    BY Zenon
  <2> USE DEF TypeOK, BootState, Phases, nvram, history
  <2>1. CASE BeginReset BY <2>1, Zenon DEF BeginReset
  <2>2. CASE ResetState BY <2>2, Zenon DEF ResetState, Stored
  <2>3. CASE ResetCount BY <2>3 DEF ResetCount, Stored
  <2>4. CASE StoreGenId BY <2>4 DEF StoreGenId, Stored, SaturatingAdd1
  <2>5. CASE ReadHealth BY <2>5 DEF ReadHealth, CrashCount, SaturatingAdd1
  <2>6. CASE WriteCount BY <2>6, Zenon DEF WriteCount, Stored
  <2>7. CASE WriteState BY <2>7 DEF WriteState, Stored, SaturatingAdd1
  <2>8. CASE CheckCrashLoop BY <2>8 DEF CheckCrashLoop
  <2>9. CASE MenuReboot BY <2>9, Zenon DEF MenuReboot
  <2>10. CASE StartTool BY <2>10, Zenon DEF StartTool
  <2>11. CASE ToolReturned BY <2>11, Zenon DEF ToolReturned
  <2>12. CASE StartImage BY <2>12, Zenon DEF StartImage
  <2>13. CASE LoadFailed BY <2>13, Zenon DEF LoadFailed
  <2>14. ASSUME NEW route \in {"native", "firmware"},
               NEW status \in {"success", "error"},
               ImageReturned(route, status)
        PROVE  TypeOK'
    BY <2>14, Zenon DEF ImageReturned
  <2>15. CASE MarkState BY <2>15 DEF MarkState
  <2>16. CASE MarkCount BY <2>16 DEF MarkCount, Stored
  <2>17. CASE ImageTakesOver BY <2>17, Zenon DEF ImageTakesOver
  <2>18. CASE PowerOn
    <3>1. attempts' \in 0 .. CounterMax + 1
      BY <2>18 DEF PowerOn, SaturatingAdd1
    <3>2. inCrashLoop' \in BOOLEAN
      BY <2>18, Zenon DEF PowerOn
    <3> QED BY <2>18, <3>1, <3>2 DEF PowerOn
  <2>19. CASE Reset BY <2>19, Zenon DEF Reset
  <2>20. CASE NewGeneration BY <2>20, Zenon DEF NewGeneration
  <2>21. CASE OsMarkState BY <2>21 DEF OsMarkState
  <2>22. CASE OsMarkCount BY <2>22 DEF OsMarkCount
  <2>23. CASE UNCHANGED vars BY <2>23 DEF vars
  <2> QED
    BY <2>1, <2>2, <2>3, <2>4, <2>5, <2>6, <2>7, <2>8, <2>9, <2>10,
       <2>11, <2>12, <2>13, <2>14, <2>15, <2>16, <2>17, <2>18, <2>19,
       <2>20, <2>21, <2>22, <2>23, Zenon
    DEF Next, Assess, BootLoop, Environment
<1> QED BY <1>1, <1>2, PTL DEF Spec
-----------------------------------------------------------------------------
(* No false crash loop *)

\* The stored counter never overtakes the boots really begun.  Before this
\* boot is charged the counter must still be one increment short of them.
CountBound ==
  /\ nvState # "CrashLoop"
  /\ nvState = "Booting" => nvCount < attempts
  /\ phase \in {"assess", "reset_state", "reset_count", "write_count"} =>
       /\ attempts > 0
       /\ nvState = "Booting" => SaturatingAdd1(nvCount, CounterMax) < attempts
  /\ phase = "write_count" => counter < attempts
  /\ phase = "store_genid" => nvCount = 0
  /\ phase \in {"store_genid", "write_state", "ready", "menu", "tool",
                "image", "mark_state"} => nvCount < attempts
  /\ phase = "mark_count" => nvState = "BootedOK"
  /\ inCrashLoop /\ phase \in {"menu", "tool", "image"} =>
       CrashThreshold <= nvCount

\* With a counter that can be written, crash-loop handling is never started
\* by fewer than crash_threshold earlier failures, even when writes of the
\* state or of the generation id are lost.
THEOREM NoFalseCrashLoopHolds ==
  ASSUME "count" \notin FlakyWrites
  PROVE  Spec => []NoFalseCrashLoop
<1>1. Init => CountBound
  BY Zenon DEF Init, CountBound
<1>2. TypeOK /\ CountBound /\ [Next]_vars => CountBound'
  <2> SUFFICES ASSUME TypeOK, CountBound, [Next]_vars PROVE CountBound'
    BY Zenon
  <2> USE DEF TypeOK, CountBound, BootState, Phases, nvram, history, SaturatingAdd1
  <2>1. CASE BeginReset BY <2>1, Zenon DEF BeginReset
  <2>2. CASE ResetState BY <2>2, Zenon DEF ResetState, Stored
  <2>3. CASE ResetCount BY <2>3 DEF ResetCount, Stored
  <2>4. CASE StoreGenId BY <2>4, Zenon DEF StoreGenId, Stored, SaturatingAdd1
  <2>5. CASE ReadHealth BY <2>5, Zenon DEF ReadHealth, CrashCount, SaturatingAdd1
  <2>6. CASE WriteCount BY <2>6, Zenon DEF WriteCount, Stored
  <2>7. CASE WriteState BY <2>7, Zenon DEF WriteState, Stored, SaturatingAdd1
  <2>8. CASE CheckCrashLoop BY <2>8, Zenon DEF CheckCrashLoop
  <2>9. CASE MenuReboot BY <2>9, Zenon DEF MenuReboot
  <2>10. CASE StartTool BY <2>10, Zenon DEF StartTool
  <2>11. CASE ToolReturned BY <2>11, Zenon DEF ToolReturned
  <2>12. CASE StartImage BY <2>12, Zenon DEF StartImage
  <2>13. CASE LoadFailed BY <2>13, Zenon DEF LoadFailed
  <2>14. ASSUME NEW route \in {"native", "firmware"},
               NEW status \in {"success", "error"},
               ImageReturned(route, status)
        PROVE  CountBound'
    BY <2>14, Zenon DEF ImageReturned
  <2>15. CASE MarkState BY <2>15, Zenon DEF MarkState
  <2>16. CASE MarkCount BY <2>16, Zenon DEF MarkCount, Stored
  <2>17. CASE ImageTakesOver BY <2>17, Zenon DEF ImageTakesOver
  <2>18. CASE PowerOn
    <3>1. /\ attempts \in 0 .. CounterMax + 1 /\ nvCount \in 0 .. CounterMax
          /\ attempts' = SaturatingAdd1(attempts, CounterMax + 1)
          /\ nvState = "Booting" => nvCount < attempts
      BY <2>18, Zenon DEF PowerOn
    <3>2. /\ attempts' > 0
          /\ nvState = "Booting" =>
               nvCount < attempts' /\ SaturatingAdd1(nvCount, CounterMax) < attempts'
      <4> HIDE DEF TypeOK, CountBound
      <4> QED
        BY <3>1, CounterMaxAssumption
    <3> QED
      BY <2>18, <3>2, Zenon DEF PowerOn
  <2>19. CASE Reset BY <2>19, Zenon DEF Reset
  <2>20. CASE NewGeneration BY <2>20, Zenon DEF NewGeneration
  <2>21. CASE OsMarkState BY <2>21, Zenon DEF OsMarkState
  <2>22. CASE OsMarkCount BY <2>22 DEF OsMarkCount
  <2>23. CASE UNCHANGED vars BY <2>23, Zenon DEF vars
  <2> QED
    BY <2>1, <2>2, <2>3, <2>4, <2>5, <2>6, <2>7, <2>8, <2>9, <2>10,
       <2>11, <2>12, <2>13, <2>14, <2>15, <2>16, <2>17, <2>18, <2>19,
       <2>20, <2>21, <2>22, <2>23, Zenon
    DEF Next, Assess, BootLoop, Environment
<1>3. TypeOK /\ CountBound => NoFalseCrashLoop
  BY DEF TypeOK, CountBound, NoFalseCrashLoop
<1> QED BY <1>1, <1>2, <1>3, TypeCorrect, PTL DEF Spec
-----------------------------------------------------------------------------
(* No missed crash *)

\* The stored counter keeps up with the boots that reached the menu.  While
\* this boot is being assessed it must already be one ahead of them.
CountKeepsUp == genid = NoGenId =>
  /\ nvState \in {"Fresh", "Booting", "BootedOK"}
  /\ phase \notin {"reset_state", "reset_count", "store_genid"}
  /\ IF nvState = "Booting" THEN launched <= nvCount + 1 ELSE launched = 0
  /\ phase = "write_count" =>
       SaturatingAdd1(launched, CounterMax + 1) <= counter + 1
  /\ phase = "write_state" =>
       SaturatingAdd1(launched, CounterMax + 1) <= nvCount + 1
  /\ phase \in {"ready", "menu", "tool", "image", "mark_state"} =>
       nvState = "Booting"
  /\ phase = "mark_count" => nvState = "BootedOK"

\* On a machine without a VM generation id whose NVRAM can be written,
\* crash_threshold unmarked boots in a row always lead to crash-loop
\* handling, wherever power was lost in between.
THEOREM NoMissedCrashHolds ==
  ASSUME FlakyWrites = {}
  PROVE  Spec => NoMissedCrash
<1>1. Init => CountKeepsUp
  BY Zenon DEF Init, CountKeepsUp
<1>2. TypeOK /\ CountKeepsUp /\ [Next]_vars => CountKeepsUp'
  <2> SUFFICES ASSUME TypeOK, CountKeepsUp, [Next]_vars PROVE CountKeepsUp'
    BY Zenon
  <2> USE DEF TypeOK, CountKeepsUp, BootState, Phases, nvram, history, SaturatingAdd1
  <2>1. CASE BeginReset BY <2>1, Zenon DEF BeginReset, GenerationChanged
  <2>2. CASE ResetState BY <2>2, Zenon DEF ResetState, Stored
  <2>3. CASE ResetCount BY <2>3, Zenon DEF ResetCount, Stored
  <2>4. CASE StoreGenId BY <2>4, Zenon DEF StoreGenId, Stored, SaturatingAdd1
  <2>5. CASE ReadHealth BY <2>5 DEF ReadHealth, CrashCount, SaturatingAdd1
  <2>6. CASE WriteCount
    <3>1. /\ nvCount' = counter /\ counter \in 0 .. CounterMax
          /\ launched \in 0 .. CounterMax + 1
          /\ genid = NoGenId => SaturatingAdd1(launched, CounterMax + 1) <= counter + 1
      BY <2>6, Zenon DEF WriteCount, Stored
    <3>2. genid = NoGenId => launched <= counter + 1
      <4> HIDE DEF TypeOK, CountKeepsUp
      <4> QED
        BY <3>1, CounterMaxAssumption
    <3> QED
      BY <2>6, <3>1, <3>2, Zenon DEF WriteCount
  <2>7. CASE WriteState BY <2>7, Zenon DEF WriteState, Stored, SaturatingAdd1
  <2>8. CASE CheckCrashLoop BY <2>8, Zenon DEF CheckCrashLoop
  <2>9. CASE MenuReboot BY <2>9, Zenon DEF MenuReboot
  <2>10. CASE StartTool BY <2>10, Zenon DEF StartTool
  <2>11. CASE ToolReturned BY <2>11, Zenon DEF ToolReturned
  <2>12. CASE StartImage BY <2>12, Zenon DEF StartImage
  <2>13. CASE LoadFailed BY <2>13, Zenon DEF LoadFailed
  <2>14. ASSUME NEW route \in {"native", "firmware"},
               NEW status \in {"success", "error"},
               ImageReturned(route, status)
        PROVE  CountKeepsUp'
    BY <2>14, Zenon DEF ImageReturned
  <2>15. CASE MarkState BY <2>15, Zenon DEF MarkState
  <2>16. CASE MarkCount BY <2>16, Zenon DEF MarkCount, Stored
  <2>17. CASE ImageTakesOver BY <2>17, Zenon DEF ImageTakesOver
  <2>18. CASE PowerOn BY <2>18, Zenon DEF PowerOn, SaturatingAdd1
  <2>19. CASE Reset BY <2>19, Zenon DEF Reset
  <2>20. CASE NewGeneration BY <2>20, Zenon DEF NewGeneration
  <2>21. CASE OsMarkState BY <2>21, Zenon DEF OsMarkState
  <2>22. CASE OsMarkCount BY <2>22 DEF OsMarkCount
  <2>23. CASE UNCHANGED vars BY <2>23, Zenon DEF vars
  <2> QED
    BY <2>1, <2>2, <2>3, <2>4, <2>5, <2>6, <2>7, <2>8, <2>9, <2>10,
       <2>11, <2>12, <2>13, <2>14, <2>15, <2>16, <2>17, <2>18, <2>19,
       <2>20, <2>21, <2>22, <2>23, Zenon
    DEF Next, Assess, BootLoop, Environment
<1>3. TypeOK /\ CountKeepsUp /\ [Next]_vars =>
        [genid = NoGenId /\ phase = "ready" /\ phase' = "menu"
           /\ launched > CrashThreshold
           => inCrashLoop']_vars
  <2> SUFFICES ASSUME TypeOK, CountKeepsUp, Next, genid = NoGenId,
                      phase = "ready", phase' = "menu", launched > CrashThreshold
               PROVE  inCrashLoop'
    BY Zenon
  <2>1. CheckCrashLoop
    BY Zenon DEF Next, Assess, BootLoop, Environment, BeginReset, ResetState,
       ResetCount, StoreGenId, ReadHealth, WriteCount, WriteState, MenuReboot,
       StartTool, ToolReturned, StartImage, LoadFailed, ImageReturned,
       MarkState, MarkCount, ImageTakesOver, PowerOn, Reset, NewGeneration,
       OsMarkState, OsMarkCount
  <2>2. nvCount >= CrashThreshold
    BY DEF TypeOK, CountKeepsUp
  <2> QED BY <2>1, <2>2, Zenon DEF CheckCrashLoop
<1> QED BY <1>1, <1>2, <1>3, TypeCorrect, PTL DEF Spec, NoMissedCrash
-----------------------------------------------------------------------------
(* Refinement of the abstract crash counter *)

\* What the refinement mapping needs to know about the phases in which the
\* stored state and the stored counter disagree.
HealthInv ==
  /\ nvState \in {"Fresh", "Booting", "BootedOK"}
  /\ phase \in {"reset_count", "store_genid"} => nvState = "Fresh"
  /\ phase = "store_genid" => nvCount = 0
  /\ phase = "write_count" => counter = CrashCount(nvState, nvCount)
  /\ phase = "write_state" /\ nvState # "Booting" => nvCount = 0
  /\ phase \in {"ready", "menu", "tool", "image", "mark_state"} =>
       nvState = "Booting" \/ (nvState = "Fresh" /\ nvCount = 0)
  /\ phase = "mark_count" => nvState = "BootedOK"

\* HealthInv is an invariant when no variable write is lost.
LEMMA HealthInvariant ==
  ASSUME FlakyWrites = {}
  PROVE  Spec => []HealthInv
<1>1. Init => HealthInv
  BY Zenon DEF Init, HealthInv
<1>2. TypeOK /\ HealthInv /\ [Next]_vars => HealthInv'
  <2> SUFFICES ASSUME TypeOK, HealthInv, [Next]_vars PROVE HealthInv'
    BY Zenon
  <2> USE DEF TypeOK, HealthInv, BootState, Phases, nvram, history, CrashCount
  <2>1. CASE BeginReset BY <2>1 DEF BeginReset
  <2>2. CASE ResetState BY <2>2 DEF ResetState, Stored
  <2>3. CASE ResetCount BY <2>3 DEF ResetCount, Stored
  <2>4. CASE StoreGenId BY <2>4 DEF StoreGenId, Stored, SaturatingAdd1
  <2>5. CASE ReadHealth BY <2>5, Zenon DEF ReadHealth, CrashCount, SaturatingAdd1
  <2>6. CASE WriteCount BY <2>6, Zenon DEF WriteCount, Stored
  <2>7. CASE WriteState BY <2>7, Zenon DEF WriteState, Stored, SaturatingAdd1
  <2>8. CASE CheckCrashLoop BY <2>8, Zenon DEF CheckCrashLoop
  <2>9. CASE MenuReboot BY <2>9, Zenon DEF MenuReboot
  <2>10. CASE StartTool BY <2>10 DEF StartTool
  <2>11. CASE ToolReturned BY <2>11 DEF ToolReturned
  <2>12. CASE StartImage BY <2>12 DEF StartImage
  <2>13. CASE LoadFailed BY <2>13 DEF LoadFailed
  <2>14. ASSUME NEW route \in {"native", "firmware"},
               NEW status \in {"success", "error"},
               ImageReturned(route, status)
        PROVE  HealthInv'
    BY <2>14 DEF ImageReturned
  <2>15. CASE MarkState BY <2>15 DEF MarkState
  <2>16. CASE MarkCount BY <2>16 DEF MarkCount, Stored
  <2>17. CASE ImageTakesOver BY <2>17 DEF ImageTakesOver
  <2>18. CASE PowerOn BY <2>18 DEF PowerOn, SaturatingAdd1
  <2>19. CASE Reset BY <2>19 DEF Reset
  <2>20. CASE NewGeneration BY <2>20 DEF NewGeneration
  <2>21. CASE OsMarkState BY <2>21 DEF OsMarkState
  <2>22. CASE OsMarkCount BY <2>22 DEF OsMarkCount
  <2>23. CASE UNCHANGED vars BY <2>23 DEF vars
  <2> QED
    BY <2>1, <2>2, <2>3, <2>4, <2>5, <2>6, <2>7, <2>8, <2>9, <2>10,
       <2>11, <2>12, <2>13, <2>14, <2>15, <2>16, <2>17, <2>18, <2>19,
       <2>20, <2>21, <2>22, <2>23, Zenon
    DEF Next, Assess, BootLoop, Environment
<1> QED BY <1>1, <1>2, TypeCorrect, PTL DEF Spec

(***************************************************************************)
(* The refinement, one lemma per abstract action: what a step must do to   *)
(* the concrete variables to be that action under the mapping.             *)
(***************************************************************************)
Mapped == [Abstract!Next]_(Abstract!cvars)

\* A step that leaves the stored health, the verdict and Charged alone.
LEMMA Stutters ==
  ASSUME UNCHANGED <<nvState, nvCount, inCrashLoop>>, Charged' = Charged
  PROVE  Mapped
BY DEF Mapped, Abstract!cvars

\* A power cycle: the count stays, and nothing is charged yet.
LEMMA Cycles ==
  ASSUME nvState' = nvState, nvState = "Booting" => nvCount' = nvCount,
         ~ Charged', inCrashLoop' = inCrashLoop \/ inCrashLoop' = FALSE
  PROVE  Mapped
<1>1. (IF nvState' = "Booting" THEN nvCount' + 1 ELSE 0)
        = IF nvState = "Booting" THEN nvCount + 1 ELSE 0
  OBVIOUS
<1>2. Charged' = FALSE
  BY DEF Charged
<1>3. Abstract!PowerCycle
  BY <1>1, <1>2, Zenon DEF Abstract!PowerCycle
<1> QED
  BY <1>3 DEF Mapped, Abstract!Next

\* A state other than Booting forgets every unfinished boot.
LEMMA Forgets ==
  ASSUME nvState' # "Booting", Charged' \in {Charged, TRUE}, UNCHANGED inCrashLoop
  PROVE  Mapped
<1>1. (IF nvState' = "Booting" THEN nvCount' + 1 ELSE 0) = 0
  OBVIOUS
<1>2. Abstract!Forget
  BY <1>1, Zenon DEF Abstract!Forget
<1> QED
  BY <1>2 DEF Mapped, Abstract!Next

\* Clearing the counter of a Booting state leaves this boot alone.
LEMMA ForgetsEarlier ==
  ASSUME nvCount \in Nat, nvState = "Booting", nvState' = "Booting", nvCount' = 0,
         Charged, Charged' = Charged, UNCHANGED inCrashLoop
  PROVE  Mapped
<1>1. nvCount + 1 # 0 /\ nvCount' + 1 = 1
  OBVIOUS
<1>2. Abstract!ForgetEarlier
  BY <1>1 DEF Abstract!ForgetEarlier
<1> QED
  BY <1>2 DEF Mapped, Abstract!Next

\* This boot becomes one more unfinished one.
LEMMA Charges ==
  ASSUME ~ Charged, Charged' = TRUE, UNCHANGED inCrashLoop, nvState' = "Booting",
         \/ nvState # "Booting" /\ nvCount' = 0
         \/ nvState = "Booting" /\ nvCount' = SaturatingAdd1(nvCount, CounterMax),
         nvCount \in Nat, CounterMax \in Nat
  PROVE  Mapped
<1>1. nvState # "Booting" /\ nvCount' = 0 => nvCount' + 1 = 0 + 1 /\ 0 < CounterMax + 1
  OBVIOUS
<1>2. nvState = "Booting" =>
        nvCount' + 1 = IF nvCount + 1 < CounterMax + 1
                         THEN (nvCount + 1) + 1 ELSE CounterMax + 1
  BY DEF SaturatingAdd1
<1>3. Abstract!Charge
  BY <1>1, <1>2 DEF Abstract!Charge
<1> QED
  BY <1>3 DEF Mapped, Abstract!Next

\* Phase 8 compares the stored count, which is the boots before this one.
LEMMA Decides ==
  ASSUME nvCount \in Nat, nvState # "Booting" => nvCount = 0,
         Charged, Charged' = Charged, UNCHANGED <<nvState, nvCount>>,
         inCrashLoop' = (nvCount >= CrashThreshold)
  PROVE  Mapped
<1>1. nvCount + 1 # 0 /\ (nvCount + 1) - 1 = nvCount
  OBVIOUS
<1>2. Abstract!Earlier = nvCount
  BY <1>1 DEF Abstract!Earlier
<1>3. Abstract!Decide
  BY <1>2 DEF Abstract!Decide
<1> QED
  BY <1>3 DEF Mapped, Abstract!Next

\* A tool that returns withdraws the verdict.
LEMMA Withdraws ==
  ASSUME Charged, Charged' = Charged, UNCHANGED <<nvState, nvCount>>,
         inCrashLoop' = FALSE
  PROVE  Mapped
<1>1. Abstract!Withdraw
  BY DEF Abstract!Withdraw
<1> QED
  BY <1>1 DEF Mapped, Abstract!Next

\* When no variable write is lost, the NVRAM protocol implements the abstract
\* crash counter, with power failing between any two writes.
THEOREM Refinement ==
  ASSUME FlakyWrites = {}
  PROVE  Spec => ImplementsCrashCounter
<1>1. Init => Abstract!Init
  BY DEF Init, Abstract!Init, Charged
<1>2. TypeOK /\ HealthInv /\ [Next]_vars => Mapped
  <2> SUFFICES ASSUME TypeOK, HealthInv, [Next]_vars PROVE Mapped
    OBVIOUS
  <2>0. nvCount \in Nat /\ CounterMax \in Nat
    BY CounterMaxAssumption DEF TypeOK
  <2> USE DEF nvram, Charged
  <2>1. CASE BeginReset BY <2>1, Stutters DEF BeginReset
  <2>2. CASE ResetState BY <2>2, Forgets DEF ResetState, Stored
  <2>3. CASE ResetCount
    <3>1. nvState' # "Booting"
      BY <2>3 DEF ResetCount, HealthInv
    <3> QED BY <2>3, <3>1, Forgets DEF ResetCount
  <2>4. CASE StoreGenId
    <3>1. nvState' # "Booting"
      BY <2>4 DEF StoreGenId, HealthInv
    <3> QED BY <2>4, <3>1, Forgets, Zenon DEF StoreGenId
  <2>5. CASE ReadHealth BY <2>5, Stutters DEF ReadHealth
  <2>6. CASE WriteCount
    <3>1. nvCount' = CrashCount(nvState, nvCount) /\ UNCHANGED <<nvState, inCrashLoop>>
      BY <2>6 DEF WriteCount, HealthInv, Stored
    <3>2. ~ Charged /\ Charged' = (nvState = "Booting")
      BY <2>6 DEF WriteCount
    <3>3. CASE nvState = "Booting"
      BY <2>0, <3>1, <3>2, <3>3, Charges, Zenon DEF CrashCount
    <3>4. CASE nvState # "Booting"
      BY <3>1, <3>2, <3>4, Cycles
    <3> QED BY <3>3, <3>4
  <2>7. CASE WriteState
    <3>1. nvState' = "Booting" /\ Charged' = TRUE /\ Charged = (nvState = "Booting")
      BY <2>7 DEF WriteState, Stored
    <3>2. nvCount' = nvCount /\ inCrashLoop' = inCrashLoop
      BY <2>7 DEF WriteState
    <3>3. nvState # "Booting" => nvCount = 0
      BY <2>7 DEF WriteState, HealthInv
    <3> HIDE DEF Charged
    <3>4. CASE nvState = "Booting"
      BY <3>1, <3>2, <3>4, Stutters, Zenon
    <3>5. CASE nvState # "Booting"
      BY <2>0, <3>1, <3>2, <3>3, <3>5, Charges, Zenon
    <3> QED BY <3>4, <3>5
  <2>8. CASE CheckCrashLoop
    <3>1. nvState # "Booting" => nvCount = 0
      BY <2>8 DEF CheckCrashLoop, HealthInv
    <3> QED BY <2>0, <2>8, <3>1, Decides DEF CheckCrashLoop
  <2>9. CASE MenuReboot
    <3>1. ~ Charged' /\ UNCHANGED <<nvState, nvCount, inCrashLoop>>
      BY <2>9 DEF MenuReboot
    <3> HIDE DEF Charged
    <3> QED BY <3>1, Cycles
  <2>10. CASE StartTool BY <2>10, Stutters DEF StartTool
  <2>11. CASE ToolReturned
    <3>1. Charged /\ Charged' = Charged
      BY <2>11 DEF ToolReturned
    <3>2. inCrashLoop' = FALSE /\ UNCHANGED <<nvState, nvCount>>
      BY <2>11 DEF ToolReturned
    <3> HIDE DEF Charged
    <3> QED BY <3>1, <3>2, Withdraws, Zenon
  <2>12. CASE StartImage BY <2>12, Stutters DEF StartImage
  <2>13. CASE LoadFailed
    <3>1. ~ Charged' /\ UNCHANGED <<nvState, nvCount, inCrashLoop>>
      BY <2>13 DEF LoadFailed
    <3> HIDE DEF Charged
    <3> QED BY <3>1, Cycles
  <2>14. ASSUME NEW route \in {"native", "firmware"},
               NEW status \in {"success", "error"},
               ImageReturned(route, status)
        PROVE  Mapped
    <3>1. UNCHANGED <<nvState, nvCount, inCrashLoop>>
      BY <2>14 DEF ImageReturned
    <3>2. \/ Charged /\ Charged' = Charged
          \/ ~ Charged'
      BY <2>14 DEF ImageReturned
    <3> HIDE DEF Charged
    <3> QED BY <3>1, <3>2, Stutters, Cycles
  <2>15. CASE MarkState BY <2>15, Forgets DEF MarkState
  <2>16. CASE MarkCount
    <3>1. nvState # "Booting"
      BY <2>16 DEF MarkCount, HealthInv
    <3>2. ~ Charged' /\ UNCHANGED <<nvState, inCrashLoop>>
      BY <2>16 DEF MarkCount
    <3> HIDE DEF Charged
    <3> QED BY <3>1, <3>2, Cycles
  <2>17. CASE ImageTakesOver BY <2>17, Stutters DEF ImageTakesOver
  <2>18. CASE PowerOn
    <3>1. ~ Charged' /\ inCrashLoop' = FALSE /\ UNCHANGED <<nvState, nvCount>>
      BY <2>18 DEF PowerOn
    <3> HIDE DEF Charged
    <3> QED BY <3>1, Cycles, Zenon
  <2>19. CASE Reset
    <3>1. ~ Charged' /\ UNCHANGED <<nvState, nvCount, inCrashLoop>>
      BY <2>19 DEF Reset
    <3> HIDE DEF Charged
    <3> QED BY <3>1, Cycles
  <2>20. CASE NewGeneration BY <2>20, Stutters DEF NewGeneration
  <2>21. CASE OsMarkState BY <2>21, Forgets DEF OsMarkState
  <2>22. CASE OsMarkCount
    <3>1. CASE nvState = "Booting"
      BY <2>0, <2>22, <3>1, ForgetsEarlier DEF OsMarkCount
    <3>2. CASE nvState # "Booting"
      BY <2>22, <3>2, Forgets DEF OsMarkCount
    <3> QED BY <3>1, <3>2
  <2>23. CASE UNCHANGED vars BY <2>23, Stutters DEF vars
  <2> QED
    BY <2>1, <2>2, <2>3, <2>4, <2>5, <2>6, <2>7, <2>8, <2>9, <2>10,
       <2>11, <2>12, <2>13, <2>14, <2>15, <2>16, <2>17, <2>18, <2>19,
       <2>20, <2>21, <2>22, <2>23
    DEF Next, Assess, BootLoop, Environment
<1> QED
  BY <1>1, <1>2, TypeCorrect, HealthInvariant, PTL
  DEF Spec, ImplementsCrashCounter, Abstract!Spec, Mapped
=============================================================================
